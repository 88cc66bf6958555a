----------------------------- MODULE HeadersFile -----------------------------
(***************************************************************************)
(* The first headers and the file they are kept in: get_initial_headers,   *)
(* read_headers_from_disk and download_and_persist_headers of              *)
(* blockchain_download/headers_download.rs, over several lives of the      *)
(* process.  A write that fails is only written in the log and the next    *)
(* list is written all the same; a crash loses the memory and may cut the  *)
(* list that is being written; what is in the file stays for the next      *)
(* start.                                                                  *)
(*                                                                         *)
(* Headers are the heights of one chain; Bad is a header that is none of   *)
(* them, and stands for whatever headers misread bytes make.  The file is  *)
(* a list of headers messages without their header: [heads, bytes], where  *)
(* bytes is how many bytes of the message got to the disk.                 *)
(* read_headers_from_disk cuts the bytes of the file in slices of          *)
(* HEADERS_MESSAGE_SIZE, the size of a message of BatchSize headers.       *)
(*                                                                         *)
(* seen is history: what peers and the disk have done to the file and to   *)
(* the headers in memory.                                                  *)
(***************************************************************************)
EXTENDS Integers, SequencesExt

CONSTANTS Peers, NoPeer,
          BatchSize,        \* 2000
          LongCount,        \* 253: from it on a count takes 3 bytes
          headers_in_disk,  \* of the configuration
          Tip,              \* height of the chain
          Cuts,             \* bytes a write that fails part way can leave
          MaxEmptyLists, MaxCrashes, MaxFaults

ASSUME HeadersFileAssumption ==
    /\ NoPeer \notin Peers /\ BatchSize \in Nat \ {0} /\ LongCount \in 1 .. BatchSize
    /\ Tip \in Nat /\ headers_in_disk \in 1 .. Tip + 1
    /\ Cuts \subseteq Nat
    /\ MaxEmptyLists \in Nat /\ MaxCrashes \in Nat /\ MaxFaults \in Nat

VARIABLES
    exists, file,           \* the headers file
    headers, header_heights,\* in memory; a height that has no entry is -1
    pc, pos,                \* pos: byte of the file to be read next
    nodes, node,            \* connections not in use, and the one in use
    tips,                   \* height each peer knows of
    seen, crashes, faults

memVars == <<headers, header_heights, pos, nodes, node>>
fileVars == <<exists, file>>
envVars == <<tips, seen, crashes, faults>>
vars == <<fileVars, memVars, pc, envVars>>

Bad == -1
Chain == 0 .. Tip

(***************************************************************************)
(* Bytes.  A count takes 1 or 3, a header with its count of transactions,  *)
(* which is not read, 81.                                                  *)
(***************************************************************************)
CountSize(heads) == IF Len(heads) >= LongCount THEN 3 ELSE 1
SizeOf(heads) == CountSize(heads) + 81 * Len(heads)

\* Mutant: the genesis header is counted too.
SizeWithGenesis == 3 + 81 * (BatchSize + 1)

HEADERS_MESSAGE_SIZE == 3 + 81 * BatchSize

Whole(m) == m.bytes = SizeOf(m.heads)
Full(m) == Len(m.heads) = BatchSize
HasCount(m) == m.bytes >= CountSize(m.heads)

\* Headers all of whose 80 bytes got to the disk.
Kept(m) == IF HasCount(m) THEN (m.bytes - CountSize(m.heads) + 1) \div 81 ELSE 0

\* Bytes of the first n messages of the file, and of all.
Offset(n) == LET sum[k \in 0 .. Len(file)] == IF k = 0 THEN 0 ELSE sum[k - 1] + file[k].bytes
             IN  sum[n]
Length == Offset(Len(file))

\* What a reader of whole messages would get from the file.
Contents == FlattenSeq([i \in DOMAIN file |-> SubSeq(file[i].heads, 1, Kept(file[i]))])

(***************************************************************************)
(* Heights of the headers about to be stored.                              *)
(***************************************************************************)
load_header_heights(heads) ==
    header_heights' = [h \in Chain |-> IF h \in ToSet(heads)
                                       THEN Len(headers) - 1 + (CHOOSE i \in DOMAIN heads : heads[i] = h)
                                       ELSE header_heights[h]]

(***************************************************************************)
(* get_initial_headers.  reading is what the configuration says of this    *)
(* life of the process.                                                    *)
(***************************************************************************)
get_initial_headers(reading) ==
    /\ pc = "start"
    /\ pc' = IF reading /\ exists THEN "read" ELSE "create"
    /\ UNCHANGED <<fileVars, memVars, envVars>>

(***************************************************************************)
(* read_headers_from_disk.  A slice that begins with the count of a list   *)
(* gives as many headers as the list has; the last ones are made of the    *)
(* bytes that follow if the list was cut.  Of a slice that begins          *)
(* elsewhere any bytes are the count: it gives any headers, or an error.   *)
(***************************************************************************)
Begins(i) == pos = Offset(i - 1) /\ HasCount(file[i])
BadHeaders(n) == [i \in 1 .. n |-> Bad]

Slices ==
    {SubSeq(file[i].heads, 1, Kept(file[i])) \o BadHeaders(Len(file[i].heads) - Kept(file[i])) :
        i \in {i \in DOMAIN file : Begins(i)}}
    \cup {BadHeaders(n) : n \in {n \in 0 .. BatchSize : ~\E i \in DOMAIN file : Begins(i)}}

SliceThere == pc = "read" /\ pos + HEADERS_MESSAGE_SIZE <= Length

ReadMessage ==
    /\ SliceThere
    /\ \E heads \in Slices : load_header_heights(heads) /\ headers' = headers \o heads
    /\ pos' = pos + HEADERS_MESSAGE_SIZE
    /\ UNCHANGED <<fileVars, nodes, node, pc, envVars>>

\* HeadersMessage::unmarshalling fails; what was read stays in memory.
UnmarshallingError ==
    /\ SliceThere /\ ~\E i \in DOMAIN file : Begins(i)
    /\ pc' = "create"
    /\ UNCHANGED <<fileVars, memVars, envVars>>

TooShort == pc = "read" /\ pos < Length /\ Length < pos + HEADERS_MESSAGE_SIZE

\* The slice data[i..i + HEADERS_MESSAGE_SIZE] is out of range.
ReadPanics ==
    /\ TooShort
    /\ pc' = "panic"
    /\ UNCHANGED <<fileVars, memVars, envVars>>

\* The file cannot be opened or read.
ReadFails ==
    /\ pc = "read" /\ pos = 0 /\ faults < MaxFaults
    /\ pc' = "create" /\ faults' = faults + 1
    /\ UNCHANGED <<fileVars, memVars, tips, seen, crashes>>

ReadEnd ==
    /\ pc = "read" /\ pos >= Length
    /\ pc' = "ready"
    /\ UNCHANGED <<fileVars, memVars, envVars>>

(***************************************************************************)
(* download_and_persist_headers.  A new file begins a new history, unless  *)
(* headers of the old one are in memory.                                   *)
(***************************************************************************)
\* Mutant: the file is opened to append to it.
AppendToFile ==
    /\ pc = "create"
    /\ exists' = TRUE
    /\ seen' = IF pos = 0 THEN {} ELSE seen
    /\ pc' = "get"
    /\ UNCHANGED <<file, memVars, tips, crashes, faults>>

CreateFile ==
    /\ pc = "create"
    /\ exists' = TRUE /\ file' = <<>>
    /\ seen' = IF pos = 0 THEN {} ELSE seen
    /\ pc' = "get"
    /\ UNCHANGED <<memVars, tips, crashes, faults>>

CreateFails ==
    /\ pc = "create" /\ faults < MaxFaults
    /\ pc' = "failed" /\ faults' = faults + 1
    /\ UNCHANGED <<fileVars, memVars, tips, seen, crashes>>

GetNode ==
    /\ pc = "get" /\ nodes # {}
    /\ \E n \in nodes : node' = n /\ nodes' = nodes \ {n}
    /\ pc' = "loop"
    /\ UNCHANGED <<fileVars, headers, header_heights, pos, envVars>>

\* Mutant: without a connection the thread waits for one to come back.
WaitForNode ==
    /\ pc = "get" /\ nodes = {} /\ node # NoPeer
    /\ pc' = "failed"
    /\ UNCHANGED <<fileVars, memVars, envVars>>

NoNode ==
    /\ pc = "get" /\ nodes = {}
    /\ pc' = "failed"
    /\ UNCHANGED <<fileVars, memVars, envVars>>

\* The answer to a getheaders that names the last header: what follows it,
\* or what follows the genesis block if the peer does not know it.
Answer(p) ==
    LET last == Last(headers)
        from == IF last \in 0 .. tips[p] THEN last + 1 ELSE 1
        to == IF from + BatchSize - 1 <= tips[p] THEN from + BatchSize - 1 ELSE tips[p]
    IN [i \in 1 .. to - from + 1 |-> from + i - 1]

\* Of the empty lists that follow each other the file keeps MaxEmptyLists.
EmptyAtEnd == {i \in DOMAIN file : \A j \in i .. Len(file) : file[j].heads = <<>>}
LeftOut(heads) == heads = <<>> /\ Cardinality(EmptyAtEnd) >= MaxEmptyLists

\* What the history keeps of a list of which n bytes are written: a short
\* list, a cut one, one that is missing or cut, one that follows such a one,
\* and one that does not follow the last header.
Note(heads, n) ==
    {kind \in {"short", "cut", "failed", "gap", "behind"} :
        CASE kind = "short"  -> n > 0 /\ Len(heads) < BatchSize
          [] kind = "cut"    -> 0 < n /\ n < SizeOf(heads)
          [] kind = "failed" -> n < SizeOf(heads)
          [] kind = "gap"    -> n > 0 /\ "failed" \in seen
          [] kind = "behind" -> Answer(node) # <<>> /\ Answer(node)[1] # Last(headers) + 1}

\* Mutant: only the first list of a life is written.
PersistFirstOnly(heads, n) ==
    /\ file' = IF file = <<>> THEN <<[heads |-> heads, bytes |-> n]>> ELSE file
    /\ seen' = seen \cup Note(heads, n)

\* write_all, of which n bytes get to the file.  An error is only written in
\* the log.
Persist(heads, n) ==
    /\ file' = IF n = 0 \/ LeftOut(heads) THEN file
               ELSE Append(file, [heads |-> heads, bytes |-> n])
    /\ seen' = seen \cup Note(heads, n)

Writes(heads) == {SizeOf(heads)}
                 \cup {n \in {0} \cup Cuts : n < SizeOf(heads) /\ faults < MaxFaults}

HeadersMissing == pc = "loop" /\ Len(headers) < headers_in_disk

\* request_headers_from_node, receive_and_persist_initial_headers_from_node,
\* load_header_heights, store_headers_in_local_headers_vec.
DownloadList ==
    /\ HeadersMissing
    /\ LET heads == Answer(node) IN
       /\ \E n \in Writes(heads) :
             /\ Persist(heads, n)
             /\ faults' = IF n < SizeOf(heads) THEN faults + 1 ELSE faults
       /\ load_header_heights(heads)
       /\ headers' = headers \o heads
    /\ UNCHANGED <<exists, pos, nodes, node, pc, tips, crashes>>

\* validate_headers refuses the list; it is in the file already, and so are
\* the heights of its headers.
ListRefused ==
    /\ HeadersMissing /\ faults < MaxFaults /\ Answer(node) # <<>>
    /\ LET heads == [Answer(node) EXCEPT ![1] = Bad] IN
       /\ \E n \in Writes(heads) :
             /\ file' = IF n = 0 THEN file ELSE Append(file, [heads |-> heads, bytes |-> n])
             /\ seen' = seen \cup Note(heads, n) \cup {"refused"}
       /\ load_header_heights(heads)
    /\ pc' = "get" /\ node' = NoPeer
    /\ faults' = faults + 1
    /\ UNCHANGED <<exists, headers, pos, nodes, tips, crashes>>

\* The request or the read fails: the connection is dropped.
NodeFails ==
    /\ HeadersMissing /\ faults < MaxFaults
    /\ pc' = "get" /\ node' = NoPeer /\ faults' = faults + 1
    /\ UNCHANGED <<fileVars, headers, header_heights, pos, nodes, tips, seen, crashes>>

ReturnNode ==
    /\ pc = "loop" /\ ~HeadersMissing
    /\ nodes' = nodes \cup {node} /\ node' = NoPeer
    /\ pc' = "ready"
    /\ UNCHANGED <<fileVars, headers, header_heights, pos, envVars>>

(***************************************************************************)
(* The world: peers may be any number of blocks behind and get the next    *)
(* one; the process is stopped or killed at any moment, and started again. *)
(***************************************************************************)
CatchUp(p) == /\ tips[p] < Tip /\ tips' = [tips EXCEPT ![p] = @ + 1]
              /\ UNCHANGED <<fileVars, memVars, pc, seen, crashes, faults>>

Reset == /\ headers' = <<0>> /\ header_heights' = [h \in Chain |-> -1] /\ pos' = 0
         /\ nodes' = Peers /\ node' = NoPeer
         /\ pc' = "start"

Restart == /\ crashes < MaxCrashes /\ crashes' = crashes + 1
           /\ Reset
           /\ UNCHANGED <<fileVars, tips, seen, faults>>

\* Killed while a list is being written.
CrashInWrite ==
    /\ HeadersMissing /\ crashes < MaxCrashes /\ crashes' = crashes + 1
    /\ \E n \in Cuts : /\ 0 < n /\ n < SizeOf(Answer(node))
                       /\ Persist(Answer(node), n)
    /\ Reset
    /\ UNCHANGED <<exists, tips, faults>>

\* headers starts with the genesis block; header_heights with the entry of a
\* hash of zeros, which no header has.
Init == /\ exists = FALSE /\ file = <<>>
        /\ headers = <<0>> /\ header_heights = [h \in Chain |-> -1]
        /\ pc = "start" /\ pos = 0 /\ nodes = Peers /\ node = NoPeer
        /\ tips \in [Peers -> Chain]
        /\ seen = {} /\ crashes = 0 /\ faults = 0

ProcessStep == \/ \E reading \in BOOLEAN : get_initial_headers(reading)
               \/ ReadMessage \/ UnmarshallingError \/ ReadPanics \/ ReadEnd
               \/ CreateFile \/ GetNode \/ NoNode \/ DownloadList \/ ReturnNode

Next == \/ ProcessStep
        \/ ReadFails \/ CreateFails \/ ListRefused \/ NodeFails \/ Restart \/ CrashInWrite
        \/ \E p \in Peers : CatchUp(p)

\* The process runs on, and the peers get the blocks they miss in the end.
Fairness == WF_vars(ProcessStep) /\ WF_vars(\E p \in Peers : CatchUp(p))

Spec == Init /\ [][Next]_vars /\ Fairness

(***************************************************************************)
(* Properties.                                                             *)
(***************************************************************************)
IsChain(hs) == \A i \in DOMAIN hs : hs[i] = i - 1

\* Crashes, writes that fail and connections that fail never make the node
\* start with a chain that has a gap, a repetition or a foreign header, and
\* header_heights gives the index of every header but the first, whose hash
\* the code does not enter.  Exceptions: an answer of a peer that does not
\* know the last header and begins after the genesis block, which is stored
\* again; and if headers come from the file, one that holds a short list, a
\* list that was refused after it was written, or a list written after one
\* that failed.
LoadedHeadersAreChain ==
    "behind" \notin seen /\ (pos = 0 \/ seen \cap {"refused", "short", "gap"} = {}) =>
        IsChain(headers) /\ \A i \in 2 .. Len(headers) : header_heights[headers[i]] = i - 1

\* Downloading, the file holds the headers in memory, or the first of them
\* after a write that failed, unless a refused list is in it or another list
\* was written after the failure.  A start that loads a file of full lists
\* ends with the headers of the file, repetitions and gaps included.
PersistedEqualsMemory ==
    /\ pc \in {"get", "loop", "ready"} /\ pos = 0 /\ seen \cap {"refused", "gap"} = {} =>
         /\ IsPrefix(Contents, Tail(headers))
         /\ "failed" \notin seen => Contents = Tail(headers)
    /\ pc = "ready" /\ pos > 0 /\ seen \cap {"short", "cut"} = {} => Contents = Tail(headers)

\* read_headers_from_disk panics only on a file in which a short list was
\* written or one was cut, wherever in the file it is: not after a write
\* that left nothing, a refused list or a repetition.
PanicOnlyIfCut == pc = "panic" => seen \cap {"short", "cut"} # {}

\* Once it is no longer killed, get_initial_headers comes to an end: peers
\* that are behind do not hold it for ever.  Exception: headers that are
\* missing in memory, after a file with a gap, make it ask for more than the
\* chain has, and it waits for new blocks.
Ends == <>[](\/ pc \in {"ready", "failed", "panic"}
             \/ Last(headers) = Tip /\ Len(headers) < Tip + 1)
=============================================================================
