# Verification of the Bitcoin node

TLA+ models of the node in this repository (Rust, `src/`), the TLC
configurations that check them, and TLAPS proofs about them.  Paths below are
relative to the repository's `src/src/` unless they say otherwise.

## 1. The system

The program connects to Bitcoin testnet peers, downloads the headers of the
chain and the blocks from a configured date on, builds the set of unspent
outputs, and then follows the chain while it serves a wallet.

| component | state | operations | properties that make it correct |
|---|---|---|---|
| handshake (`handshake.rs`) | shared vector of sockets | one thread per group of addresses: connect, version/verack, push | error only if no connection was made; every good socket is kept |
| headers download (`blockchain_download/headers_download.rs`) | `headers`, `header_heights`, pool `nodes` | take a connection, ask for 2000 headers at a time, store, send to the blocks thread, fail over to another connection | every header is stored once and in order; every list from the first block on is sent |
| headers on disk (same file) | csv file | read at start, or download and write the first headers | a restart continues with what was written |
| blocks download (`blockchain_download/blocks_download.rs`) | `blocks`, channel of header lists | receive a list, divide it in chunks, one worker with a connection per chunk, put a chunk back when its connection fails | no block is lost on a retry; Ok means all blocks; it returns |
| utxo loader (`blockchain_download/mod.rs`, `blocks/block.rs`, `transactions/transaction.rs`) | `utxo_set`, channel of block lists | apply each block | unspent coins are there, spent ones are not |
| initial block download (`blockchain_download/mod.rs`) | the above | start the three threads, join them, return; or do it with one connection | connections are used by one thread at a time and returned; the result tells the truth |
| message handlers (`handler/*.rs`) | `headers`, `header_heights`, `blocks`, `utxo_set`, accounts, `transactions_recieved` | one thread per peer: headers, block, inv, tx, getheaders, getdata, ping | the chain stays a chain, heights are indices, coins and transactions are exact; a thread does not panic |
| node, start-up, shutdown (`main.rs`, `node.rs`, `network.rs`, `handler/node_message_handler.rs`) | connections, `finish` flag, senders, join handles | read the configuration, set up the loggers, connect, download, serve, broadcast, finish | start-up and shutdown end; Ok means that no thread is left; an error has a cause |
| server (`server.rs`) | counter of connections, stop channel | accept, handshake, add a connection, stop | bounded connections; it ends when it is told to |
| wallet (`wallet.rs`, `account.rs`, `utxo_tuple.rs`, `wallet_event.rs`) | accounts, coins, pending and confirmed transactions | add and change account, make a transaction, search, proof of inclusion | coins cover the amount; signatures verify; a payment comes from the account that is shown; balance and history are those of the account |
| merkle tree (`blocks/merkle_tree.rs`, `blocks/utils_block.rs`) | none | root, proof of inclusion | proof and root agree |
| wire formats (`compact_size_uint.rs`, `messages/`, `transactions/`, `blocks/`) | bytes in a socket | marshalling and unmarshalling, skipping messages, queueing answers | what a peer sends is handled as it was sent |
| log writer (`logwriter/`) | three channels and files | write, close | the closing line is the last one; the joins end |
| configuration (`config.rs`) | settings | read a file | every setting has the value of its line |
| addresses and scripts (`address_decoder.rs`, `transactions/script/`) | none | address, script, signature | a script pays the address it was made for |
| user interfaces (`gtk/`, `terminal_ui.rs`) | widgets, two queues of events | callbacks, events | what is shown is what the wallet has; buttons come back |

**Interactions.**  Everything is shared through `Arc<RwLock<..>>` and taken one
short lock at a time.  During the initial download the headers thread sends
lists of headers to the blocks thread through a channel; its workers send lists
of blocks to the utxo loader through another one, and put failed chunks back in
the first; all take connections from one vector and push them back.  Later one
thread per connection reads messages and changes the chain, the utxo set and
the accounts, while the wallet's thread serves the interface's requests, which
come through one queue and are answered through another.

**What is hard.**  Tests and insertions under separate locks; counts compared
while two threads change them; a retry of work that was partly done; a channel
whose receiver also holds a sender; lists that end exactly at a batch boundary;
the order in which blocks reach the utxo set; indices used after the lock under
which they were found is released; a panic that poisons a lock; a read that times
out in the middle of a message; a process killed in the middle of a write; events
that carry copies of what has changed since; joins of threads that wait for a
peer, and loggers that wait for everybody.  The list, line by line, is under
`hazards` in `PROJECT.json`.

## 2. Modules

| module | models | extends |
|---|---|---|
| `HeadersDownload` | `download_missing_headers` and what it calls, the pool of connections | |
| `UtxoLoader` | `load_utxo_set`, `give_me_utxos` | `HeadersDownload` |
| `BlocksDownload` | `download_blocks`, its workers and retries | both |
| `ChainSync` | abstract: what the download promises to the rest of the program | |
| `InitialBlockDownload` | the three threads and the main thread that joins them; properties; inductive invariant; the refinement of `ChainSync` | `BlocksDownload` |
| `SingleNodeDownload` | `download_full_blockchain_from_single_node` | `UtxoLoader` |
| `HeadersFile` | the first headers in their file, over several lives of the process | |
| `TxHandlers` | inv and tx messages, `contains_pending_tx` | |
| `ChainHandlers` | headers, block and getheaders messages | `TxHandlers` |
| `NodeHandlers` | the threads of all connections together; properties | `ChainHandlers` |
| `Bytes` | integers and compact sizes as bytes, readers that may fail or panic | |
| `WireFormats` | marshalling and unmarshalling of transactions, blocks and messages | `Bytes` |
| `MerkleTree` | merkle root, tree and proofs of inclusion, beside a reference definition | `WireFormats` |
| `MessageStream` | the bytes of one connection, from the handshake to the handler loop | `MerkleTree` |
| `Scripts` | addresses, keys and scripts | |
| `Accounts` | coins, the choice of coins, building and signing a transaction | `Scripts` |
| `Wallet` | the threads of the interface, the wallet and a peer, with their queues | `Accounts` |
| `Config` | the configuration file and the list of addresses | |
| `Handshake` | the connection threads | `Config` |
| `LogWriter` | the three loggers | |
| `PeersHandler` | the threads of the connections and the server, as far as they start, wait and end | `LogWriter`, `Config` |
| `Lifecycle` | `run_node` from the arguments to the exit | `Handshake`, `PeersHandler` |
| `MC...` | constants and symmetry for TLC | |
| `InitialBlockDownloadProofs` | the theorems on the multi-node download | `InitialBlockDownload` |
| `SingleNodeDownloadProofs` | those on the single-node download | `SingleNodeDownload` |
| `NodeHandlersProofs` | those on any number of connections | `NodeHandlers`, `ListLemmas` |
| `HeadersFileProofs` | those on the headers file | `HeadersFile`, `ListLemmas` |
| `WalletProofs` | those on the wallet and the interface | `Wallet`, `ListLemmas` |
| `WalletCoinsProofs` | those on coins and payments | `WalletProofs` |
| `LifecycleProofs` | those on start-up, server and shutdown | `Lifecycle`, `ListLemmas` |
| `ListLemmas` | induction and recursion up to a number, parts and concatenations of lists | |

A few operators are marked as mutants: each is a plausible bug in the
definition that follows it, kept to show that the property it is paired with
in `PROJECT.json` would notice.

### Initial block download

*Abstraction.*  The peers serve one valid chain `0..Tip`, so headers and blocks
are heights, the vector `headers` is its length, and a list of headers is an
interval.  `FirstBlock` stands for the configured date and the configured
height of the first block alike.  A coin is the output of one block, `Spends`
says which coins a block spends.  The order of the vector of connections depends
on timing and is left out.  Poisoned locks and the user-interface events are
left out.  `InitialHeaders` is the result of `get_initial_headers`.

*State and actions.*  `nodes` is the pool (`get_node`, `return_node_to_vec`).
The headers thread (`hpc`) takes a connection (`HeadersGetNode`), stores the
first list (`HeadersFirstBatch`: in the code this list is stored outside the
loop and never sent), then loops: a list before the first block is skipped
(`HeadersBatchSkipped`), one with blocks to download is stored and sent
(`HeadersBatchToSend`, `HeadersSend`), an empty one too (`HeadersBatchEmpty`),
until a list is not full; then it returns the connection.  A failing connection
(`HeadersNodeError`) or a list that does not validate (`HeadersInvalid`) makes it
start again with another one.  The blocks thread (`bpc`) receives a list,
divides it (`Chunk`), starts a worker for each chunk with a connection each
(`BlocksSpawn`; without one it fails, `BlocksNoNode`), joins them and compares the number of
blocks with the number of headers (`AllBlocksDownloaded`).  A worker asks for
`BlocksPerNode` blocks at a time, sends them to the loader, and stores the chunk
at the end; when its connection fails the *whole* chunk goes back to the channel
(`try_to_download_blocks_from_other_node`).  Each action is one step between two
accesses to shared state, so all interleavings of the threads are there.

*Fairness.*  Weak fairness of every thread: the scheduler runs it, and a
connection that does not fail answers.  Failures are never required.  The reads
of the code have no timeout, so a silent peer is outside this assumption (the
program then waits).

### Message handlers

*Abstraction.*  Block 0 is the last one of the initial download and `1..NBlocks`
are mined later, in order, on one chain; `Bad` is a header that fails the proof
of work.  A peer announces every block once, in order, and answers requests
for blocks in the order they were made, as one TCP stream does.  One header
per headers message and one hash per inv: the code handles the entries of a
message one after the other.  There is one account and every transaction in
`Txs` pays it.  Each block makes one coin; what a block spends is removed in one
step (the code takes the lock once per input).

*State and actions.*  `pc[p]` is the place of peer p's thread in its handler and
every action is what it does under one lock: `HeadersCheck` (search in the last
`Window` headers, ask for the block), `HeadersLen` and `HeadersHeight`
(`load_header_heights`, which runs for *every* header received), `BlockCheck`,
`BlockPush`, `BlockHeight` (`include_new_header`), `BlockSpend`, `BlockCoin`
(`give_me_utxos`), `BlockAccounts` (`update_accounts_utxo_set`, which needs the list
of accounts for itself while other threads hold it for reading), `TxFind`, `TxRemove`,
`TxConfirm` (`contains_pending_tx`), `BlockStore` (`include_new_block`).
`Vec::remove` and slices out of bounds panic; the first does so with a lock held
for writing, which poisons it (`poisoned`), and every later use of that lock
ends its thread with an error.  `PeerGone` is a closed connection.

*Fairness.*  Weak fairness of the handler steps (threads are scheduled and locks
are released), strong fairness of `ReceiveBlock`: a peer that stays connected
sends a block it was asked for, whatever else it sends before, since the stream
is ordered.  Nobody has to announce anything and `PeerGone` may always happen.

### What the download promises

`ChainSync` states it without threads, channels or connections: headers become
known, blocks of known headers are stored, and an answer is given once; after Ok
nothing changes any more, and Ok means a complete chain unless a headers connection
was lost.  `InitialBlockDownload` implements it under the mapping `known <- headers`,
`stored <- blocks`, `lossy <- ~NoGap`, `answer <- result` (`ImplementsChainSync`).  The
message handlers start from what it promises.

### Headers on disk

`HeadersFile` follows the file through several lives of the process.  The file is a
list of messages, any of which may be cut; sizes in bytes are computed, since
`read_headers_from_disk` takes the file for slices of one fixed size.  A life reads the
file or creates it, asks peers for lists, writes each list *before* it validates it
and keeps it (`DownloadList`, `ListRefused`), and goes on with another connection
after a failure.  Each write may fail on its own and leave nothing or a part of its list
(`Persist`): the code logs the error, keeps the list in memory and tries the next write.  A
crash (`Restart`, `CrashInWrite`) may come at any moment and cut what is being written.  A
slice is read as the list that begins where it begins, if one does (`Begins`); elsewhere
the bytes are arbitrary, and so are the headers they make (`Slices`; `Bad` stands for each
of them).  Peers may be any number of blocks behind: one that does not know the last
header answers from the genesis block on (`Answer`).  `seen` is history: what has happened
to the file and to the memory, for the exceptions that the properties name.
*Fairness*: the process runs, and a peer that is behind catches up.

### Bytes on a connection

`Bytes` and `WireFormats` write and read every structure and message to and from bytes:
compact sizes in their four forms, integers of 4 and 8 bytes as sequences of 16-bit digits
(TLC's integers have 32 bits), and readers that end in "ok", "err" or "panic" where the
code returns an error or indexes out of range.  `MerkleTree` has the two ways in which
the code computes roots, beside a short reference definition.  The digest is a
constant; the instance uses a small one.

`MessageStream` is the one connection these bytes travel on.  The peer sends a script of
messages (`PeerSend`), each in one or two segments (`Arrive`), and may close
(`PeerClose`).  The node runs the fixed sequence of reads and writes of the handshake and
of the first requests, in which `read_from` skips what it does not want and answers pings,
and then the loop of `handle_messages_from_node`: poll the queue, read a header, read
a payload, handle.  Reading a block leaves a timeout on the socket; a read that times out
in the middle of a message drops what it had (`WouldBlock`), which `torn` records.
*Fairness*: the thread and the network go on, the peer sends its script unless it closes,
a timeout expires.

### Wallet and interface

`Scripts` and `Accounts` are operators: addresses and keys as sequences of bytes with
their prefixes and checksums, P2PKH and P2WPKH scripts, the choice of coins, the unsigned
transaction, signatures over the message of each input, validation.  Hashes, public keys
and signatures are constants, injective in the instance.  A transaction is its own hash.

`Wallet` puts them between three threads: the interface (`ui`: dropdown, selection,
balance, tables, blocks tab, enabled buttons), the wallet (`wallet`) and a peer's handler
(`handler`), with the queues `toWallet` and `toUI`.  A click is an action with the
callback's tests; `OnWalletEvent` and `OnUIEvent` take the head of a queue and run the
whole handler, modal dialogs included.  Adding an account, `involves_user_account`,
`give_me_utxos` and `contains_pending_tx` are split where they release a lock.  At the
start any of the blocks of the last headers may be missing, since the download begins
at a date and can lose some.  `header_heights` is the index under which
`search_header` looks a header up; a peer may announce a new header or one that is known
(`handle_headers_message`), and `load_header_heights` overwrites the index of either.  History
variables name the known exceptions (`raced`, `stale`, `late`, `again`).  *Fairness*: each of
the three threads goes on; users and peers need not do anything.

### The life of the program

`Config` reads a file of settings (a line is its fields; a value is tagged with what it
parses as), `Handshake` has the connection threads with their chunks of addresses,
`LogWriter` the three loggers and who holds a sender, `PeersHandler` the threads of the
connections and the server as far as they start, wait for a peer, get messages to write,
end or panic, and `Lifecycle` runs `run_node` over them: arguments, configuration, loggers,
addresses, handshake, download (here only its outcome: an error, a panic, or Ok with at
least one connection left), listening threads, server, broadcasts, then `finish`, the joins,
the server's stop message and the loggers.  With the graphical interface the windows are
part of it.  *Fairness*: every thread runs, a read with a timeout ends, the wallet finds the
event of a closed window; no peer and no user has to act.  Nothing is assumed of the
download (`DownloadAndListen`), which may wait for ever: its reads have no timeout, and it
waits on a channel of which it holds a sender.

In `MessageStream`, `Wallet` and `Lifecycle` weak fairness of some threads is written out as
"infinitely often unable to step, or infinitely often a step", with the guard as an
operator of its own: TLC evaluates ENABLED of these actions far too slowly.  For each of
them the guard is implied by what the thread waits for, and only that thread changes what
the step is recognised by.

## 3. Runs

| run | result | what it shows |
|---|---|---|
| `ibd_retries` | pass | three connections, two workers, two failures of headers connections and one of a worker's: the download returns unless it loses its headers connection (`Termination`), the block of every known header is stored or somebody has it (`WorkConserved`), Ok means complete as long as no headers connection failed (`CompleteIfHeadersNodeSurvives`), connections are never shared (`NodesNotShared`), no unspent coin is lost however blocks are reordered and sent again (`UnspentCoinsKept`), the inductive invariant of the proofs holds (`IInv`), and the download keeps the promise of `ChainSync` (`ImplementsChainSync`) |
| `single_download` | pass | with one connection Ok means all blocks, an exact utxo set and all connections back (`OkMeansComplete`), an error means a failure (`ErrorMeansFailure`), and it never gets stuck (deadlock) |
| `nh_two_peers` | pass | two peer threads and two blocks with `Window = 1`, so that headers are included twice both by races and because the search misses them: headers stay behind their parents (`ParentFirst`), heights stay in range (`TypeOK`), the account has the coins of the utxo set outside an update (`AccountsCurrent`), an unspent coin is never lost |
| `nh_one_peer` | pass | with one connection heights are indices and the utxo set is exact (`ChainStateExact`), and only transactions of a block are confirmed (`ConfirmedInBlock`) |
| `nh_liveness` | pass | two peers, one block with a transaction of the account, poisoning included: no header without its block (`HeadersGetBlocks`), and an announced block is stored in the end (`AnnouncedGetsStored`) |
| `headers_file` | pass | two crashes and two faults: the headers loaded or downloaded are a chain with the right heights (`LoadedHeadersAreChain`), file and memory agree (`PersistedEqualsMemory`), a start panics only over a cut or short list (`PanicOnlyIfCut`), and it comes to an end (`Ends`); each with the exceptions it names, which are the outcomes listed in section 5 |
| `message_stream` | pass | whatever the segments and the skipped messages, what is handled is what was sent (`DeliveredAsSent`, `EverythingHandled`), pings are answered in order with their nonces (`PongsInOrder`), answers do not wait for the peer to speak (`AnswersLeave`), and a block that arrives has the root, the proofs and the height it should (`BlocksVerifiable`) |
| `wallet` | pass | coins of accounts (`BalanceExact`), what is shown at rest (`ShownIsCurrent`, `BlocksTabRight`), payments (`PaymentsValid`, `PaidFromShownAccount`, `SpendsUnspentCoins`), what becomes of transactions (`TransactionsTracked`), buttons (`ButtonsComeBack`) |
| `lifecycle` | pass | what a start-up that goes on has got (`StartupOutcome`), a quiet shutdown with the closing lines last (`ShutdownQuiet`), errors only with a cause (`ErrorsCaused`); start-up ends unless a node is silent in the handshake or the download lasts for ever (`StartupEnds`), and so does the shutdown unless a peer keeps a thread (`ShutdownEnds`) |
| `ibd_lost_batch` | violation | after a headers connection fails, the next one's first list is never sent and Ok is returned without its blocks |
| `stream_torn` | violation | a message whose parts arrive further apart than the timeout is handled as something else |
| `lifecycle_limit` | violation | the server serves one connection more than `MAX_CONNECTIONS` |

The three violations state what a comment or the configuration file of the repository says;
the `findings` in `PROJECT.json` quote it.

**Bounds.**
  - *Download*: `BatchSize = 3` stands for 2000 and gives a list before the first block, a
    list that contains it, full lists after it and a short (`ibd_retries`, `Tip = 10`)
    or empty (`single_download`, `Tip = 9`) last one.  Two workers are enough for two chunks to race and for a chunk to be put back
    while another is running; three connections let the pool be empty with one in each
    of three threads.  Failures are enough to use up the pool.
  - *Handlers*: two threads show every pairwise race; two blocks make a parent and a child;
    `Window` (10 in the code) is 1 where the search has to miss a header.
  - *Headers file*: lists of 2 and a chain of 5 headers of which 4 are wanted (two full lists,
    or a full and a short one), two peers that are each any number of blocks behind, two
    crashes (one to cut the file, one to end the life that meets it), two faults (a write that
    fails and one that fails again or a connection that is lost after it), each failed write
    with nothing or one header written.  `MaxEmptyLists` bounds how many empty lists in a row
    the file keeps: the code writes one each time it asks a peer that is behind.
  - *Stream*: three scripts that between them have every command, blocks of one, two, three
    and five transactions and a script of 253 bytes; segments of 12, 24 and 60 bytes end
    inside a header, at its end and inside a payload.  Compact sizes at all limits of
    their forms are an assumption of `MCMessageStream` that TLC evaluates.
  - *Wallet*: two accounts, four clicks or messages in any order, payments that need two
    coins or have a bad address, one incoming transaction that spends a coin of an
    account, one block of up to two transactions in any order, headers that are announced
    again; two listed headers (`AMOUNT_TO_SHOW`, 500 in the code), each with or without its
    block, so that after a new one comes in one of them is still listed and one is not.
  - *Lifecycle*: three addresses that answer, fail or stay silent; nine configuration files;
    `MaxU8 = 1` in the place of 255, so that the limit of the server can be at it; two
    incoming connections (one more than the limit), one fault, one broadcast.

Peers are symmetric; `nh_two_peers`, which has invariants only, makes use of it.

`CHECK_DEADLOCK FALSE` is set where the system may stop: the download may hang after a lost
list; a node whose connections have all ended, a wallet whose user and peers do nothing, a
peer that has sent its script, a process that is not started again and a program that has
exited do nothing more.

## 4. Proofs

The modules `...Proofs` prove, for every value of the constants that the named assumptions
allow:

| module | theorem | states |
|---|---|---|
| `InitialBlockDownloadProofs` | `Invariant` | `IInv` is an invariant |
| | `TypeCorrect` | `TypeOK` |
| | `ConnectionsExclusive` | `NodesNotShared` |
| | `NoWorkLost` | `WorkConserved` |
| | `OkIsComplete` | `CompleteIfHeadersNodeSurvives` |
| | `NoUnderflow` | `TotalDoesNotUnderflow` |
| | `NoUnspentCoinLost` | `UnspentCoinsKept` |
| | `DoneIsExact` | `DoneOnlyWhenAllKnownStored` (an action property) |
| | `Refinement` | `ImplementsChainSync`: every step is one of `ChainSync` or a stutter |
| `SingleNodeDownloadProofs` | `SingleOkIsComplete` | `OkMeansComplete`, if `FirstBlock <= Tip` |
| | `SingleErrorIsFailure` | `ErrorMeansFailure`, if `SeveralPeers`, or if `BlocksInLaterList` and there is a connection |
| `NodeHandlersProofs` | `TypeCorrect` | `TypeOK` |
| | `AccountsStayCurrent` | `AccountsCurrent` |
| | `UnspentKept` | `UnspentCoinsKept` |
| | `NoHeaderWithoutBlock` | `HeadersGetBlocks` |
| | `ParentsFirst` | `ParentFirst` |
| | `OneConnectionExact` | `ChainStateExact`, if `OneConnection` |
| | `OneConnectionConfirms` | `ConfirmedInBlock`, if `OneConnection` |
| | `OneConnectionNeverPoisons` | no thread poisons the pending transactions, if `OneConnection` |
| `HeadersFileProofs` | `HeadersAreChain` | `LoadedHeadersAreChain` |
| | `FileEqualsMemory` | `PersistedEqualsMemory` |
| | `PanicsOnlyIfCut` | `PanicOnlyIfCut` |
| `WalletProofs` | `WalletSafe` | the inductive invariant `SafeInv` |
| | `PaidFromShown` | `PaidFromShownAccount` |
| | `BlocksTab` | `BlocksTabRight` |
| | `Tracked` | `TransactionsTracked`, as long as `Others` holds |
| | `ScreenRight` | `ShownIsCurrent` |
| `WalletCoinsProofs` | `BalancesExact` | `BalanceExact`, if `LibraryLengths` and `StandardScripts` |
| | `PaymentsAreValid` | `PaymentsValid`, under the same hypotheses |
| | `PaidUnspent` | `SpendsUnspentCoins`, if `Fresh` holds as well |
| `LifecycleProofs` | `OneTooManyAtMost` | below the largest number of its counter the server misses its limit by one connection at most |
| | `ShutdownIsQuiet` | `ShutdownQuiet` |
| | `ErrorsHaveCauses` | `ErrorsCaused` |
| | `StartupIsRight` | `StartupOutcome` |

*Assumptions on the constants*, each named in the module that declares them and evaluated
by TLC in the runs: finitely many connections and a chain with a positive batch size whose
first headers are given (`PeersAssumption`, `ChainAssumption`), at least one worker and one
block per request (`WorkersAssumption`, `SingleAssumption`), blocks that spend coins of
earlier blocks (`SpendsAssumption`), a chain that has the headers the file is to hold (`HeadersFileAssumption`); in
`Scripts`, lengths of keys and hashes, with hashes of more than one byte (`LengthsAssumption`);
in `Wallet`, numbers that are numbers, payments with an address, an amount and a fee, and
finitely many transactions of others, whose inputs and outputs are lists and whose outputs
have a value and a script (`WalletAssumption`); in `Lifecycle`, files that are lists of lines, and answers of the
resolver whose IPv4 addresses are addresses (`LifecycleAssumption`).

*Hypotheses of theorems.*  `LibraryLengths` says what the hash library returns: four bytes
of checksum for a list of bytes that is not empty, and `HashLen` bytes for the hash of the public
key of a private key that the user may enter.  The instance of `MCWallet` satisfies it, and
`StandardScripts`.  Without the others the statements are false, in the model as in the code:
  - `FirstBlock <= Tip`: with no block to download and a chain that ends with a full list,
    the last, empty list makes the single-node download drop a connection that has not
    failed, and Ok is returned without it.
  - `SeveralPeers`, or `BlocksInLaterList` and a connection: if the connection dropped in
    this way is the only one, the download ends with an error though nothing has failed
    (that also happens if the chain ends with the first list and this list is full,
    because the first list is never sent); and without a connection it ends with an error
    at once.
  - `OneConnection`: several threads can include one block twice, leave a spent coin in
    the set and remove a pending transaction behind the end (section 5).  The runs
    with two peers state what remains true, and those statements are proved for any
    number of connections.
  - `Others`, a hypothesis on the behaviour: no transaction of the wallet is among those that
    peers announce of their own accord.  Otherwise a peer can deliver a transaction
    the wallet has yet to make, which is then pending twice and removed once.
  - `StandardScripts`, on the outputs of the transactions of others: a script that begins like a
    P2PKH or a P2WPKH script is one, of a hash of whatever length.  `Pubkey::generate_address`
    looks at the first byte only and cuts the hash out by position, so a script that merely
    begins like one is counted as paying the address that the cut spells, which none of the
    two scripts of `CoinsPaying` does.
  - `Fresh`, a hypothesis on the behaviour: a transaction that a block may bring is none of the
    chain that was downloaded.  A transaction that comes a second time puts its outputs back
    (`load_utxos` inserts them whatever was spent), and a coin that a block has spent can be
    spent again.

*Arguments.*  Hardly any of the properties is inductive.  What was added, and why:
  - *Multi-node download*, `IInv`: a thread holds a connection exactly where it uses it
    (`NodesInv`); lists and stored blocks lie between `FirstBlock` and the headers
    stored, which makes the comparison of two counts an equality of two sets
    (`RangeInv`); what the place of a thread says of the rest (`PhaseInv`); nothing was sent
    before the first block was found, as long as no headers connection failed (`WorkInv`);
    a running worker has sent the loader what it received, so the chunk it stores has its
    coins in the set or on the way (`CoinInv`).
  - *Refinement*: a step of the headers thread that stores a list learns headers, one of a
    worker that stores a chunk stores blocks, and of the steps that return the main
    thread's is the answer; the others stutter.  `IInv` gives that stored blocks are
    known, and that Ok, without a failure, is complete.
  - *Single-node download*, `SInv`: until a connection fails (`Clean`), the lists in the
    channels form one run without a gap or an overlap from the first block to the tip, and the
    blocks thread and the loader each stand at one height of that run.  With several
    connections somebody is left as long as none has failed (`SomeoneLeft`), whatever the
    chain: at most one is dropped without a failure.  With one connection and a block in a
    later list the first block is found before the end of the chain (`NobodyDropped`).
  - *Handlers*: `TypeInv` adds to the types what a thread remembers between two locks
    (`LocalsOK`): indices it found, within lists that only grow.  `CoinInv` says which
    threads have added the coin of their block and not yet stored the block, `StoreInv` that
    every header without a block has a thread at it; `OrderInv` that the blocks asked of a peer
    are in ascending order and that no block before the last one it checked is
    forgotten, from which a header's parent is there before it, whatever the other
    threads do.
  - *One connection*, `OneInv`: the vector is the chain in order, what is asked for comes
    next, and each step of a handler has done its part.
  - *Headers file*, `FileLifeInv`: what the history says of the file: without a short list all
    are full, without a cut one all are whole, and without a write after a failed one only
    the last can be cut (`FileInv`); the slices of a file whose lists are full, all but the
    last one whole, are its lists, so `pos` is at the beginning of a list and memory is what
    was read before it (`ReadInv`, `Tidy`); a file that was left half read had a short or a cut
    list (`PlaceInv`); without the exceptions the lists in the file follow each other from
    the first header on (`FileChainInv`), and memory is such a chain with its heights
    (`MemoryInv`).  `PersistedEqualsMemory` and `PanicOnlyIfCut` are inductive with these.
  - *Wallet*, `SafeInv`: the button of a login stays disabled until the answer, so there is
    one at a time as a request, as an account being added or as a reply (`LoginInv`), and
    the list of the interface names the accounts in their order but for that one
    (`NamesInv`).  A payment is queued behind the changes of account that were clicked
    before it: at each place of the queue, what will be `current` by then is what was
    shown at the click (`SelectInv`).  A block is stored before it is announced, so what is
    listed or on its way to the list is stored, and what came in and is stored is one of these
    (`StoredInv`, `OpeningInv`, `ListedInv`); a request for a listed block keeps finding it
    (`SearchInv`).  A header is looked up at its own place as long as it was announced, at most,
    before it was included: including it puts right what the announcement set
    (`HeightsInv`).  The interface has panicked only over a listed block that the initial
    download lacks or whose handling the panic has stopped (`PanickedInv`).  A transaction of the wallet is pending, confirmed or being moved
    (`KeptInv`); one whose block has gone through an account is not pending there, unless it
    came too late or was made twice (`GoneInv`, with `DuplicatesInv`: pending twice means
    made twice).
  - *Screen*, `ScreenInv`: as long as nobody is on the way to ask for the account
    (`BalanceAsked`), the last balance in the queue, or the one that is shown if there is none,
    is that of the account in use (`BalanceInv`); the same for its transactions, with the
    table and the overview (`TableInv`).  A peer announces a pending transaction before it is
    pushed, so the request is on its way, or already handled and then counted in `stale`
    (`TellInv`).  The overview keeps rows from earlier answers where the last one has
    fewer: none does, because an account has as many transactions as before or more, and
    changing the account clears the overview first (`CountInv`).
  - *Coins*, `CoinInv`: unspent outputs are tuples with one hash each and different indices
    (`GoodCoins`), an account has the address of its key (`Keyed`) and, but for the time
    between the two locks of a block, exactly what `utxos_referenced_to_account` selects
    (`Exact`).  From there: that selection is `CoinsPaying` (`PayingIs`, from
    `HashOfAddress` and `PaysIs`: with standard scripts the address of a script is that of
    a key exactly if the script pays the key's hash); `get_utxos_for_amount` chooses a part
    of the coins worth the amount (`SpendIs`); the inputs are the chosen outputs one by one
    (`OutputsAre`), so their values add up to outputs and fee (`PaidBalanced`); and `sign`
    finds for each input the script of the output it spends (`PaidSigned`).
  - *Spent coins*, `SpentInv`: what a block of the chain spends is not among the unspent
    outputs, and cannot return, since it is an output of the chain and new outputs are of
    transactions that are not (`Fresh`); within a block, what it spends was there before it.
  - *Life of the program*, `LifeInv`: every thread is among the handles until `finish`
    takes them, and one that is added later starts with the flag set (`JoinInv`); a
    logger ends after all its senders, in the order of the shutdown (`LogInv`); while
    every sender has failed, their threads are gone (`BroadcastInv`); the counter of the
    server is the number of connections it serves (`ServeInv`).
  - *Start-up*, `StartupInv` on top of it: as long as no line was refused, `from_reader` has
    counted the lines it took and each setting has the value of its line or the default
    one, so 23 lines with different names are all 23 settings (`AcceptedFile`).  The parts
    of the threads are not empty, one behind the other, and together the list of nodes
    (`PartsCover`); each thread has the end of its part left, and the list of connections
    has those nodes tried so far that answer, each as often as it was given (`PartsInv`,
    `SocketsInv`), until the download gets it.

There is one lemma per action, with a step per part that the action can disturb, and
lemmas on the operators: `ChunkFacts` and `PartsCover` (chunks cover a list), `SubChunkFacts`,
`CountIsEnough`, what `ReadLines` reads of a file, what a concatenation of lists contains
(`ListLemmas`), what removing or appending does to a list, what a sum over a list is
(`SumIs`, `SumConcat`) and what a selection from it keeps (`KeepIs`).  Inductions over numbers are made
through least elements of sets of numbers; recursive functions (`ReadLines`, `FlattenSeq`,
`SumOf`, `UtxosAfter`, the sizes of messages) are unfolded on their finite domains by such an induction.

*Invariants and runs.*  TLC checked each inductive invariant on a small instance before it was
proved, those of the screen and of the coins included; `IInv` is part of a run.  `TotalDoesNotUnderflow`, `DoneOnlyWhenAllKnownStored`,
`SafeInv` and `~poisoned` are stated as theorems only.

*Only model-checked*:
  - liveness: `Termination`, `AnnouncedGetsStored`, `Ends`, `EverythingHandled`,
    `AnswersLeave`, `ButtonsComeBack`, `StartupEnds`, `ShutdownEnds` (fairness is out of the
    prover's reach);
  - `MessageStream`, that is `DeliveredAsSent`, `PongsInOrder` and `BlocksVerifiable`: `Bytes`
    and `MerkleTree` use RECURSIVE operators, so nothing that extends them can be proved
    about; their byte sequences are data to compute with.  The other invariants and action
    properties of the passing runs are all theorems.

## 5. What modelling showed

The three findings are the runs that expect a violation.  The rest are consequences of the
code that the properties state as their exceptions, or that are outside a property; each
is at its line.

*Download.*
  - `download_blocks` can return Ok between two lists of headers, when the counts happen to
    agree; the headers thread's next send then fails and the download returns an error
    (`blocks_download.rs:98`).
  - It receives from a channel while it owns a sender of it (`blocks_download.rs:65`), so
    after a lost list it can wait forever.
  - A chain that ends with a full list makes the multi-node download fail, because an empty
    list is sent after `download_blocks` is done (`blocks_download.rs:66`).
  - No read of the download has a timeout except that of a block: a silent peer holds its
    thread.

*Headers file.*
  - A write that fails is only logged and the next list is written (`messages/headers_message.rs:82`):
    the file then has a gap, or a cut list in its middle, and the next start loads a chain
    with a gap, misreads what follows the cut, or panics.
  - A connection that takes over and does not know the last header answers from the genesis
    block on; the headers are stored and written a second time
    (`headers_download.rs:229`, `:393`).
  - After a file with a gap more headers are wanted than the chain has left: the start asks
    the peer again and again until new blocks are mined, and writes an empty list each time
    (`headers_download.rs:229`).
  - A refused list stays in the file and is loaded, unvalidated, by the next start
    (`headers_download.rs:238`); a short list misaligns the rest of the file (`:111`), and what
    was read before the error stays in memory while the file is made anew (`:63`).
  - A cut list makes every later start panic until the file is removed (`:111`).

*Handlers.*
  - Two threads can include the same block (`message_handlers.rs:249`) and apply a block
    while its parent is being applied, which leaves a spent coin in the set (`:261`).
  - A second announcement overwrites a height with the length of the chain (`:75`);
    getheaders can then slice behind the end and panic (`:113`).
  - Two threads at one block can confirm or remove at an index that is no longer right, or
    panic with the lock held (`blocks/block.rs:222`).
  - A transaction that arrives after its block stays pending (`transactions/tx_out.rs:115`).

*Wire formats.*
  - The payload of notfound is a whole inv message (`messages/notfound_message.rs:9`); the length
    of the user agent is always written as 16 (`messages/payload/version_payload.rs:246`); `get_height`
    needs a height of three bytes (`transactions/tx_in.rs:147`); the tree of a block of one
    transaction has another root than the block (`blocks/merkle_tree.rs:65`).
  - An OP_DUP script of four bytes slices from 3 to 2 and panics (`transactions/script/pubkey.rs:37`).

*Wallet.*
  - Two payments before the next block choose the same coins (`account.rs:83`).
  - An account that is read before a block and added after it has the old coins until
    the next block (`wallet.rs:86`).
  - The interface is told of a pending transaction before it is one (`tx_out.rs:136`).
  - The interface panics if the main window opens while a block is being handled, and always
    if one of the blocks of the last 500 headers was not downloaded, as with a late
    `DATE_FIRST_BLOCK_TO_DOWNLOAD` (`gtk/ui_functions.rs:503`).
  - A header that is announced again is looked up at the end of the chain: the search does
    not find it, or finds the next one that comes in (`handler/message_handlers.rs:75`,
    `blockchain.rs:51`).
  - Only the sum of amount and fee is tested (`wallet.rs:256`); a P2WPKH coin counts in the
    balance and cannot be spent (`transactions/script/pubkey.rs:31`).

*Start-up, server, shutdown.*
  - The server accepts one connection more than the limit (`server.rs:95`); its counter is a
    u8 and panics in a debug build, or starts again, at a limit of 255 (`server.rs:107`).
  - A server that has ended at its limit makes the shutdown return an error with the
    loggers open (`server.rs:161`); so does the first thread found to have panicked
    (`handler/node_message_handler.rs:126`).
  - The wallet's copy of the senders has no connection the server accepts (`:149`; "broadcast
    to all connected nodes", `:89`).
  - `finish` set during a read makes a payload of zeros be handled (`:373`).
  - No addresses make `chunks(0)` panic, and `N_THREADS=0` connects to nobody
    (`handshake.rs:25`); a repeated setting can stand for a missing one (`config.rs:128`).
  - An error at start-up leaves the initial window open (`main.rs:78`).

## 6. Not modelled, and the plan

Left out: the terminal menu (text in and out; the operations it calls are those of
`Wallet` and `Lifecycle`), the layout, styles and progress labels of the graphical
interface, the DNS lookup, and the algorithms of base58, hashing and signatures, which are
library code.  Reorganisations of the chain are not handled by the code.  Poisoned
locks are modelled where the code can panic with a lock held for writing.

Open: proofs about `MessageStream`, for which the operators on bytes would have to be written
without RECURSIVE, and the algorithms they compute stated for every input, which is
induction over data.
