------------------------------- MODULE Wallet -------------------------------
(***************************************************************************)
(* The wallet behind its graphical interface: the interface's thread       *)
(* (gtk/callbacks.rs, gtk/ui_functions.rs), the wallet's thread            *)
(* (wallet_event.rs, wallet.rs) and a thread of a peer that handles        *)
(* transactions and blocks (handler/message_handlers.rs), with the two     *)
(* queues of events between the first two.                                 *)
(*                                                                         *)
(* A dialog is modal and runs inside the handler of its event, so the      *)
(* handling of an event of the interface is one step.                      *)
(***************************************************************************)
EXTENDS Accounts, FiniteSetsExt

CONSTANTS
    Logins,             \* [wif, address] the user may enter
    Payments,           \* [to, amount, fee] the user may enter
    Confirmed,          \* transactions of the chain that was downloaded
    Incoming,           \* transactions of others that peers will announce
    AMOUNT_TO_SHOW,     \* blocks listed when the main window opens (500)
    RecentRows,         \* rows of the overview (5)
    MaxLogins, MaxSends, MaxSelects, MaxSearches,   \* bounds: clicks
    MaxBlocks, MaxBlockTxs,                         \* bounds: mined blocks
    MaxInputs                                       \* bound: clicks, messages

ASSUME WalletAssumption ==
    /\ AMOUNT_TO_SHOW \in Nat \ {0} /\ RecentRows \in Nat \ {0}
    /\ {MaxLogins, MaxSends, MaxSelects, MaxSearches, MaxBlocks, MaxBlockTxs, MaxInputs} \subseteq Nat
    /\ IsFiniteSet(Confirmed) /\ IsFiniteSet(Incoming)
    /\ \A tx \in Confirmed \cup Incoming :
          tx.ins \in Seq(Range(tx.ins)) /\ tx.outs \in Seq([value : Int, script : Seq(Int)])
    /\ Payments \subseteq [to : Seq(Int), amount : Int, fee : Int]

VARIABLES
    utxo_set,           \* the unspent outputs, a set of UtxoTuples
    headers,            \* the number of headers; a block's number is its place
    header_heights,     \* the index under which a header is looked up, from 0
    blocks,             \* the transactions of each block that is stored
    accounts, current,  \* of the wallet; current_account_index, 0 for None
    toWallet, toUI,     \* the queues of events
    wallet,             \* the wallet's thread: [at, account]
    handler,            \* the peer's thread: [at, block, txs, place, account]
    ui,                 \* the interface's thread and its widgets
    clicks,             \* how often the buttons were used
    network,            \* transactions the other nodes know, not in a block
    received,           \* those of Incoming that have been received
    made,               \* history: the transactions of the wallet
    raced,              \* history: accounts that were read before a block
                        \*   changed the coins and added after it
    stale,              \* history: transactions were pending without an event
    late,               \* history: transactions received after their block
    again               \* history: known headers that were announced again

chainVars == <<utxo_set, headers, header_heights, blocks>>
walletVars == <<accounts, current, wallet>>
uiVars == <<ui, clicks>>
netVars == <<network, received>>
histVars == <<made, raced, stale, late, again>>
vars == <<chainVars, walletVars, toWallet, toUI, handler, uiVars, netVars, histVars>>

NoAccount == [address |-> <<>>, private_key |-> <<>>, utxo_set |-> {}, pending |-> <<>>, confirmed |-> <<>>]
Idle == [at |-> "idle", block |-> 0, txs |-> <<>>, place |-> 1, account |-> 1]
Event(type) == [type |-> type]
NoRow == [state |-> "none"]

\* The headers are the last ones of the chain, those that are listed.  Any of
\* their blocks can be missing: the download begins at a date, and loses some.
Init ==
    /\ headers = AMOUNT_TO_SHOW
    /\ header_heights = [b \in 1 .. headers |-> b - 1]
    /\ \E stored \in SUBSET (1 .. headers) : blocks = [b \in stored |-> <<>>]
    /\ utxo_set = UNION {load_utxos({}, tx) : tx \in {t \in Confirmed : DOMAIN blocks # {}}}
    /\ accounts = <<>> /\ current = 0
    /\ wallet = [at |-> "loop", account |-> NoAccount]
    /\ toWallet = <<>> /\ toUI = <<Event("InitializeUITabs")>>
    /\ handler = Idle
    /\ ui = [st |-> "starting", dropdown |-> <<>>, selected |-> 0, sensitive |-> TRUE,
             balance |-> 0, table |-> <<>>, recent |-> [i \in 1 .. RecentRows |-> NoRow], blocks |-> <<>>]
    /\ clicks = [login |-> 0, send |-> 0, select |-> 0, search |-> 0]
    /\ network = Incoming /\ received = {}
    /\ made = <<>> /\ raced = {} /\ stale = FALSE /\ late = {} /\ again = {}

\* What has come from outside so far.
Inputs == SumFunction(clicks) + Cardinality(received) + Cardinality(again) + (headers - AMOUNT_TO_SHOW)

Running == ui.st # "panicked"
Coins(utxos) == UNION {{[hash |-> t.hash, index |-> u.index] : u \in Range(t.utxo_set)} : t \in utxos}
Coin(in) == [hash |-> in.hash, index |-> in.index]
CoinsSpentBy(tx) == {Coin(i) : i \in Range(tx.ins)}
MinedTxs == UNION {Range(blocks[b]) : b \in DOMAIN blocks}

(***************************************************************************)
(* The callbacks of the interface.                                         *)
(***************************************************************************)
Click(button, bound) ==
    /\ ui.st = "open"
    /\ clicks[button] < bound
    /\ Inputs < MaxInputs
    /\ clicks' = [clicks EXCEPT ![button] = @ + 1]
    /\ UNCHANGED <<chainVars, walletVars, toUI, handler, netVars, histVars>>

get_buttons == {"send-button", "search-tx-button", "search-blocks-button", "search-header-button", "login-button"}
Enabled(widget) == widget \in get_buttons \cup {"dropdown-menu"} => ui.sensitive

disable_buttons_and_entries(u) == [u EXCEPT !.sensitive = FALSE]
enable_buttons_and_entries(u) == [u EXCEPT !.sensitive = TRUE]

Request(event) == toWallet' = Append(toWallet, event)

login_button_clicked(login) ==
    /\ Click("login", MaxLogins)
    /\ Enabled("login-button")
    /\ ui' = disable_buttons_and_entries(ui)
    /\ Request([type |-> "AddAccountRequest", wif |-> login.wif, address |-> login.address])

\* The account that is shown at the click is kept for the history.
send_button_clicked(payment) ==
    /\ Click("send", MaxSends)
    /\ Enabled("send-button")
    /\ Request([type |-> "MakeTransaction", payment |-> payment, shown |-> ui.selected])
    /\ UNCHANGED ui

\* Mutant: the place in the list, counted from the other end.
dropdown_from_the_end(i) ==
    /\ Click("select", MaxSelects)
    /\ Enabled("dropdown-menu") /\ i \in DOMAIN ui.dropdown /\ i # ui.selected
    /\ ui' = [ui EXCEPT !.selected = i]
    /\ Request([type |-> "ChangeAccount", index |-> Len(ui.dropdown) + 1 - i])

dropdown_accounts_changed(i) ==
    /\ Click("select", MaxSelects)
    /\ Enabled("dropdown-menu") /\ i \in DOMAIN ui.dropdown /\ i # ui.selected
    /\ ui' = [ui EXCEPT !.selected = i]
    /\ Request([type |-> "ChangeAccount", index |-> i])

\* Whether the block was listed at the click is kept for the history.
search_blocks_button_clicked(b) ==
    /\ Click("search", MaxSearches)
    /\ Enabled("search-blocks-button")
    /\ Request([type |-> "SearchBlock", hash |-> b, listed |-> Contains(ui.blocks, b)])
    /\ UNCHANGED ui

search_headers_button_clicked(b) ==
    /\ Click("search", MaxSearches)
    /\ Enabled("search-header-button")
    /\ Request([type |-> "SearchHeader", hash |-> b, listed |-> Contains(ui.blocks, b)])
    /\ UNCHANGED ui

search_tx_poi_button_clicked(b, tx) ==
    /\ Click("search", MaxSearches)
    /\ Enabled("search-tx-button")
    /\ Request([type |-> "PoiOfTransactionRequest", hash |-> b, tx |-> tx, listed |-> Contains(ui.blocks, b)])
    /\ UNCHANGED ui

Clicks ==
    \/ \E l \in Logins : login_button_clicked(l)
    \/ \E p \in Payments : send_button_clicked(p)
    \/ \E i \in DOMAIN ui.dropdown : dropdown_accounts_changed(i)
    \/ search_blocks_button_clicked(headers)
    \/ search_headers_button_clicked(headers)
    \/ \E tx \in Incoming : search_tx_poi_button_clicked(headers, tx)

(***************************************************************************)
(* handle_ui_event: the interface's side of each event.                    *)
(***************************************************************************)
OnUIEvent(types) ==
    /\ ui.st \in {"starting", "open"}
    /\ toUI # <<>>
    /\ Head(toUI).type \in types
    /\ toUI' = Tail(toUI)
    /\ UNCHANGED <<chainVars, walletVars, handler, clicks, netVars, histVars>>

\* The blocks of the last headers are looked up: one that is not there is a
\* panic of the main thread.
initialize_blocks_tab(u) ==
    LET shown == [i \in 1 .. AMOUNT_TO_SHOW |-> headers + 1 - i]
    IN IF Range(shown) \subseteq DOMAIN blocks THEN [u EXCEPT !.st = "open", !.blocks = shown]
       ELSE [u EXCEPT !.st = "panicked"]

render_main_window ==
    /\ OnUIEvent({"InitializeUITabs"})
    /\ ui' = initialize_blocks_tab(ui)
    /\ UNCHANGED toWallet

\* Mutant: the buttons stay disabled after an error.
account_tab_only_if_added ==
    /\ OnUIEvent({"AccountAddedSuccesfully", "AddAccountError"})
    /\ ui' = IF Head(toUI).type = "AddAccountError" THEN ui
             ELSE [enable_buttons_and_entries(ui) EXCEPT !.dropdown = Append(@, Head(toUI).address)]
    /\ UNCHANGED toWallet

\* update_account_tab and render_account_tab.
account_tab ==
    /\ OnUIEvent({"AccountAddedSuccesfully", "AddAccountError"})
    /\ ui' = [enable_buttons_and_entries(ui) EXCEPT
                 !.dropdown = IF Head(toUI).type = "AddAccountError" THEN @ ELSE Append(@, Head(toUI).address)]
    /\ UNCHANGED toWallet

\* The rows of the overview are hidden until the transactions come.
update_overview(u, balance_of_account) ==
    [u EXCEPT !.balance = balance_of_account, !.recent = [i \in 1 .. RecentRows |-> NoRow]]

account_changed ==
    /\ OnUIEvent({"AccountChanged"})
    /\ ui' = update_overview(ui, Head(toUI).balance)
    /\ Request(Event("GetTransactionsRequest"))

\* render_recent_transactions: rows that are not needed stay as they are.
render_recent_transactions(rows, recent) ==
    LET skipped == IF Len(rows) <= RecentRows THEN 0 ELSE Len(rows) - RecentRows
    IN [i \in 1 .. RecentRows |-> IF skipped + i <= Len(rows) THEN rows[skipped + i] ELSE recent[i]]

render_transactions ==
    /\ OnUIEvent({"UpdateTransactions"})
    /\ ui' = [ui EXCEPT !.table = Head(toUI).rows,
                        !.recent = render_recent_transactions(Head(toUI).rows, @)]
    /\ UNCHANGED toWallet

\* Mutant: the account is not asked for.
handle_add_block_only ==
    /\ OnUIEvent({"AddBlock"})
    /\ ui' = [ui EXCEPT !.blocks = <<Head(toUI).block>> \o @]
    /\ UNCHANGED toWallet

handle_add_block ==
    /\ OnUIEvent({"AddBlock"})
    /\ ui' = [ui EXCEPT !.blocks = <<Head(toUI).block>> \o @]
    /\ Request(Event("GetAccountRequest"))

\* Events that make the interface ask for the transactions again.
transactions_changed ==
    /\ OnUIEvent({"ShowPendingTransaction", "ShowConfirmedTransaction", "NewPendingTx"})
    /\ Request(Event("GetTransactionsRequest"))
    /\ UNCHANGED ui

\* Events that are only shown.
show_dialog_message_pop_up ==
    /\ OnUIEvent({"ChangeAccountError", "MakeTransactionStatus", "BlockFound", "HeaderFound", "NotFound", "POIResult"})
    /\ UNCHANGED <<ui, toWallet>>

UIStep ==
    \/ render_main_window \/ account_tab \/ account_changed \/ render_transactions
    \/ handle_add_block \/ transactions_changed \/ show_dialog_message_pop_up


(***************************************************************************)
(* handle_ui_request: the wallet's thread.  The list of accounts has a     *)
(* lock, which the peer's thread holds for reading while it goes through   *)
(* the accounts.                                                           *)
(***************************************************************************)
AccountsRead ==
    \/ handler.at \in {"tx_push", "confirm_push"}
    \/ handler.at \in {"tx_check", "confirm"} /\ handler.account > 1

OnWalletEvent(type) ==
    /\ Running
    /\ wallet.at = "loop"
    /\ toWallet # <<>>
    /\ Head(toWallet).type = type
    /\ toWallet' = Tail(toWallet)
    /\ UNCHANGED <<chainVars, handler, uiVars, received>>

Show(events) == toUI' = toUI \o events

\* add_account: the coins are read here and the account is added in a second
\* step.
add_account ==
    /\ OnWalletEvent("AddAccountRequest")
    /\ LET new == new_account(Head(toWallet).wif, Head(toWallet).address)
       IN IF new.st # "ok"
          THEN Show(<<Event("AddAccountError")>>) /\ UNCHANGED wallet
          ELSE /\ wallet' = [at |-> "adding",
                             account |-> [new.val EXCEPT !.utxo_set = utxos_referenced_to_account(utxo_set, new.val.address)]]
               /\ UNCHANGED toUI
    /\ UNCHANGED <<accounts, current, network, histVars>>

push_account ==
    /\ Running /\ wallet.at = "adding" /\ ~AccountsRead
    /\ accounts' = Append(accounts, wallet.account)
    /\ wallet' = [at |-> "loop", account |-> NoAccount]
    /\ Show(<<[type |-> "AccountAddedSuccesfully", address |-> wallet.account.address]>>)
    /\ UNCHANGED <<chainVars, current, toWallet, handler, uiVars, netVars, histVars>>

\* AccountChanged carries a copy of the account, of which the balance is used.
AccountChanged(i) ==
    [type |-> "AccountChanged", balance |-> BalanceOf(SetToSeq(accounts[i].utxo_set))]

change_account ==
    /\ OnWalletEvent("ChangeAccount")
    /\ LET i == Head(toWallet).index
       IN IF i > Len(accounts)
          THEN Show(<<Event("ChangeAccountError")>>) /\ UNCHANGED current
          ELSE current' = i /\ Show(<<AccountChanged(i)>>)
    /\ UNCHANGED <<accounts, wallet, network, histVars>>

get_current_account ==
    /\ OnWalletEvent("GetAccountRequest")
    /\ Show(IF current = 0 THEN <<>> ELSE <<AccountChanged(current)>>)
    /\ UNCHANGED <<walletVars, network, histVars>>

\* The list that is sent is out of date if the peer's thread has announced a
\* transaction that it has not added yet.
handle_get_transactions ==
    /\ OnWalletEvent("GetTransactionsRequest")
    /\ LET rows == get_transactions(accounts[current])
       IN Show(IF current = 0 \/ rows.st # "ok" THEN <<>>
               ELSE <<[type |-> "UpdateTransactions", rows |-> rows.val]>>)
    /\ stale' = (handler.at = "tx_push")
    /\ UNCHANGED <<walletVars, network, made, raced, late, again>>

validate_transaction_data(amount, fee) == amount + fee > 0

\* The transaction is pending before it is announced to the peers, and stays
\* so if that fails.
add_transaction(account, tx, sent) == [account EXCEPT !.pending = Append(@, tx)]

\* coins is the order of the account's coins, that of a HashMap.
make_transaction(coins, sent) ==
    LET p == Head(toWallet).payment
        a == accounts[current]
        tx == Account_make_transaction(a, coins, p.to, p.amount, p.fee)
        failed == <<Event("MakeTransactionStatus")>>
    IN IF current = 0 \/ ~validate_transaction_data(p.amount, p.fee) \/ tx.st # "ok"
       THEN ~sent /\ Show(failed) /\ UNCHANGED <<accounts, network, histVars>>
       ELSE /\ accounts' = [accounts EXCEPT ![current] = add_transaction(@, tx.val, sent)]
            /\ network' = IF sent THEN network \cup {tx.val} ELSE network
            /\ Show(IF sent THEN <<Event("NewPendingTx")>> \o failed ELSE failed)
            /\ made' = Append(made, [tx |-> tx.val, account |-> current, shown |-> Head(toWallet).shown,
                                     payment |-> p, coins |-> coins,
                                     current |-> handler.at \notin {"utxos", "accounts"} /\ current \notin raced])
            /\ stale' = (stale \/ ~sent)
            /\ UNCHANGED <<raced, late, again>>

handle_make_transaction ==
    /\ OnWalletEvent("MakeTransaction")
    /\ ~AccountsRead
    /\ \E sent \in BOOLEAN, coins \in SetToSeqs(IF current = 0 THEN {} ELSE accounts[current].utxo_set) :
          make_transaction(coins, sent)
    /\ UNCHANGED <<current, wallet>>

search_block(b) == b \in DOMAIN blocks

\* The header that is found for the hash of b, 0 for none: the one at its
\* index, if there is one.
search_header(b) ==
    IF b \in DOMAIN header_heights /\ header_heights[b] < headers THEN header_heights[b] + 1 ELSE 0

handle_search_block ==
    /\ OnWalletEvent("SearchBlock")
    /\ Show(<<IF search_block(Head(toWallet).hash) THEN Event("BlockFound")
              ELSE [type |-> "NotFound", request |-> Head(toWallet)]>>)
    /\ UNCHANGED <<walletVars, network, histVars>>

handle_search_header ==
    /\ OnWalletEvent("SearchHeader")
    /\ LET found == search_header(Head(toWallet).hash)
       IN Show(<<IF found # 0 THEN [type |-> "HeaderFound", request |-> Head(toWallet), header |-> found]
                 ELSE [type |-> "NotFound", request |-> Head(toWallet)]>>)
    /\ UNCHANGED <<walletVars, network, histVars>>

\* tx_proof_of_inclusion; the proof itself is that of module MerkleTree.
handle_poi ==
    /\ OnWalletEvent("PoiOfTransactionRequest")
    /\ LET b == Head(toWallet).hash
       IN Show(<<[type |-> "POIResult", listed |-> Head(toWallet).listed,
                  found |-> search_block(b),
                  included |-> search_block(b) /\ Contains(blocks[b], Head(toWallet).tx)]>>)
    /\ UNCHANGED <<walletVars, network, histVars>>

WalletStep ==
    \/ add_account \/ push_account \/ change_account \/ get_current_account \/ handle_get_transactions
    \/ handle_make_transaction \/ handle_search_block \/ handle_search_header \/ handle_poi

(***************************************************************************)
(* The peer's thread.  A transaction message: for each output, the         *)
(* accounts it pays are looked for, and for each of them the interface is  *)
(* told before the transaction is added to those pending.                  *)
(***************************************************************************)
OnPeer(at) ==
    /\ Running
    /\ handler.at = at
    /\ UNCHANGED <<walletVars, toWallet, uiVars>>

handle_tx_message(tx) ==
    /\ OnPeer("idle")
    /\ Inputs < MaxInputs
    /\ tx \in Incoming \ received
    /\ received' = received \cup {tx}
    /\ late' = IF tx \in MinedTxs THEN late \cup {tx} ELSE late
    /\ handler' = [Idle EXCEPT !.at = "tx_check", !.txs = <<tx>>]
    /\ UNCHANGED <<chainVars, toUI, network, made, raced, stale, again>>

\* The pairs of a place (an output, or a transaction of a block) and an account
\* that the thread has not yet come to: for each place all the accounts.
ToCome(pairs) ==
    {h \in pairs : h[1] > handler.place \/ (h[1] = handler.place /\ h[2] >= handler.account)}
FirstOf(hits) == CHOOSE h \in hits : \A g \in hits : h[1] < g[1] \/ (h[1] = g[1] /\ h[2] <= g[2])
GotoHit(at, h) == handler' = [handler EXCEPT !.at = at, !.place = h[1], !.account = h[2]]

involves_user_account ==
    /\ OnPeer("tx_check")
    /\ LET tx == handler.txs[1]
           Involved(k, i) == /\ ~Contains(accounts[i].pending, tx)
                             /\ get_address(tx.outs[k]) = Ok(accounts[i].address)
           hits == ToCome({pair \in (DOMAIN tx.outs) \X (DOMAIN accounts) : Involved(pair[1], pair[2])})
       IN IF hits = {} THEN handler' = Idle /\ UNCHANGED toUI
          ELSE GotoHit("tx_push", FirstOf(hits)) /\ toUI' = Append(toUI, Event("ShowPendingTransaction"))
    /\ UNCHANGED <<chainVars, netVars, histVars>>

push_pending ==
    /\ Running /\ handler.at = "tx_push"
    /\ accounts' = [accounts EXCEPT ![handler.account].pending = Append(@, handler.txs[1])]
    /\ handler' = [handler EXCEPT !.at = "tx_check", !.account = @ + 1]
    /\ UNCHANGED <<chainVars, current, wallet, toWallet, toUI, uiVars, netVars, histVars>>

\* The heights once b has got that of the next header.
WithHeight(b) == [c \in DOMAIN header_heights \cup {b} |-> IF c = b THEN headers ELSE header_heights[c]]

\* A peer announces the header of the next block, for which it is asked, or
\* one that is known: load_header_heights gives either the height of a new one.
handle_headers_message(b) ==
    /\ OnPeer("idle")
    /\ Inputs < MaxInputs
    /\ header_heights' = WithHeight(b)
    /\ again' = IF b <= headers THEN again \cup {b} ELSE again
    /\ UNCHANGED <<utxo_set, headers, blocks, toUI, handler, netVars, made, raced, stale, late>>

(***************************************************************************)
(* A block message, of a block that other nodes have mined: its header is  *)
(* added, then the unspent outputs, the accounts' coins, the transactions  *)
(* that were pending, and at last the block.                               *)
(***************************************************************************)
\* What other nodes accept in a block.
Mineable(txs) ==
    /\ \A t \in txs : CoinsSpentBy(t) \subseteq Coins(utxo_set) /\ \A i \in DOMAIN t.outs : t.outs[i].value >= 0
    /\ \A t, u \in txs : t # u => CoinsSpentBy(t) \cap CoinsSpentBy(u) = {}

handle_block_message(txs) ==
    /\ OnPeer("idle")
    /\ Inputs < MaxInputs
    /\ headers < AMOUNT_TO_SHOW + MaxBlocks
    /\ Mineable(Range(txs))
    /\ headers' = headers + 1 /\ header_heights' = WithHeight(headers + 1)
    /\ network' = network \ Range(txs)
    /\ handler' = [Idle EXCEPT !.at = "utxos", !.block = headers + 1, !.txs = txs]
    /\ UNCHANGED <<utxo_set, blocks, toUI, received, histVars>>

\* The unspent outputs after a list of transactions.
UtxosAfter(txs) ==
    LET after[k \in 0 .. Len(txs)] == IF k = 0 THEN utxo_set ELSE load_utxos(remove_utxos(after[k - 1], txs[k]), txs[k])
    IN after[Len(txs)]

give_me_utxos ==
    /\ OnPeer("utxos")
    /\ utxo_set' = UtxosAfter(handler.txs)
    /\ raced' = IF wallet.at = "adding" THEN raced \cup {Len(accounts) + 1} ELSE raced
    /\ handler' = [handler EXCEPT !.at = "accounts"]
    /\ UNCHANGED <<headers, header_heights, blocks, toUI, netVars, made, stale, late, again>>

update_accounts_utxo_set ==
    /\ Running /\ handler.at = "accounts"
    /\ accounts' = [i \in DOMAIN accounts |->
          [accounts[i] EXCEPT !.utxo_set = utxos_referenced_to_account(utxo_set, accounts[i].address)]]
    /\ raced' = raced \ DOMAIN accounts
    /\ handler' = [handler EXCEPT !.at = "confirm"]
    /\ UNCHANGED <<chainVars, current, wallet, toWallet, toUI, uiVars, netVars, made, stale, late, again>>

\* Mutant: only the first account is looked at.
contains_pending_tx_first ==
    /\ Running /\ handler.at = "confirm"
    /\ LET IsPending(k, i) == i = 1 /\ Contains(accounts[i].pending, handler.txs[k])
           hits == ToCome({pair \in (DOMAIN handler.txs) \X (DOMAIN accounts) : IsPending(pair[1], pair[2])})
           h == FirstOf(hits)
       IN IF hits = {}
          THEN handler' = [handler EXCEPT !.at = "include", !.place = 1, !.account = 1] /\ UNCHANGED accounts
          ELSE /\ GotoHit("confirm_push", h)
               /\ accounts' = [accounts EXCEPT ![h[2]].pending = RemoveFirst(@, handler.txs[h[1]])]
    /\ UNCHANGED <<chainVars, current, wallet, toWallet, toUI, uiVars, netVars, histVars>>

\* contains_pending_tx: remove from the pending, add to the confirmed.
contains_pending_tx ==
    /\ Running /\ handler.at = "confirm"
    /\ LET IsPending(k, i) == Contains(accounts[i].pending, handler.txs[k])
           hits == ToCome({pair \in (DOMAIN handler.txs) \X (DOMAIN accounts) : IsPending(pair[1], pair[2])})
           h == FirstOf(hits)
       IN IF hits = {}
          THEN handler' = [handler EXCEPT !.at = "include", !.place = 1, !.account = 1] /\ UNCHANGED accounts
          ELSE /\ GotoHit("confirm_push", h)
               /\ accounts' = [accounts EXCEPT ![h[2]].pending = RemoveFirst(@, handler.txs[h[1]])]
    /\ UNCHANGED <<chainVars, current, wallet, toWallet, toUI, uiVars, netVars, histVars>>

push_confirmed ==
    /\ Running /\ handler.at = "confirm_push"
    /\ accounts' = [accounts EXCEPT ![handler.account].confirmed = Append(@, handler.txs[handler.place])]
    /\ handler' = [handler EXCEPT !.at = "confirm", !.account = @ + 1]
    /\ toUI' = Append(toUI, Event("ShowConfirmedTransaction"))
    /\ UNCHANGED <<chainVars, current, wallet, toWallet, uiVars, netVars, histVars>>

\* Mutant: the block is announced and not stored.
include_block_unstored ==
    /\ OnPeer("include")
    /\ toUI' = Append(toUI, [type |-> "AddBlock", block |-> handler.block])
    /\ handler' = Idle
    /\ UNCHANGED <<chainVars, netVars, histVars>>

include_new_block ==
    /\ OnPeer("include")
    /\ blocks' = [b \in DOMAIN blocks \cup {handler.block} |-> IF b = handler.block THEN handler.txs ELSE blocks[b]]
    /\ toUI' = Append(toUI, [type |-> "AddBlock", block |-> handler.block])
    /\ handler' = Idle
    /\ UNCHANGED <<utxo_set, headers, header_heights, netVars, histVars>>

PeerStep ==
    \/ involves_user_account \/ push_pending
    \/ give_me_utxos \/ update_accounts_utxo_set \/ contains_pending_tx \/ push_confirmed \/ include_new_block

PeerMessage ==
    \/ \E tx \in Incoming : handle_tx_message(tx)
    \/ \E b \in 1 .. (headers + 1) : handle_headers_message(b)
    \/ \E txs \in UNION {SetToSeqs(S) : S \in {T \in SUBSET network : Cardinality(T) <= MaxBlockTxs}} :
          handle_block_message(txs)

Next == Clicks \/ UIStep \/ WalletStep \/ PeerStep \/ PeerMessage

(***************************************************************************)
(* Each thread goes on with what it has to do; the user and the peers need *)
(* not do anything.  Weak fairness of UIStep, WalletStep and PeerStep is   *)
(* written out with what enables them and what only they do.               *)
(***************************************************************************)
UICanStep == Running /\ toUI # <<>>
WalletCanStep ==
    /\ Running
    /\ \/ wallet.at = "adding" /\ ~AccountsRead
       \/ wallet.at = "loop" /\ toWallet # <<>> /\ (Head(toWallet).type = "MakeTransaction" => ~AccountsRead)
PeerCanStep == Running /\ handler.at # "idle"

Fairness ==
    /\ []<>~UICanStep \/ []<><<Len(toUI') < Len(toUI)>>_vars
    /\ []<>~WalletCanStep \/ []<><<Len(toWallet') < Len(toWallet) \/ wallet' # wallet>>_vars
    /\ []<>~PeerCanStep \/ []<><<handler' # handler>>_vars

Spec == Init /\ [][Next]_vars /\ Fairness

(***************************************************************************)
(* Properties.                                                             *)
(***************************************************************************)
\* No thread has anything to do.
AtRest ==
    /\ ui.st = "open" /\ toUI = <<>> /\ toWallet = <<>>
    /\ wallet.at = "loop" /\ handler.at = "idle"

\* The scripts that pay an address: P2PKH and P2WPKH.
PayingScripts(address) ==
    LET hash == SubSeq(address, 2, 1 + HashLen)
    IN {<<OP_DUP, OP_HASH160, HashLen>> \o hash \o <<OP_EQUALVERIFY, OP_CHECKSIG>>, <<0, HashLen>> \o hash}

CoinsPaying(address) ==
    UNION {{[hash |-> t.hash, index |-> u.index] :
                u \in {v \in Range(t.utxo_set) : v.out.script \in PayingScripts(address)}} : t \in utxo_set}

\* Except while a block is being applied, an account has exactly the unspent
\* outputs that pay its address (Account::set_utxos, load_data).  The one
\* exception is an account whose coins were read before a block and which was
\* added after it: it has the old ones until the next block.
BalanceExact ==
    handler.at \notin {"utxos", "accounts"} =>
        \A i \in DOMAIN accounts \ raced : Coins(accounts[i].utxo_set) = CoinsPaying(accounts[i].address)

\* Once everything is handled, the interface shows the account the wallet
\* uses, whatever blocks came in and in which order the events were handled:
\* the balance label its balance (AccountChanged and AddBlock events), the
\* table its transactions and the overview the last of them
\* (handle_get_transactions and the events that ask for it).  Exceptions: an
\* output without an address, which hides the whole list, a transaction that
\* could not be announced, and one whose event overtook it
\* (involves_user_account sends the event first).
ShownIsCurrent ==
    AtRest /\ current # 0 =>
        LET rows == get_transactions(accounts[current])
            n == Len(rows.val)
            shown == IF n <= RecentRows THEN n ELSE RecentRows
        IN /\ ui.balance = BalanceOf(SetToSeq(accounts[current].utxo_set))
           /\ rows.st = "ok" /\ ~stale =>
                 /\ ui.table = rows.val
                 /\ ui.recent = [i \in 1 .. RecentRows |-> IF i <= shown THEN rows.val[n - shown + i] ELSE NoRow]

\* A payment is made by the account whose address was shown when the button
\* was clicked, although the wallet looks its account up later
\* (current_account_index) and finds it by its place in the list.
PaidFromShownAccount ==
    \A m \in Range(made) :
        m.shown \in DOMAIN ui.dropdown /\ accounts[m.account].address = ui.dropdown[m.shown]

ValueOf(coins, c) ==
    LET t == CHOOSE t \in Range(coins) : c \in Coins({t})
        u == CHOOSE u \in Range(t.utxo_set) : u.index = c.index
    IN u.out.value

\* It spends different coins of the account, worth its outputs and the fee,
\* with a change that is not negative.
Balanced(m) ==
    LET ins == CoinsSpentBy(m.tx)
        change == m.tx.outs[2].value
    IN /\ Cardinality(ins) = Len(m.tx.ins)
       /\ ins \subseteq Coins(Range(m.coins))
       /\ SumOf([i \in DOMAIN m.tx.ins |-> ValueOf(m.coins, Coin(m.tx.ins[i]))]) = m.payment.amount + m.payment.fee + change
       /\ change >= 0

\* Every input carries a signature by the key of the account, over the
\* transaction in which only that input has a script, that of the coin it
\* spends, and the coin can be spent this way.
Signed(m) ==
    \A i \in DOMAIN m.tx.ins :
        LET in == m.tx.ins[i]
            a == accounts[m.account]
            coin == (CHOOSE u \in UNION {Range(t.utxo_set) : t \in {t \in Range(m.coins) : t.hash = in.hash}} :
                        u.index = in.index).out
            unsigned == [m.tx EXCEPT !.ins = [j \in DOMAIN @ |->
                            [@[j] EXCEPT !.script = IF j = i THEN coin.script ELSE <<>>]]]
        IN /\ in.script = generate_sig_script(unsigned, decode_wif_private_key(a.private_key).val)
           /\ coin.script[1] = OP_DUP

\* A transaction that the wallet makes is balanced (get_utxos_for_amount,
\* generate_unsigned_transaction) and signed (sign, validate).  Its amount can
\* have either sign: only amount + fee is tested (validate_transaction_data).
PaymentsValid == \A m \in Range(made) : Balanced(m) /\ Signed(m)

\* A transaction the wallet makes, with coins that are up to date, does not
\* spend a coin that a block of the chain has spent (update_accounts_utxo_set,
\* remove_utxos).
SpendsUnspentCoins ==
    [][Len(made') > Len(made) /\ made'[Len(made')].current =>
          \A t \in MinedTxs : CoinsSpentBy(t) \cap CoinsSpentBy(made'[Len(made')].tx) = {}]_vars

\* A transaction the wallet has made is pending or confirmed for good, also
\* when it could not be announced to any peer (broadcast_tx), and one that is
\* in a block is not pending any more (contains_pending_tx).  Exceptions: one
\* that was received after its block, and a payment that was made twice with
\* the same coins, which is the same transaction twice.
TransactionsTracked ==
    /\ handler.at # "confirm_push" =>
         \A m \in Range(made) : LET a == accounts[m.account] IN Contains(a.pending \o a.confirmed, m.tx)
    /\ AtRest =>
         \A a \in Range(accounts) : \A t \in Range(a.pending) \cap MinedTxs :
             \/ t \in late
             \/ \E i, j \in DOMAIN made : i # j /\ made[i].tx = t /\ made[j].tx = t

\* The blocks tab.  Once everything is handled it has every block that came in
\* since the peers' threads started, before it was filled or later
\* (InitializeUITabs, AddBlock).  A block that was listed when the user searched
\* for it, for its header, or asked for a proof of inclusion in it, is found:
\* the interface is told of a block after it is stored.  A header that is found
\* is the one asked for.  The exception is a header that was announced again
\* after it was included (handle_headers_message).  The interface stops only
\* for a block of the last headers that the initial download did not get or
\* that is being handled: the threads of the peers run before the main window
\* opens, and add a header some time before its block (initialize_blocks_tab).
BlocksTabRight ==
    /\ AtRest => {b \in DOMAIN blocks : b > AMOUNT_TO_SHOW} \subseteq Range(ui.blocks)
    /\ \A e \in Range(toUI) :
         /\ e.type = "NotFound" /\ e.request.listed => e.request.type = "SearchHeader" /\ e.request.hash \in again
         /\ e.type = "HeaderFound" => e.header = e.request.hash \/ e.request.hash \in again
         /\ e.type = "POIResult" => (e.listed => e.found)
    /\ ui.st = "panicked" =>
         \E b \in (headers + 1 - AMOUNT_TO_SHOW) .. headers :
            b \notin DOMAIN blocks /\ (b <= AMOUNT_TO_SHOW \/ b = handler.block)

\* The buttons that a login disables are enabled again, whatever the keys are
\* (AccountAddedSuccesfully, AddAccountError).
ButtonsComeBack == ~ui.sensitive ~> (ui.sensitive \/ ui.st # "open")
=============================================================================
