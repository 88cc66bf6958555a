---------------------------- MODULE WalletProofs ----------------------------
(***************************************************************************)
(* What the wallet's threads keep true, for any accounts, payments, blocks *)
(* and clicks: the transactions of every account first, what the interface *)
(* shows of the account in use after that.                                 *)
(***************************************************************************)
EXTENDS Wallet, ListLemmas, FiniteSetTheorems

(***************************************************************************)
(* The inductive invariant.                                                *)
(***************************************************************************)
\* The fields of the records.
IsAccount(a) ==
    /\ DOMAIN a = {"address", "private_key", "utxo_set", "pending", "confirmed"}
    /\ IsList(a.pending) /\ IsList(a.confirmed)

UIFields == {"st", "dropdown", "selected", "sensitive", "balance", "table", "recent", "blocks"}
HandlerFields == {"at", "block", "txs", "place", "account"}
BlockPhases == {"utxos", "accounts", "confirm", "confirm_push", "include"}

ShapeInv ==
    /\ IsList(accounts) /\ \A i \in DOMAIN accounts : IsAccount(accounts[i])
    /\ IsList(toWallet) /\ IsList(toUI) /\ IsList(made)
    /\ current \in Nat
    /\ wallet.at = "adding" => IsAccount(wallet.account) /\ wallet.account.pending = <<>>
    /\ DOMAIN ui = UIFields /\ DOMAIN handler = HandlerFields
    /\ IsList(ui.dropdown) /\ IsList(ui.blocks) /\ ui.selected \in Nat
    /\ ui.st \in {"starting", "open", "panicked"}
    /\ handler.at \in BlockPhases \cup {"idle", "tx_check", "tx_push"}

Reply(e) == e.type \in {"AccountAddedSuccesfully", "AddAccountError"}
Added(e) == e.type = "AccountAddedSuccesfully"
Login(e) == e.type = "AddAccountRequest"
Change(e) == e.type = "ChangeAccount"
Send(e) == e.type = "MakeTransaction"

\* A login disables its button until it has been answered, so there is one at
\* a time: as a request, as an account that is being added, or as a reply.
LoginInv ==
    /\ \A i, j \in DOMAIN toWallet : Login(toWallet[i]) /\ Login(toWallet[j]) => i = j
    /\ \A i, j \in DOMAIN toUI : Reply(toUI[i]) /\ Reply(toUI[j]) => i = j
    /\ \A i \in DOMAIN toWallet : Login(toWallet[i]) => wallet.at # "adding" /\ ~ui.sensitive
    /\ \A i \in DOMAIN toUI : Reply(toUI[i]) => wallet.at # "adding" /\ ~ui.sensitive
    /\ \A i \in DOMAIN toWallet, j \in DOMAIN toUI : ~(Login(toWallet[i]) /\ Reply(toUI[j]))
    /\ wallet.at = "adding" => ~ui.sensitive

\* The list of the interface names the accounts in their order, except the
\* one whose reply is still to be handled.
NamesInv ==
    /\ \A i \in DOMAIN ui.dropdown : i \in DOMAIN accounts /\ ui.dropdown[i] = accounts[i].address
    /\ \A j \in DOMAIN toUI : Added(toUI[j]) =>
          /\ Len(accounts) = Len(ui.dropdown) + 1
          /\ toUI[j].address = accounts[Len(accounts)].address
    /\ (\A j \in DOMAIN toUI : ~Added(toUI[j])) => Len(accounts) = Len(ui.dropdown)

\* v is the account that is chosen before event k of the queue q is handled:
\* that of the last ChangeAccount in front of it, else the present one, c.
Chosen(q, c, k, v) ==
    /\ (\A l \in 1 .. (k - 1) : ~Change(q[l])) => v = c
    /\ \A j \in 1 .. (k - 1) : Change(q[j]) /\ (\A l \in (j + 1) .. (k - 1) : ~Change(q[l])) => v = q[j].index

SelectInv ==
    /\ current # 0 => current \in DOMAIN ui.dropdown
    /\ ui.selected # 0 => ui.selected \in DOMAIN ui.dropdown
    /\ \A k \in DOMAIN toWallet : Change(toWallet[k]) => toWallet[k].index \in DOMAIN ui.dropdown
    /\ \A k \in DOMAIN toWallet : Send(toWallet[k]) => Chosen(toWallet, current, k, toWallet[k].shown)
    /\ Chosen(toWallet, current, Len(toWallet) + 1, ui.selected)

MadeInv == \A n \in DOMAIN made : made[n].account \in DOMAIN ui.dropdown /\ made[n].shown = made[n].account

AccountsInv == LoginInv /\ NamesInv /\ SelectInv /\ MadeInv

--------------------------------------------------------------------------------
\* A header that came in is there before its block only while the block is
\* being handled.
StoredInv ==
    /\ headers \in Nat /\ headers >= AMOUNT_TO_SHOW
    /\ DOMAIN blocks \subseteq 1 .. headers
    /\ handler.at \in BlockPhases =>
          headers > AMOUNT_TO_SHOW /\ handler.block = headers /\ headers \notin DOMAIN blocks
    /\ \A b \in 1 .. headers :
          b > AMOUNT_TO_SHOW => b \in DOMAIN blocks \/ (b = headers /\ handler.at \in BlockPhases)

\* A header that has been announced at most before it was included is looked up
\* at its own place.
HeightsInv ==
    /\ 1 .. headers \subseteq DOMAIN header_heights /\ DOMAIN header_heights \subseteq 1 .. (headers + 1)
    /\ \A b \in DOMAIN header_heights : header_heights[b] \in Nat /\ (b \notin again => header_heights[b] = b - 1)
    /\ again \subseteq 1 .. headers

\* The main window opens with the first event, and with no other.
OpeningInv ==
    /\ ui.st = "starting" => /\ ui.blocks = <<>> /\ 1 \in DOMAIN toUI
                             /\ toUI[1].type = "InitializeUITabs"
    /\ \A j \in DOMAIN toUI : toUI[j].type = "InitializeUITabs" => j = 1 /\ ui.st = "starting"

\* What the interface lists or is told of is stored; a block that is stored
\* is listed or announced.
ListedInv ==
    /\ \A i \in DOMAIN ui.blocks : ui.blocks[i] \in DOMAIN blocks
    /\ \A j \in DOMAIN toUI : toUI[j].type = "AddBlock" => toUI[j].block \in DOMAIN blocks
    /\ \A b \in DOMAIN blocks : b > AMOUNT_TO_SHOW =>
          \/ \E i \in DOMAIN ui.blocks : ui.blocks[i] = b
          \/ \E j \in DOMAIN toUI : toUI[j].type = "AddBlock" /\ toUI[j].block = b

Searches == {"SearchBlock", "SearchHeader", "PoiOfTransactionRequest"}

\* What the interface is told of a search.
TrueAnswer(e) ==
    /\ e.type = "NotFound" /\ e.request.listed => e.request.type = "SearchHeader" /\ e.request.hash \in again
    /\ e.type = "HeaderFound" => e.header = e.request.hash \/ e.request.hash \in again
    /\ e.type = "POIResult" /\ e.listed => e.found

SearchInv ==
    /\ \A k \in DOMAIN toWallet : toWallet[k].type \in Searches /\ toWallet[k].listed => toWallet[k].hash \in DOMAIN blocks
    /\ \A j \in DOMAIN toUI : TrueAnswer(toUI[j])

PanickedInv ==
    ui.st = "panicked" =>
        \E b \in (headers + 1 - AMOUNT_TO_SHOW) .. headers :
           b \notin DOMAIN blocks /\ (b <= AMOUNT_TO_SHOW \/ b = handler.block)

BlocksInv == StoredInv /\ HeightsInv /\ OpeningInv /\ ListedInv /\ SearchInv /\ PanickedInv

--------------------------------------------------------------------------------
\* Incoming are transactions of others.
Others == \A n \in DOMAIN made : made[n].tx \notin Incoming

MadeTwice == {made[i].tx : i \in {n \in DOMAIN made : \E j \in DOMAIN made : j # n /\ made[j].tx = made[n].tx}}
KnownTxs == Incoming \cup {made[n].tx : n \in DOMAIN made}
Has(list, t) == \E p \in DOMAIN list : list[p] = t

\* A transaction of the wallet is pending or confirmed, or on its way from
\* the one list to the other.
KeptInv ==
    \A n \in DOMAIN made :
       \/ Has(accounts[made[n].account].pending, made[n].tx)
       \/ Has(accounts[made[n].account].confirmed, made[n].tx)
       \/ /\ handler.at = "confirm_push" /\ handler.account = made[n].account
          /\ handler.txs[handler.place] = made[n].tx

\* Every transaction comes from a peer or from the wallet.
KnownInv ==
    /\ IsFiniteSet(network) /\ network \subseteq KnownTxs
    /\ \A k \in DOMAIN handler.txs : handler.txs[k] \in KnownTxs
    /\ MinedTxs \subseteq KnownTxs
    /\ \A i \in DOMAIN accounts : \A p \in DOMAIN accounts[i].pending : accounts[i].pending[p] \in KnownTxs

\* Where the thread of the peer is.
PlaceInv ==
    /\ IsList(handler.txs) /\ handler.place \in Nat /\ handler.account \in Nat
    /\ \A b \in DOMAIN blocks : IsList(blocks[b])
    /\ handler.at \in {"tx_check", "tx_push"} =>
          /\ 1 \in DOMAIN handler.txs /\ handler.txs[1] \in Incoming
          /\ handler.txs[1] \in MinedTxs => handler.txs[1] \in late
    /\ handler.at \in {"utxos", "accounts"} => handler.place = 1 /\ handler.account = 1
    /\ handler.at = "tx_push" => /\ handler.account \in DOMAIN accounts
                                 /\ ~Has(accounts[handler.account].pending, handler.txs[1])
    /\ handler.at = "confirm_push" => handler.account \in DOMAIN accounts /\ handler.place \in DOMAIN handler.txs

\* The transactions of the block and the accounts that have been gone through.
Passed(k, i) ==
    \/ handler.at = "include"
    \/ /\ handler.at \in {"confirm", "confirm_push"}
       /\ \/ k < handler.place
          \/ k = handler.place /\ i < handler.account
          \/ k = handler.place /\ i = handler.account /\ handler.at = "confirm_push"

\* A transaction is pending twice only if it was made twice.
Twice(list, t) == \E p, q \in DOMAIN list : p # q /\ list[p] = t /\ list[q] = t
DuplicatesInv ==
    \A i \in DOMAIN accounts : \A t \in Range(accounts[i].pending) : Twice(accounts[i].pending, t) => t \in MadeTwice

\* Its block has been stored, or has gone through account i.
Gone(t, i) == t \in MinedTxs \/ \E k \in DOMAIN handler.txs : handler.txs[k] = t /\ Passed(k, i)

\* It is not pending any more then, or else it came too late or was made twice.
GoneInv ==
    \A i \in DOMAIN accounts : \A t \in Range(accounts[i].pending) : Gone(t, i) => t \in late \cup MadeTwice

PendingInv == DuplicatesInv /\ GoneInv


--------------------------------------------------------------------------------
(***************************************************************************)
(* The queues.                                                             *)
(***************************************************************************)
\* The queue q becomes r: d of its events are taken, and events of E added.
Moved(q, r, d, E) ==
    /\ IsList(r) /\ Len(q) \in Nat /\ Len(r) \in Nat /\ DOMAIN q = 1 .. Len(q) /\ DOMAIN r = 1 .. Len(r)
    /\ d \in 0 .. Len(q) /\ Len(q) - d <= Len(r)
    /\ \A j \in 1 .. (Len(q) - d) : r[j] = q[j + d]
    /\ \A j \in (Len(q) - d + 1) .. Len(r) : r[j] \in E

\* A queue that no one uses.
LEMMA MovedNot == ASSUME NEW q, IsList(q) PROVE Moved(q, q, 0, {})
<1>1. Len(q) \in Nat /\ DOMAIN q = 1 .. Len(q)
  BY DEF IsList
<1> QED
  BY <1>1 DEF Moved

\* An event is sent.
LEMMA MovedAppend == ASSUME NEW q, IsList(q), NEW e PROVE Moved(q, Append(q, e), 0, {e})
<1>1. /\ IsList(Append(q, e)) /\ Len(q) \in Nat /\ Len(Append(q, e)) = Len(q) + 1
      /\ DOMAIN q = 1 .. Len(q) /\ DOMAIN Append(q, e) = 1 .. (Len(q) + 1)
      /\ \A i \in 1 .. Len(q) : Append(q, e)[i] = q[i]
      /\ Append(q, e)[Len(q) + 1] = e
  BY ListAppend
<1>2. PICK n \in Nat : n = Len(q)
  BY <1>1
<1>3. \A j \in (n - 0 + 1) .. (n + 1) : j = n + 1
  OBVIOUS
<1> QED
  BY <1>1, <1>2, <1>3 DEF Moved

\* The first event is taken.
LEMMA MovedTail == ASSUME NEW q, IsList(q), q # <<>> PROVE Moved(q, Tail(q), 1, {}) /\ Head(q) = q[1] /\ 1 \in DOMAIN q
<1>1. /\ IsList(Tail(q)) /\ Len(q) \in Nat \ {0} /\ Len(Tail(q)) = Len(q) - 1
      /\ DOMAIN q = 1 .. Len(q) /\ DOMAIN Tail(q) = 1 .. (Len(q) - 1)
      /\ \A i \in 1 .. (Len(q) - 1) : Tail(q)[i] = q[i + 1]
      /\ Head(q) = q[1]
  BY ListTail
<1> QED
  BY <1>1 DEF Moved

\* Some events are sent.
LEMMA MovedConcat == ASSUME NEW q, IsList(q), NEW es, IsList(es) PROVE Moved(q, q \o es, 0, Range(es))
<1>1. /\ IsList(q \o es) /\ Len(q) \in Nat /\ Len(es) \in Nat /\ Len(q \o es) = Len(q) + Len(es)
      /\ DOMAIN q = 1 .. Len(q) /\ DOMAIN es = 1 .. Len(es) /\ DOMAIN (q \o es) = 1 .. (Len(q) + Len(es))
      /\ \A i \in 1 .. Len(q) : (q \o es)[i] = q[i]
      /\ \A i \in 1 .. Len(es) : (q \o es)[Len(q) + i] = es[i]
  BY ListConcat
<1>2. ASSUME NEW j \in (Len(q) - 0 + 1) .. (Len(q) + Len(es)) PROVE (q \o es)[j] \in Range(es)
  <2>1. PICK i \in 1 .. Len(es) : Len(q) + i = j
    <3>1. j - Len(q) \in 1 .. Len(es) /\ Len(q) + (j - Len(q)) = j
      BY <1>1
    <3> QED
      BY <3>1
  <2> QED
    BY <1>1, <2>1 DEF Range
<1>3. /\ 0 \in 0 .. Len(q) /\ Len(q) - 0 = Len(q) /\ Len(q) <= Len(q) + Len(es)
      /\ \A j \in 1 .. Len(q) : j + 0 = j
  BY <1>1
<1> QED
  BY <1>1, <1>2, <1>3 DEF Moved

\* No event, one event and two events are lists.
LEMMA ShortLists ==
    /\ IsList(<<>>) /\ Range(<<>>) = {}
    /\ \A e : IsList(<<e>>) /\ Range(<<e>>) = {e}
    /\ \A e, f : IsList(<<e>> \o <<f>>) /\ Range(<<e>> \o <<f>>) = {e, f}
<1>1. IsList(<<>>) /\ Range(<<>>) = {}
  BY DEF IsList, Range
<1>2. ASSUME NEW e PROVE IsList(<<e>>) /\ Range(<<e>>) = {e}
  <2>1. <<e>> \in Seq({e})
    BY OneElement
  <2>2. DOMAIN <<e>> = {1} /\ <<e>>[1] = e
    OBVIOUS
  <2>3. Range(<<e>>) = {e}
    BY <2>2 DEF Range
  <2> QED
    BY <2>1, <2>3 DEF IsList
<1>3. ASSUME NEW e, NEW f PROVE IsList(<<e>> \o <<f>>) /\ Range(<<e>> \o <<f>>) = {e, f}
  <2>1. /\ IsList(<<e>> \o <<f>>) /\ DOMAIN (<<e>> \o <<f>>) = 1 .. (Len(<<e>>) + Len(<<f>>))
        /\ \A i \in 1 .. Len(<<e>>) : (<<e>> \o <<f>>)[i] = <<e>>[i]
        /\ \A i \in 1 .. Len(<<f>>) : (<<e>> \o <<f>>)[Len(<<e>>) + i] = <<f>>[i]
    BY <1>2, ListConcat
  <2>2. Len(<<e>>) = 1 /\ Len(<<f>>) = 1 /\ <<e>>[1] = e /\ <<f>>[1] = f
    OBVIOUS
  <2> DEFINE p == <<e>> \o <<f>>
  <2>3. IsList(p) /\ DOMAIN p = 1 .. 2 /\ p[1] = e /\ p[2] = f
    BY <2>1, <2>2
  <2> HIDE DEF p
  <2>4. Range(p) = {e, f}
    BY <2>3 DEF Range
  <2> QED
    BY <2>3, <2>4 DEF p
<1> QED
  BY <1>1, <1>2, <1>3

\* An event of the queue is a new one or was there before.
LEMMA OldEvents ==
    ASSUME NEW q, NEW r, NEW d, NEW E, Moved(q, r, d, E)
    PROVE  /\ \A i \in DOMAIN r : i \in Nat /\ (r[i] \in E \/ (i + d \in DOMAIN q /\ r[i] = q[i + d]))
           /\ \A i \in DOMAIN q : i \in Nat /\ (i > d => i - d \in DOMAIN r /\ r[i - d] = q[i])
           /\ d \in Nat
<1>1. /\ Len(q) \in Nat /\ Len(r) \in Nat /\ DOMAIN q = 1 .. Len(q) /\ DOMAIN r = 1 .. Len(r)
      /\ d \in 0 .. Len(q) /\ Len(q) - d <= Len(r)
      /\ \A j \in 1 .. (Len(q) - d) : r[j] = q[j + d]
      /\ \A j \in (Len(q) - d + 1) .. Len(r) : r[j] \in E
  BY DEF Moved
<1>2. PICK n \in Nat, m \in Nat : n = Len(q) /\ m = Len(r)
  BY <1>1
<1>3. d \in Nat /\ d <= n
  BY <1>1, <1>2
<1>4. ASSUME NEW i \in 1 .. m PROVE r[i] \in E \/ (i + d \in 1 .. n /\ r[i] = q[i + d])
  <2>1. CASE i <= n - d
    <3>1. i \in 1 .. (n - d) /\ i + d \in 1 .. n
      BY <1>3, <2>1
    <3> QED
      BY <1>1, <1>2, <3>1
  <2>2. CASE ~(i <= n - d)
    <3>1. i \in (n - d + 1) .. m
      BY <1>3, <2>2
    <3> QED
      BY <1>1, <1>2, <3>1
  <2> QED
    BY <2>1, <2>2
<1>5. ASSUME NEW i \in 1 .. n, i > d PROVE i - d \in 1 .. m /\ r[i - d] = q[i]
  <2>1. PICK k \in 1 .. (n - d) : k = i - d
    BY <1>3, <1>5
  <2>2. k \in 1 .. m /\ k + d = i
    BY <1>1, <1>2, <1>3, <2>1
  <2>3. r[k] = q[k + d]
    BY <1>1, <1>2, <2>1
  <2> QED
    BY <2>1, <2>2, <2>3
<1> QED
  BY <1>1, <1>2, <1>3, <1>4, <1>5

--------------------------------------------------------------------------------
(***************************************************************************)
(* Accounts, events and choices.                                           *)
(***************************************************************************)
\* No login begins or ends.
LEMMA LoginKept ==
    ASSUME LoginInv, NEW d, NEW E, Moved(toWallet, toWallet', d, E), \A e \in E : ~Login(e),
           NEW c, NEW F, Moved(toUI, toUI', c, F), \A e \in F : ~Reply(e),
           wallet'.at = "adding" => wallet.at = "adding", ui'.sensitive = ui.sensitive
    PROVE  LoginInv'
<1>1. /\ \A i \in DOMAIN toWallet' : i \in Nat /\ (Login(toWallet'[i]) => i + d \in DOMAIN toWallet /\ toWallet'[i] = toWallet[i + d])
      /\ d \in Nat
  BY OldEvents
<1>2. /\ \A i \in DOMAIN toUI' : i \in Nat /\ (Reply(toUI'[i]) => i + c \in DOMAIN toUI /\ toUI'[i] = toUI[i + c])
      /\ c \in Nat
  BY OldEvents
<1>3. \A i, j, k \in Nat : i + k = j + k => i = j
  OBVIOUS
<1>4. \A i, j \in DOMAIN toWallet' : Login(toWallet'[i]) /\ Login(toWallet'[j]) => i = j
  <2> SUFFICES ASSUME NEW i \in DOMAIN toWallet', NEW j \in DOMAIN toWallet', Login(toWallet'[i]), Login(toWallet'[j])
               PROVE  i = j
    OBVIOUS
  <2>1. i + d = j + d
    BY <1>1 DEF LoginInv
  <2> QED
    BY <1>1, <1>3, <2>1
<1>5. \A i, j \in DOMAIN toUI' : Reply(toUI'[i]) /\ Reply(toUI'[j]) => i = j
  <2> SUFFICES ASSUME NEW i \in DOMAIN toUI', NEW j \in DOMAIN toUI', Reply(toUI'[i]), Reply(toUI'[j])
               PROVE  i = j
    OBVIOUS
  <2>1. i + c = j + c
    BY <1>2 DEF LoginInv
  <2> QED
    BY <1>2, <1>3, <2>1
<1> QED
  BY <1>1, <1>2, <1>4, <1>5 DEF LoginInv

\* The accounts are those there were.
SameNames ==
    /\ IsList(accounts') /\ DOMAIN accounts' = DOMAIN accounts /\ Len(accounts') = Len(accounts)
    /\ \A i \in DOMAIN accounts : /\ accounts'[i].address = accounts[i].address
                                  /\ accounts'[i].private_key = accounts[i].private_key

\* They have the coins they had.
SameCoins == \A i \in DOMAIN accounts : accounts'[i].utxo_set = accounts[i].utxo_set

\* No account is added, and no reply taken.
LEMMA NamesKept ==
    ASSUME NamesInv, ShapeInv, SameNames, ui'.dropdown = ui.dropdown,
           NEW c, NEW F, Moved(toUI, toUI', c, F), \A e \in F : ~Added(e),
           c = 0 \/ (c = 1 /\ ~Added(toUI[1]))
    PROVE  NamesInv'
<1>1. \A i \in DOMAIN toUI' : Added(toUI'[i]) => i + c \in DOMAIN toUI /\ toUI'[i] = toUI[i + c]
  BY OldEvents
<1>2. \A i \in DOMAIN toUI : Added(toUI[i]) => i - c \in DOMAIN toUI' /\ toUI'[i - c] = toUI[i]
  <2>1. \A i \in DOMAIN toUI : i \in Nat /\ (i > c => i - c \in DOMAIN toUI' /\ toUI'[i - c] = toUI[i])
    BY OldEvents
  <2>2. \A i \in DOMAIN toUI : i \in 1 .. Len(toUI) /\ Len(toUI) \in Nat
    BY DEF Moved
  <2>3. \A i \in DOMAIN toUI : Added(toUI[i]) => i > c
    BY <2>2
  <2> QED
    BY <2>1, <2>3
<1>3. \A i \in DOMAIN ui'.dropdown : i \in DOMAIN accounts' /\ ui'.dropdown[i] = accounts'[i].address
  BY DEF NamesInv, SameNames
<1>4. ASSUME NEW j \in DOMAIN toUI', Added(toUI'[j])
      PROVE  /\ Len(accounts') = Len(ui'.dropdown) + 1
             /\ toUI'[j].address = accounts'[Len(accounts')].address
  <2>1. /\ Len(accounts) = Len(ui.dropdown) + 1
        /\ toUI'[j].address = accounts[Len(accounts)].address
    BY <1>1, <1>4 DEF NamesInv
  <2>2. Len(accounts) \in DOMAIN accounts
    <3>1. IsList(ui.dropdown) /\ IsList(accounts)
      BY DEF ShapeInv
    <3>2. Len(ui.dropdown) \in Nat /\ DOMAIN accounts = 1 .. Len(accounts)
      BY <3>1 DEF IsList
    <3> QED
      BY <2>1, <3>2
  <2> QED
    BY <2>1, <2>2 DEF SameNames
<1>5. ASSUME \A j \in DOMAIN toUI' : ~Added(toUI'[j]) PROVE Len(accounts') = Len(ui'.dropdown)
  <2>1. \A j \in DOMAIN toUI : ~Added(toUI[j])
    BY <1>2, <1>5
  <2> QED
    BY <2>1 DEF NamesInv, SameNames
<1> QED
  BY <1>3, <1>4, <1>5 DEF NamesInv

\* What is chosen does not change when another event is taken or added.
LEMMA ChosenKept ==
    ASSUME NEW q, NEW r, NEW d, NEW E, Moved(q, r, d, E), \A e \in E : ~Change(e),
           d = 0 \/ (d = 1 /\ ~Change(q[1])), NEW c, NEW v, NEW h \in 1 .. (Len(q) + 1), NEW k \in 1 .. (Len(r) + 1),
           h = k + d \/ (h = Len(q) + 1 /\ k + d >= h), Chosen(q, c, h, v)
    PROVE  Chosen(r, c, k, v)
<1>1. PICK n \in Nat, m \in Nat : n = Len(q) /\ m = Len(r) /\ DOMAIN q = 1 .. n /\ DOMAIN r = 1 .. m /\ d \in 0 .. n
  <2>1. Len(q) \in Nat /\ Len(r) \in Nat /\ DOMAIN q = 1 .. Len(q) /\ DOMAIN r = 1 .. Len(r) /\ d \in 0 .. Len(q)
    BY DEF Moved
  <2> QED
    BY <2>1
<1>2. d \in Nat /\ h \in Nat /\ k \in Nat /\ h <= n + 1 /\ k <= m + 1 /\ h >= 1 /\ k >= 1
  BY <1>1
<1>3. /\ \A i \in 1 .. m : r[i] \in E \/ (i + d \in 1 .. n /\ r[i] = q[i + d])
      /\ \A i \in 1 .. n : i > d => i - d \in 1 .. m /\ r[i - d] = q[i]
  <2>1. /\ \A i \in DOMAIN r : i \in Nat /\ (r[i] \in E \/ (i + d \in DOMAIN q /\ r[i] = q[i + d]))
        /\ \A i \in DOMAIN q : i \in Nat /\ (i > d => i - d \in DOMAIN r /\ r[i - d] = q[i])
    BY OldEvents
  <2> QED
    BY <1>1, <2>1
<1>4. ASSUME NEW i \in 1 .. (k - 1), Change(r[i]) PROVE i + d \in 1 .. (h - 1) /\ r[i] = q[i + d]
  <2>1. i \in 1 .. m
    BY <1>2
  <2>2. i + d \in 1 .. n /\ r[i] = q[i + d]
    BY <1>3, <1>4, <2>1
  <2>3. i + d <= h - 1
    BY <1>1, <1>2, <2>2
  <2> QED
    BY <1>2, <2>2, <2>3
<1>5. ASSUME NEW i \in 1 .. (h - 1), Change(q[i]) PROVE i > d /\ i - d \in 1 .. (k - 1) /\ r[i - d] = q[i]
  <2>1. i \in 1 .. n /\ i > d
    BY <1>2, <1>5
  <2>2. i - d \in 1 .. m /\ r[i - d] = q[i]
    BY <1>3, <2>1
  <2>3. i - d <= k - 1
    BY <1>1, <1>2
  <2> QED
    BY <1>2, <2>1, <2>2, <2>3
<1>6. ASSUME \A l \in 1 .. (k - 1) : ~Change(r[l]) PROVE v = c
  <2>1. \A l \in 1 .. (h - 1) : ~Change(q[l])
    BY <1>5, <1>6
  <2> QED
    BY <2>1 DEF Chosen
<1>7. ASSUME NEW j \in 1 .. (k - 1), Change(r[j]), \A l \in (j + 1) .. (k - 1) : ~Change(r[l]) PROVE v = r[j].index
  <2>1. PICK g \in 1 .. (h - 1) : g = j + d /\ r[j] = q[g]
    BY <1>4, <1>7
  <2>2. ASSUME NEW l \in (g + 1) .. (h - 1), Change(q[l]) PROVE FALSE
    <3>1. l \in 1 .. (h - 1)
      BY <1>2, <2>1
    <3>2. l > d /\ l - d \in 1 .. (k - 1) /\ r[l - d] = q[l]
      BY <1>5, <2>2, <3>1
    <3>3. l - d \in (j + 1) .. (k - 1)
      BY <1>2, <2>1, <3>2
    <3> QED
      BY <1>7, <2>2, <3>2, <3>3
  <2> QED
    BY <1>7, <2>1, <2>2 DEF Chosen
<1> QED
  BY <1>6, <1>7 DEF Chosen

\* No account is chosen; a payment is sent with the account that is shown.
LEMMA SelectKept ==
    ASSUME SelectInv, current' = current, ui'.selected = ui.selected, DOMAIN ui.dropdown \subseteq DOMAIN ui'.dropdown,
           NEW d, NEW E, Moved(toWallet, toWallet', d, E), \A e \in E : ~Change(e) /\ (Send(e) => e.shown = ui.selected),
           d = 0 \/ (d = 1 /\ ~Change(toWallet[1]))
    PROVE  SelectInv'
<1>1. /\ \A i \in DOMAIN toWallet' : toWallet'[i] \in E \/ (i + d \in DOMAIN toWallet /\ toWallet'[i] = toWallet[i + d])
      /\ \A i \in DOMAIN toWallet' : i \in Nat /\ i \in 1 .. Len(toWallet') /\ Len(toWallet') \in Nat
      /\ \A i \in DOMAIN toWallet : i \in Nat /\ i \in 1 .. Len(toWallet) /\ Len(toWallet) \in Nat
      /\ d \in Nat
  <2>1. /\ \A i \in DOMAIN toWallet' : i \in Nat /\ (toWallet'[i] \in E \/ (i + d \in DOMAIN toWallet /\ toWallet'[i] = toWallet[i + d]))
        /\ \A i \in DOMAIN toWallet : i \in Nat
        /\ d \in Nat
    BY OldEvents
  <2>2. DOMAIN toWallet' = 1 .. Len(toWallet') /\ DOMAIN toWallet = 1 .. Len(toWallet) /\ Len(toWallet') \in Nat /\ Len(toWallet) \in Nat
    BY DEF Moved
  <2> QED
    BY <2>1, <2>2
<1>2. ASSUME NEW k \in DOMAIN toWallet', Send(toWallet'[k]) PROVE Chosen(toWallet', current', k, toWallet'[k].shown)
  <2>0. PICK n \in Nat : /\ n = Len(toWallet) /\ d \in 0 .. n
                         /\ \A j \in 1 .. (n - d) : toWallet'[j] = toWallet[j + d]
                         /\ \A j \in (n - d + 1) .. Len(toWallet') : toWallet'[j] \in E
                         /\ DOMAIN toWallet = 1 .. n
    <3>1. /\ Len(toWallet) \in Nat /\ d \in 0 .. Len(toWallet) /\ DOMAIN toWallet = 1 .. Len(toWallet)
          /\ \A j \in 1 .. (Len(toWallet) - d) : toWallet'[j] = toWallet[j + d]
          /\ \A j \in (Len(toWallet) - d + 1) .. Len(toWallet') : toWallet'[j] \in E
      BY DEF Moved
    <3> QED
      BY <3>1, Zenon
  <2>1. PICK h \in Nat : /\ h \in 1 .. (n + 1) /\ (h = k + d \/ (h = n + 1 /\ k + d >= h))
                         /\ Chosen(toWallet, current, h, toWallet'[k].shown)
    <3>1. CASE k <= n - d
      <4>1. k \in 1 .. (n - d) /\ k + d \in 1 .. n /\ k + d \in 1 .. (n + 1)
        BY <1>1, <2>0, <3>1
      <4>2. toWallet'[k] = toWallet[k + d] /\ k + d \in DOMAIN toWallet
        BY <2>0, <4>1
      <4>3. Chosen(toWallet, current, k + d, toWallet'[k].shown)
        BY <1>2, <4>2 DEF SelectInv
      <4> QED
        BY <4>1, <4>3
    <3>2. CASE ~(k <= n - d)
      <4>1. k \in (n - d + 1) .. Len(toWallet') /\ k + d >= n + 1 /\ n + 1 \in 1 .. (n + 1)
        BY <1>1, <2>0, <3>2
      <4>2. toWallet'[k].shown = ui.selected
        BY <1>2, <2>0, <4>1
      <4>3. Chosen(toWallet, current, n + 1, ui.selected)
        BY <2>0 DEF SelectInv
      <4> QED
        BY <4>1, <4>2, <4>3
    <3> QED
      BY <3>1, <3>2
  <2>2. h \in 1 .. (Len(toWallet) + 1) /\ k \in 1 .. (Len(toWallet') + 1) /\ (h = k + d \/ (h = Len(toWallet) + 1 /\ k + d >= h))
    BY <1>1, <2>0, <2>1
  <2>3. \A e \in E : ~Change(e)
    OBVIOUS
  <2>4. Chosen(toWallet', current, k, toWallet'[k].shown)
    BY <2>1, <2>2, <2>3, ChosenKept
  <2> QED
    BY <2>4
<1>3. Chosen(toWallet', current', Len(toWallet') + 1, ui'.selected)
  <2>1. PICK h \in Nat, k \in Nat : h = Len(toWallet) + 1 /\ k = Len(toWallet') + 1 /\ k + d >= h
    BY DEF Moved
  <2>2. Chosen(toWallet, current, h, ui.selected)
    BY <2>1 DEF SelectInv
  <2>3. h \in 1 .. (Len(toWallet) + 1) /\ k \in 1 .. (Len(toWallet') + 1)
    BY <2>1 DEF Moved
  <2>4. Chosen(toWallet', current, k, ui.selected)
    BY <2>1, <2>2, <2>3, ChosenKept
  <2> QED
    BY <2>1, <2>4
<1>4. \A k \in DOMAIN toWallet' : Change(toWallet'[k]) => toWallet'[k].index \in DOMAIN ui'.dropdown
  BY <1>1 DEF SelectInv
<1>5. /\ current' # 0 => current' \in DOMAIN ui'.dropdown
      /\ ui'.selected # 0 => ui'.selected \in DOMAIN ui'.dropdown
  BY DEF SelectInv
<1> QED
  BY <1>2, <1>3, <1>4, <1>5 DEF SelectInv

\* The accounts of the payments stay where they are.
LEMMA MadeKept ==
    ASSUME MadeInv, made' = made, DOMAIN ui.dropdown \subseteq DOMAIN ui'.dropdown
    PROVE  MadeInv'
BY DEF MadeInv

\* The part of the interface that has to do with accounts stays as it is.
SameChoice ==
    /\ ui'.sensitive = ui.sensitive /\ ui'.selected = ui.selected /\ ui'.dropdown = ui.dropdown
    /\ current' = current /\ made' = made /\ (wallet'.at = "adding" => wallet.at = "adding")

\* Steps that have nothing to do with the choice of the account.
LEMMA AccountsKept ==
    ASSUME AccountsInv, ShapeInv, SameNames, SameChoice,
           NEW d, NEW E, Moved(toWallet, toWallet', d, E), d = 0 \/ (d = 1 /\ ~Change(toWallet[1])),
           \A e \in E : ~Login(e) /\ ~Change(e) /\ (Send(e) => e.shown = ui.selected),
           NEW c, NEW F, Moved(toUI, toUI', c, F), c = 0 \/ (c = 1 /\ ~Added(toUI[1])), \A e \in F : ~Reply(e)
    PROVE  AccountsInv'
<1>1. LoginInv'
  BY LoginKept DEF AccountsInv, SameChoice
<1>2. NamesInv'
  <2>1. \A e \in F : ~Added(e)
    BY DEF Added, Reply
  <2> QED
    BY <2>1, NamesKept DEF AccountsInv, SameChoice
<1>3. SelectInv'
  <2>1. \A e \in E : ~Change(e) /\ (Send(e) => e.shown = ui.selected)
    OBVIOUS
  <2> QED
    BY <2>1, SelectKept DEF AccountsInv, SameChoice
<1>4. MadeInv'
  BY MadeKept DEF AccountsInv, SameChoice
<1> QED
  BY <1>1, <1>2, <1>3, <1>4 DEF AccountsInv

\* A login begins.
LEMMA LoginClickKeeps ==
    ASSUME AccountsInv, ShapeInv, NEW login \in Logins, login_button_clicked(login)
    PROVE  AccountsInv'
<1> DEFINE e == [type |-> "AddAccountRequest", wif |-> login.wif, address |-> login.address]
<1>1. /\ ui' = [ui EXCEPT !.sensitive = FALSE] /\ toWallet' = Append(toWallet, e) /\ ui.sensitive
      /\ UNCHANGED <<walletVars, toUI, made>>
  BY DEF login_button_clicked, Click, Enabled, get_buttons, disable_buttons_and_entries, Request, histVars
<1>2. DOMAIN ui = UIFields
  BY DEF ShapeInv
<1>3. /\ ui'.sensitive = FALSE /\ ui'.selected = ui.selected /\ ui'.dropdown = ui.dropdown
  BY <1>1, <1>2 DEF UIFields
<1>4. Login(e) /\ ~Change(e) /\ ~Send(e)
  BY DEF Login, Change, Send
<1> HIDE DEF e
<1>5. Moved(toWallet, toWallet', 0, {e}) /\ Moved(toUI, toUI', 0, {})
  BY <1>1, MovedAppend, MovedNot DEF ShapeInv
<1>6. LoginInv'
  <2>1. \A i \in DOMAIN toUI' : ~Reply(toUI'[i])
    BY <1>1 DEF AccountsInv, LoginInv
  <2>2. wallet'.at # "adding"
    BY <1>1 DEF AccountsInv, LoginInv, walletVars
  <2>3. \A i \in DOMAIN toWallet' : Login(toWallet'[i]) => i = Len(toWallet) + 1
    <3>1. \A i \in DOMAIN toWallet : ~Login(toWallet[i])
      BY <1>1 DEF AccountsInv, LoginInv
    <3>2. /\ Len(toWallet) \in Nat /\ DOMAIN toWallet = 1 .. Len(toWallet)
          /\ DOMAIN Append(toWallet, e) = 1 .. (Len(toWallet) + 1)
          /\ \A i \in 1 .. Len(toWallet) : Append(toWallet, e)[i] = toWallet[i]
      BY ListAppend DEF ShapeInv
    <3> QED
      BY <1>1, <3>1, <3>2
  <2> QED
    BY <1>3, <2>1, <2>2, <2>3 DEF LoginInv
<1>7. SameNames
  BY <1>1 DEF SameNames, ShapeInv, walletVars
<1>8. NamesInv'
  BY <1>3, <1>5, <1>7, NamesKept DEF AccountsInv
<1>9. SelectInv'
  BY <1>1, <1>3, <1>4, <1>5, SelectKept DEF AccountsInv, walletVars
<1>10. MadeInv'
  BY <1>1, <1>3, MadeKept DEF AccountsInv
<1> QED
  BY <1>6, <1>8, <1>9, <1>10 DEF AccountsInv

\* An account is chosen in the list.
LEMMA DropdownKeeps ==
    ASSUME AccountsInv, ShapeInv, NEW i \in DOMAIN ui.dropdown, dropdown_accounts_changed(i)
    PROVE  AccountsInv'
<1> DEFINE e == [type |-> "ChangeAccount", index |-> i]
<1>1. /\ ui' = [ui EXCEPT !.selected = i] /\ toWallet' = Append(toWallet, e)
      /\ UNCHANGED <<walletVars, toUI, made>>
  BY DEF dropdown_accounts_changed, Click, Request, histVars
<1>2. DOMAIN ui = UIFields /\ i \in Nat \ {0}
  BY DEF ShapeInv, IsList
<1>3. /\ ui'.sensitive = ui.sensitive /\ ui'.selected = i /\ ui'.dropdown = ui.dropdown
  BY <1>1, <1>2 DEF UIFields
<1>4. ~Login(e) /\ Change(e) /\ ~Send(e) /\ e.index = i
  BY DEF Login, Change, Send
<1> HIDE DEF e
<1>5. Moved(toWallet, toWallet', 0, {e}) /\ Moved(toUI, toUI', 0, {})
  BY <1>1, MovedAppend, MovedNot DEF ShapeInv
<1>6. SameNames
  BY <1>1 DEF SameNames, ShapeInv, walletVars
<1>7. LoginInv' /\ NamesInv' /\ MadeInv'
  <2>1. LoginInv'
    BY <1>1, <1>3, <1>4, <1>5, LoginKept DEF AccountsInv, walletVars
  <2>2. NamesInv'
    BY <1>3, <1>5, <1>6, NamesKept DEF AccountsInv
  <2>3. MadeInv'
    BY <1>1, <1>3, MadeKept DEF AccountsInv
  <2> QED
    BY <2>1, <2>2, <2>3
<1>8. PICK n, r :
         /\ n \in Nat /\ n = Len(toWallet) /\ r = toWallet' /\ DOMAIN toWallet = 1 .. n /\ DOMAIN r = 1 .. (n + 1) /\ Len(r) = n + 1
         /\ r[n + 1] = e /\ \A k \in 1 .. n : r[k] = toWallet[k]
  <2>1. IsList(toWallet)
    BY DEF ShapeInv
  <2>2. /\ Len(toWallet) \in Nat /\ DOMAIN toWallet = 1 .. Len(toWallet)
        /\ DOMAIN toWallet' = 1 .. (Len(toWallet) + 1) /\ Len(toWallet') = Len(toWallet) + 1
        /\ toWallet'[Len(toWallet) + 1] = e /\ \A k \in 1 .. Len(toWallet) : toWallet'[k] = toWallet[k]
    BY <1>1, <2>1, ListAppend
  <2> QED
    BY <2>2, Zenon
<1> n \in Nat
  BY <1>8
<1>9. SelectInv'
  <2>1. Chosen(r, current, n + 2, i)
    <3>1. n + 1 \in 1 .. (n + 2 - 1) /\ Change(r[n + 1])
      BY <1>4, <1>8
    <3>2. ASSUME NEW j \in 1 .. (n + 2 - 1), \A l \in (j + 1) .. (n + 2 - 1) : ~Change(r[l])
          PROVE  j = n + 1
      <4>1. ~(j < n + 1)
        BY <3>1, <3>2
      <4> QED
        BY <4>1
    <3> QED
      BY <1>4, <1>8, <3>1, <3>2 DEF Chosen
  <2>2. ASSUME NEW k \in 1 .. (n + 1), Send(r[k]) PROVE Chosen(r, current, k, r[k].shown)
    <3>1. k \in 1 .. n /\ r[k] = toWallet[k]
      BY <1>4, <1>8, <2>2
    <3>2. Chosen(toWallet, current, k, r[k].shown)
      BY <1>8, <2>2, <3>1 DEF AccountsInv, SelectInv
    <3>3. \A l \in 1 .. (k - 1) : r[l] = toWallet[l]
      BY <1>8, <3>1
    <3>4. \A j \in 1 .. (k - 1) : \A l \in (j + 1) .. (k - 1) : l \in 1 .. (k - 1)
      OBVIOUS
    <3> QED
      BY <3>2, <3>3, <3>4 DEF Chosen
  <2>3. \A k \in 1 .. (n + 1) : Change(r[k]) => r[k].index \in DOMAIN ui.dropdown
    <3>1. \A k \in 1 .. (n + 1) : k \in 1 .. n \/ k = n + 1
      OBVIOUS
    <3> QED
      BY <1>4, <1>8, <3>1 DEF AccountsInv, SelectInv
  <2>4. n + 1 + 1 = n + 2
    OBVIOUS
  <2>5. current' = current
    BY <1>1 DEF walletVars
  <2>6. current # 0 => current \in DOMAIN ui.dropdown
    BY DEF AccountsInv, SelectInv
  <2> QED
    BY <1>2, <1>3, <1>8, <2>1, <2>2, <2>3, <2>4, <2>5, <2>6 DEF SelectInv
<1> QED
  BY <1>7, <1>9 DEF AccountsInv

\* A login has been answered.
LEMMA AccountTabKeeps == ASSUME AccountsInv, ShapeInv, account_tab PROVE AccountsInv'
<1>1. /\ toUI # <<>> /\ Reply(Head(toUI)) /\ toUI' = Tail(toUI) /\ toWallet' = toWallet
      /\ ui' = [[ui EXCEPT !.sensitive = TRUE] EXCEPT
                   !.dropdown = IF Head(toUI).type = "AddAccountError" THEN @ ELSE Append(@, Head(toUI).address)]
      /\ UNCHANGED <<walletVars, made>>
  BY DEF account_tab, OnUIEvent, Reply, enable_buttons_and_entries, histVars
<1>2. DOMAIN ui = UIFields /\ IsList(toUI) /\ IsList(toWallet) /\ IsList(ui.dropdown) /\ IsList(accounts)
  BY DEF ShapeInv
<1>3. /\ ui'.sensitive = TRUE /\ ui'.selected = ui.selected
      /\ ui'.dropdown = IF Head(toUI).type = "AddAccountError" THEN ui.dropdown ELSE Append(ui.dropdown, Head(toUI).address)
  BY <1>1, <1>2 DEF UIFields
<1>4. Moved(toWallet, toWallet', 0, {}) /\ Moved(toUI, toUI', 1, {}) /\ Head(toUI) = toUI[1] /\ 1 \in DOMAIN toUI
  BY <1>1, <1>2, MovedTail, MovedNot
<1>5. \A i \in DOMAIN toUI' : ~Reply(toUI'[i])
  <2>1. \A i \in DOMAIN toUI' : i \in Nat /\ i # 0 /\ i + 1 \in DOMAIN toUI /\ toUI'[i] = toUI[i + 1]
    <3>1. \A i \in DOMAIN toUI' : i \in Nat /\ i + 1 \in DOMAIN toUI /\ toUI'[i] = toUI[i + 1]
      BY <1>4, OldEvents
    <3>2. DOMAIN toUI' = 1 .. Len(toUI')
      BY <1>4 DEF Moved
    <3> QED
      BY <3>1, <3>2
  <2>2. \A i \in Nat : i # 0 => i + 1 # 1
    OBVIOUS
  <2> QED
    BY <1>1, <1>4, <2>1, <2>2 DEF AccountsInv, LoginInv
<1>6. LoginInv'
  <2>1. wallet'.at # "adding" /\ \A i \in DOMAIN toWallet' : ~Login(toWallet'[i])
    BY <1>1, <1>4 DEF AccountsInv, LoginInv, walletVars
  <2> QED
    BY <1>5, <2>1 DEF LoginInv
<1>7. PICK n \in Nat : n = Len(ui.dropdown) /\ DOMAIN ui.dropdown = 1 .. n
  BY <1>2 DEF IsList
<1>8. NamesInv'
  <2>1. CASE Head(toUI).type = "AddAccountError"
    <3>1. ~Added(toUI[1])
      BY <1>4, <2>1 DEF Added
    <3>2. SameNames
      BY <1>1, <1>2 DEF SameNames, walletVars
    <3> QED
      BY <1>3, <1>4, <2>1, <3>1, <3>2, NamesKept DEF AccountsInv
  <2>2. CASE Head(toUI).type # "AddAccountError"
    <3>1. Added(toUI[1])
      BY <1>1, <1>4, <2>2 DEF Added, Reply
    <3>2. Len(accounts) = n + 1 /\ toUI[1].address = accounts[n + 1].address
      BY <1>4, <1>7, <3>1 DEF AccountsInv, NamesInv
    <3>3. PICK s : /\ s = ui'.dropdown /\ DOMAIN s = 1 .. (n + 1) /\ Len(s) = n + 1 /\ s[n + 1] = toUI[1].address
                   /\ \A k \in 1 .. n : s[k] = ui.dropdown[k]
      <4> DEFINE d == ui.dropdown
                 e == toUI[1].address
      <4>1. ui'.dropdown = Append(d, e)
        BY <1>3, <1>4, <2>2
      <4>2. IsList(d) /\ n = Len(d)
        BY <1>2, <1>7
      <4> HIDE DEF d, e
      <4>3. /\ DOMAIN Append(d, e) = 1 .. (n + 1) /\ Len(Append(d, e)) = n + 1
            /\ Append(d, e)[n + 1] = e /\ \A k \in 1 .. n : Append(d, e)[k] = d[k]
        BY <4>2, ListAppend
      <4> QED
        BY <4>1, <4>3 DEF d, e
    <3>4. DOMAIN accounts = 1 .. (n + 1)
      BY <1>2, <3>2 DEF IsList
    <3>5. \A k \in 1 .. (n + 1) : k \in DOMAIN accounts /\ s[k] = accounts[k].address
      <4>1. \A k \in 1 .. (n + 1) : k \in 1 .. n \/ k = n + 1
        OBVIOUS
      <4> QED
        BY <1>7, <3>2, <3>3, <3>4, <4>1 DEF AccountsInv, NamesInv
    <3>6. \A i \in DOMAIN toUI' : ~Added(toUI'[i])
      BY <1>5 DEF Added, Reply
    <3>7. accounts' = accounts
      BY <1>1 DEF walletVars
    <3> QED
      BY <3>2, <3>3, <3>5, <3>6, <3>7 DEF NamesInv
  <2> QED
    BY <2>1, <2>2
<1>9. DOMAIN ui.dropdown \subseteq DOMAIN ui'.dropdown
  <2>1. DOMAIN Append(ui.dropdown, Head(toUI).address) = 1 .. (n + 1)
    BY <1>2, <1>7, ListAppend
  <2>2. 1 .. n \subseteq 1 .. (n + 1)
    OBVIOUS
  <2> QED
    BY <1>3, <1>7, <2>1, <2>2
<1>10. SelectInv'
  BY <1>1, <1>3, <1>4, <1>9, SelectKept DEF AccountsInv, walletVars
<1>11. MadeInv'
  BY <1>1, <1>9, MadeKept DEF AccountsInv
<1> QED
  BY <1>6, <1>8, <1>10, <1>11 DEF AccountsInv

\* An event of the wallet's queue is taken.
LEMMA WalletTakes ==
    ASSUME ShapeInv, NEW type, OnWalletEvent(type)
    PROVE  /\ Moved(toWallet, toWallet', 1, {}) /\ Head(toWallet) = toWallet[1] /\ 1 \in DOMAIN toWallet
           /\ toWallet[1].type = type /\ wallet.at = "loop" /\ ui.st # "panicked"
           /\ UNCHANGED <<chainVars, handler, uiVars, received>>
<1>1. IsList(toWallet) /\ toWallet # <<>> /\ toWallet' = Tail(toWallet) /\ Head(toWallet).type = type
  BY DEF ShapeInv, OnWalletEvent
<1>2. Moved(toWallet, toWallet', 1, {}) /\ Head(toWallet) = toWallet[1] /\ 1 \in DOMAIN toWallet
  BY <1>1, MovedTail
<1> QED
  BY <1>1, <1>2 DEF OnWalletEvent, Running

\* Events are sent to the interface.
LEMMA ShowMoves == ASSUME ShapeInv, NEW es, IsList(es), Show(es) PROVE Moved(toUI, toUI', 0, Range(es))
BY MovedConcat DEF ShapeInv, Show

\* The keys of a login are looked at.
LEMMA AddAccountKeeps == ASSUME AccountsInv, ShapeInv, add_account PROVE AccountsInv'
<1> DEFINE e == Event("AddAccountError")
<1>1. /\ Moved(toWallet, toWallet', 1, {}) /\ 1 \in DOMAIN toWallet /\ Login(toWallet[1]) /\ wallet.at = "loop"
      /\ UNCHANGED <<ui, accounts, current, made>>
  BY WalletTakes DEF add_account, Login, uiVars, histVars
<1>2. \/ Show(<<e>>) /\ wallet' = wallet
      \/ wallet'.at = "adding" /\ toUI' = toUI
  BY DEF add_account
<1>3. e.type = "AddAccountError"
  BY DEF Event
<1> HIDE DEF e
<1>4. /\ ~ui'.sensitive /\ \A j \in DOMAIN toUI : ~Reply(toUI[j])
      /\ \A i \in DOMAIN toWallet' : ~Login(toWallet'[i])
  <2>1. ~ui'.sensitive /\ \A j \in DOMAIN toUI : ~Reply(toUI[j])
    BY <1>1 DEF AccountsInv, LoginInv
  <2>2. \A i \in DOMAIN toWallet' : i \in Nat /\ i # 0 /\ i + 1 \in DOMAIN toWallet /\ toWallet'[i] = toWallet[i + 1]
    <3>1. \A i \in DOMAIN toWallet' : i \in Nat /\ i + 1 \in DOMAIN toWallet /\ toWallet'[i] = toWallet[i + 1]
      BY <1>1, OldEvents
    <3>2. DOMAIN toWallet' = 1 .. Len(toWallet')
      BY <1>1 DEF Moved
    <3> QED
      BY <3>1, <3>2
  <2>3. \A i \in Nat : i # 0 => i + 1 # 1
    OBVIOUS
  <2>4. \A i \in DOMAIN toWallet' : ~Login(toWallet'[i])
    BY <1>1, <2>2, <2>3 DEF AccountsInv, LoginInv
  <2> QED
    BY <2>1, <2>4
<1>5. SameNames
  BY <1>1 DEF SameNames, ShapeInv
<1>6. SelectInv' /\ MadeInv'
  <2>1. ~Change(toWallet[1])
    BY <1>1 DEF Login, Change
  <2>2. SelectInv'
    BY <1>1, <2>1, SelectKept DEF AccountsInv
  <2> QED
    BY <1>1, <2>2, MadeKept DEF AccountsInv
<1>7. CASE Show(<<e>>) /\ wallet' = wallet
  <2>1. Moved(toUI, toUI', 0, {e})
    BY <1>7, ShowMoves, ShortLists
  <2>2. NamesInv'
    <3>1. ~Added(e)
      BY <1>3 DEF Added
    <3> QED
      BY <1>1, <1>5, <2>1, <3>1, NamesKept DEF AccountsInv
  <2>3. \A i, j \in DOMAIN toUI' : Reply(toUI'[i]) /\ Reply(toUI'[j]) => i = j
    <3>1. PICK n \in Nat : n = Len(toUI) /\ DOMAIN toUI = 1 .. n /\ DOMAIN toUI' = 1 .. (n + 1)
                           /\ \A k \in 1 .. n : toUI'[k] = toUI[k]
      <4>1. toUI' = toUI \o <<e>> /\ IsList(toUI) /\ IsList(<<e>>) /\ Len(<<e>>) = 1
        BY <1>7, ShortLists DEF Show, ShapeInv
      <4>2. /\ Len(toUI) \in Nat /\ DOMAIN toUI = 1 .. Len(toUI) /\ DOMAIN toUI' = 1 .. (Len(toUI) + 1)
            /\ \A k \in 1 .. Len(toUI) : toUI'[k] = toUI[k]
        BY <4>1, ListConcat
      <4> QED
        BY <4>2, Zenon
    <3>2. \A i \in DOMAIN toUI' : Reply(toUI'[i]) => i = n + 1
      BY <1>4, <3>1
    <3> QED
      BY <3>2
  <2>4. LoginInv'
    BY <1>1, <1>4, <1>7, <2>3 DEF LoginInv
  <2> QED
    BY <1>6, <2>2, <2>4 DEF AccountsInv
<1>8. CASE wallet'.at = "adding" /\ toUI' = toUI
  <2>1. Moved(toUI, toUI', 0, {})
    BY <1>8, MovedNot DEF ShapeInv
  <2>2. NamesInv'
    BY <1>1, <1>5, <2>1, NamesKept DEF AccountsInv
  <2>3. LoginInv'
    BY <1>1, <1>4, <1>8 DEF LoginInv
  <2> QED
    BY <1>6, <2>2, <2>3 DEF AccountsInv
<1> QED
  BY <1>2, <1>7, <1>8

\* The account is added to the list.
LEMMA PushAccountKeeps == ASSUME AccountsInv, ShapeInv, push_account PROVE AccountsInv'
<1> DEFINE e == [type |-> "AccountAddedSuccesfully", address |-> wallet.account.address]
<1>1. /\ wallet.at = "adding" /\ wallet'.at = "loop" /\ accounts' = Append(accounts, wallet.account)
      /\ toUI' = toUI \o <<e>> /\ UNCHANGED <<ui, current, toWallet, made>>
  BY DEF push_account, Show, uiVars, histVars
<1>2. Added(e) /\ e.address = wallet.account.address
  BY DEF Added
<1> HIDE DEF e
<1>3. ~ui.sensitive /\ (\A j \in DOMAIN toUI : ~Reply(toUI[j])) /\ \A i \in DOMAIN toWallet : ~Login(toWallet[i])
  BY <1>1 DEF AccountsInv, LoginInv
<1>4. PICK n \in Nat : n = Len(toUI) /\ DOMAIN toUI = 1 .. n /\ DOMAIN toUI' = 1 .. (n + 1)
                       /\ (\A k \in 1 .. n : toUI'[k] = toUI[k]) /\ toUI'[n + 1] = e
  <2>1. IsList(toUI) /\ IsList(<<e>>) /\ Len(<<e>>) = 1 /\ <<e>>[1] = e
    BY ShortLists DEF ShapeInv
  <2>2. /\ Len(toUI) \in Nat /\ DOMAIN toUI = 1 .. Len(toUI) /\ DOMAIN toUI' = 1 .. (Len(toUI) + 1)
        /\ (\A k \in 1 .. Len(toUI) : toUI'[k] = toUI[k]) /\ toUI'[Len(toUI) + 1] = e
    <3>1. /\ Len(toUI) \in Nat /\ DOMAIN toUI = 1 .. Len(toUI) /\ DOMAIN (toUI \o <<e>>) = 1 .. (Len(toUI) + Len(<<e>>))
          /\ \A k \in 1 .. Len(toUI) : (toUI \o <<e>>)[k] = toUI[k]
          /\ \A i \in 1 .. Len(<<e>>) : (toUI \o <<e>>)[Len(toUI) + i] = <<e>>[i]
      BY <2>1, ListConcat
    <3> QED
      BY <1>1, <2>1, <3>1
  <2> QED
    BY <2>2, Zenon
<1>5. \A i \in DOMAIN toUI' : Reply(toUI'[i]) => i = n + 1
  BY <1>3, <1>4
<1>6. LoginInv'
  BY <1>1, <1>3, <1>5 DEF LoginInv
<1>7. PICK m \in Nat : /\ m = Len(accounts) /\ Len(accounts') = m + 1 /\ DOMAIN accounts = 1 .. m /\ DOMAIN accounts' = 1 .. (m + 1)
                       /\ (\A k \in 1 .. m : accounts'[k] = accounts[k]) /\ accounts'[m + 1] = wallet.account
  <2>1. IsList(accounts)
    BY DEF ShapeInv
  <2>2. /\ Len(accounts) \in Nat /\ Len(accounts') = Len(accounts) + 1
        /\ DOMAIN accounts = 1 .. Len(accounts) /\ DOMAIN accounts' = 1 .. (Len(accounts) + 1)
        /\ (\A k \in 1 .. Len(accounts) : accounts'[k] = accounts[k]) /\ accounts'[Len(accounts) + 1] = wallet.account
    BY <1>1, <2>1, ListAppend
  <2> QED
    BY <2>2, Zenon
<1>8. NamesInv'
  <2>1. m = Len(ui.dropdown)
    BY <1>3, <1>7 DEF AccountsInv, NamesInv, Added, Reply
  <2>2. \A i \in DOMAIN ui.dropdown : i \in 1 .. m /\ i \in 1 .. (m + 1) /\ ui.dropdown[i] = accounts[i].address
    BY <1>7 DEF AccountsInv, NamesInv
  <2>3. \A i \in DOMAIN ui.dropdown : i \in DOMAIN accounts' /\ ui.dropdown[i] = accounts'[i].address
    BY <1>7, <2>2
  <2>4. \A j \in DOMAIN toUI' : Added(toUI'[j]) => j = n + 1
    BY <1>5 DEF Added, Reply
  <2>5. n + 1 \in DOMAIN toUI' /\ Added(toUI'[n + 1])
    BY <1>2, <1>4
  <2> QED
    BY <1>1, <1>2, <1>4, <1>7, <2>1, <2>3, <2>4, <2>5 DEF NamesInv
<1>9. SelectInv' /\ MadeInv'
  <2>1. Moved(toWallet, toWallet', 0, {})
    BY <1>1, MovedNot DEF ShapeInv
  <2>2. SelectInv'
    BY <1>1, <2>1, SelectKept DEF AccountsInv
  <2> QED
    BY <1>1, <2>2, MadeKept DEF AccountsInv
<1> QED
  BY <1>6, <1>8, <1>9 DEF AccountsInv

\* The wallet comes to the choice of an account.
LEMMA ChangeAccountKeeps == ASSUME AccountsInv, ShapeInv, change_account PROVE AccountsInv'
<1> DEFINE i == toWallet[1].index
           e == AccountChanged(i)
<1>1. /\ Moved(toWallet, toWallet', 1, {}) /\ 1 \in DOMAIN toWallet /\ Change(toWallet[1]) /\ Head(toWallet) = toWallet[1]
      /\ UNCHANGED <<ui, accounts, wallet, made>>
  BY WalletTakes DEF change_account, Change, uiVars, histVars
<1>2. i \in DOMAIN ui.dropdown /\ i \in DOMAIN accounts
  BY <1>1 DEF AccountsInv, SelectInv, NamesInv
<1>3. ~(i > Len(accounts))
  <2>1. IsList(accounts)
    BY DEF ShapeInv
  <2>2. Len(accounts) \in Nat /\ DOMAIN accounts = 1 .. Len(accounts)
    BY <2>1 DEF IsList
  <2> QED
    BY <1>2, <2>2
<1>4. current' = i /\ Show(<<e>>)
  BY <1>1, <1>3 DEF change_account
<1>5. ~Reply(e) /\ ~Added(e)
  BY DEF AccountChanged, Reply, Added
<1> HIDE DEF i, e
<1>6. Moved(toUI, toUI', 0, {e})
  BY <1>4, ShowMoves, ShortLists
<1>7. SameNames
  BY <1>1 DEF SameNames, ShapeInv
<1>8. LoginInv' /\ NamesInv' /\ MadeInv'
  <2>1. LoginInv'
    BY <1>1, <1>5, <1>6, LoginKept DEF AccountsInv
  <2>2. NamesInv'
    BY <1>1, <1>5, <1>6, <1>7, NamesKept DEF AccountsInv
  <2> QED
    BY <1>1, <2>1, <2>2, MadeKept DEF AccountsInv
<1>9. PICK n, r : /\ n \in Nat /\ n = Len(toWallet) /\ n >= 1 /\ r = toWallet' /\ Len(r) = n - 1 /\ DOMAIN r = 1 .. (n - 1)
                  /\ DOMAIN toWallet = 1 .. n /\ \A k \in 1 .. (n - 1) : r[k] = toWallet[k + 1]
  <2>1. IsList(toWallet) /\ toWallet # <<>> /\ toWallet' = Tail(toWallet)
    BY DEF ShapeInv, change_account, OnWalletEvent
  <2>2. /\ Len(toWallet) \in Nat \ {0} /\ Len(toWallet') = Len(toWallet) - 1 /\ DOMAIN toWallet' = 1 .. (Len(toWallet) - 1)
        /\ DOMAIN toWallet = 1 .. Len(toWallet) /\ \A k \in 1 .. (Len(toWallet) - 1) : toWallet'[k] = toWallet[k + 1]
    BY <2>1, ListTail
  <2>3. Len(toWallet) \in Nat /\ Len(toWallet) >= 1
    BY <2>2
  <2> QED
    BY <2>2, <2>3, Zenon
<1>10. ASSUME NEW k \in 1 .. n, NEW v, Chosen(toWallet, current, k + 1, v) PROVE Chosen(r, i, k, v)
  <2>1. k + 1 - 1 = k /\ 1 \in 1 .. k
    OBVIOUS
  <2>2. \A l \in 1 .. (k - 1) : r[l] = toWallet[l + 1] /\ l + 1 \in 1 .. k
    BY <1>9
  <2>3. ASSUME \A l \in 1 .. (k - 1) : ~Change(r[l]) PROVE v = i
    <3>1. \A l \in 2 .. k : ~Change(toWallet[l])
      <4> SUFFICES ASSUME NEW l \in 2 .. k PROVE ~Change(toWallet[l])
        OBVIOUS
      <4>1. PICK g \in 1 .. (k - 1) : g + 1 = l
        <5>1. l - 1 \in 1 .. (k - 1) /\ l - 1 + 1 = l
          OBVIOUS
        <5> QED
          BY <5>1
      <4> QED
        BY <2>2, <2>3, <4>1
    <3>2. 1 + 1 = 2
      OBVIOUS
    <3> QED
      BY <1>1, <1>10, <2>1, <3>1, <3>2 DEF Chosen, i
  <2>4. ASSUME NEW j \in 1 .. (k - 1), Change(r[j]), \A l \in (j + 1) .. (k - 1) : ~Change(r[l]) PROVE v = r[j].index
    <3>1. PICK g \in 1 .. k : g = j + 1 /\ r[j] = toWallet[g]
      BY <2>2
    <3>2. ASSUME NEW l \in (g + 1) .. k, Change(toWallet[l]) PROVE FALSE
      <4>1. PICK f \in (j + 1) .. (k - 1) : f + 1 = l /\ f \in 1 .. (k - 1)
        <5>1. l - 1 \in (j + 1) .. (k - 1) /\ l - 1 + 1 = l /\ l - 1 \in 1 .. (k - 1)
          BY <3>1
        <5> QED
          BY <5>1
      <4> QED
        BY <2>2, <2>4, <3>2, <4>1
    <3> QED
      BY <1>10, <2>1, <2>4, <3>1, <3>2 DEF Chosen
  <2> QED
    BY <2>3, <2>4 DEF Chosen
<1>11. SelectInv'
  <2>1. \A k \in 1 .. (n - 1) : /\ Send(r[k]) => Chosen(r, i, k, r[k].shown)
                                /\ Change(r[k]) => r[k].index \in DOMAIN ui.dropdown
    <3> TAKE k \in 1 .. (n - 1)
    <3>1. k + 1 \in 1 .. n /\ k \in 1 .. n
      BY <1>9
    <3>2. r[k] = toWallet[k + 1]
      BY <1>9
    <3>3. Send(r[k]) => Chosen(toWallet, current, k + 1, r[k].shown)
      BY <1>9, <3>1, <3>2 DEF AccountsInv, SelectInv
    <3>4. Change(r[k]) => r[k].index \in DOMAIN ui.dropdown
      BY <1>9, <3>1, <3>2 DEF AccountsInv, SelectInv
    <3> QED
      BY <1>10, <3>1, <3>3, <3>4
  <2>2. Chosen(r, i, n, ui.selected)
    <3>1. Chosen(toWallet, current, n + 1, ui.selected)
      BY <1>9 DEF AccountsInv, SelectInv
    <3>2. n \in 1 .. n
      BY <1>9
    <3> QED
      BY <1>10, <3>1, <3>2
  <2>3. Len(r) + 1 = n
    BY <1>9
  <2>4. ui.selected # 0 => ui.selected \in DOMAIN ui.dropdown
    BY DEF AccountsInv, SelectInv
  <2>5. /\ current' # 0 => current' \in DOMAIN ui'.dropdown
        /\ ui'.selected # 0 => ui'.selected \in DOMAIN ui'.dropdown
    BY <1>1, <1>2, <1>4, <2>4
  <2>6. /\ \A k \in DOMAIN toWallet' : Change(toWallet'[k]) => toWallet'[k].index \in DOMAIN ui'.dropdown
        /\ \A k \in DOMAIN toWallet' : Send(toWallet'[k]) => Chosen(toWallet', current', k, toWallet'[k].shown)
    <3>1. toWallet' = r /\ current' = i /\ DOMAIN toWallet' = 1 .. (n - 1) /\ ui' = ui
      BY <1>1, <1>4, <1>9
    <3> QED
      BY <2>1, <3>1
  <2>7. Chosen(toWallet', current', Len(toWallet') + 1, ui'.selected)
    <3>1. toWallet' = r /\ current' = i /\ Len(toWallet') + 1 = n /\ ui'.selected = ui.selected
      BY <1>1, <1>4, <1>9, <2>3
    <3> QED
      BY <2>2, <3>1
  <2> QED
    BY <2>5, <2>6, <2>7 DEF SelectInv
<1> QED
  BY <1>8, <1>11 DEF AccountsInv

\* What a payment changes.
LEMMA MakeTransactionIs ==
    ASSUME ShapeInv, handle_make_transaction
    PROVE  /\ Moved(toWallet, toWallet', 1, {}) /\ 1 \in DOMAIN toWallet /\ Send(toWallet[1])
           /\ wallet.at = "loop" /\ ui.st # "panicked" /\ ~AccountsRead
           /\ UNCHANGED <<chainVars, handler, ui, clicks, received, current, wallet, raced, late, again>>
           /\ \E F : /\ Moved(toUI, toUI', 0, F) /\ \A e \in F : e.type \in {"NewPendingTx", "MakeTransactionStatus"}
                     /\ \/ UNCHANGED <<accounts, network, made>>
                        \/ \E tx, p, coins, up :
                              /\ current # 0
                              /\ accounts' = [accounts EXCEPT ![current].pending = Append(@, tx)]
                              /\ network' \subseteq network \cup {tx}
                              /\ made' = Append(made, [tx |-> tx, account |-> current, shown |-> toWallet[1].shown,
                                                       payment |-> p, coins |-> coins, current |-> up])
<1>1. /\ Moved(toWallet, toWallet', 1, {}) /\ Head(toWallet) = toWallet[1] /\ 1 \in DOMAIN toWallet
      /\ Send(toWallet[1]) /\ wallet.at = "loop" /\ ui.st # "panicked"
      /\ UNCHANGED <<chainVars, handler, uiVars, received>>
  BY WalletTakes DEF handle_make_transaction, Send
<1>2. PICK sent, coins : sent \in BOOLEAN /\ make_transaction(coins, sent)
  BY DEF handle_make_transaction
<1> DEFINE p == Head(toWallet).payment
           tx == Account_make_transaction(accounts[current], coins, p.to, p.amount, p.fee)
           s == Event("MakeTransactionStatus")
           new == Event("NewPendingTx")
           up == handler.at \notin {"utxos", "accounts"} /\ current \notin raced
<1>3. \/ Show(<<s>>) /\ UNCHANGED <<accounts, network, histVars>>
      \/ /\ current # 0
         /\ accounts' = [accounts EXCEPT ![current] = add_transaction(@, tx.val, sent)]
         /\ network' = IF sent THEN network \cup {tx.val} ELSE network
         /\ Show(IF sent THEN <<new>> \o <<s>> ELSE <<s>>)
         /\ made' = Append(made, [tx |-> tx.val, account |-> current, shown |-> Head(toWallet).shown,
                                  payment |-> p, coins |-> coins, current |-> up])
         /\ UNCHANGED <<raced, late, again>>
  BY <1>2 DEF make_transaction
<1>4. s.type = "MakeTransactionStatus" /\ new.type = "NewPendingTx"
  BY DEF Event
<1>5. UNCHANGED <<current, wallet>> /\ ~AccountsRead
  BY DEF handle_make_transaction
<1>6. UNCHANGED <<raced, late, again>>
  BY <1>3 DEF histVars
<1>7. ASSUME Show(<<s>>) PROVE Moved(toUI, toUI', 0, {s})
  <2> HIDE DEF s
  <2> QED
    BY <1>7, ShowMoves, ShortLists
<1>8. ASSUME Show(<<new>> \o <<s>>) PROVE Moved(toUI, toUI', 0, {new, s})
  <2> DEFINE es == <<new>> \o <<s>>
  <2> HIDE DEF s, new
  <2>1. IsList(es) /\ Range(es) = {new, s}
    BY ShortLists
  <2> HIDE DEF es
  <2>2. Show(es)
    BY <1>8 DEF es
  <2> QED
    BY <2>1, <2>2, ShowMoves
<1>9. \E F : /\ Moved(toUI, toUI', 0, F) /\ \A e \in F : e.type \in {"NewPendingTx", "MakeTransactionStatus"}
             /\ \/ UNCHANGED <<accounts, network, made>>
                \/ \E t, pay, cs, ok :
                      /\ current # 0
                      /\ accounts' = [accounts EXCEPT ![current].pending = Append(@, t)]
                      /\ network' \subseteq network \cup {t}
                      /\ made' = Append(made, [tx |-> t, account |-> current, shown |-> toWallet[1].shown,
                                               payment |-> pay, coins |-> cs, current |-> ok])
  <2>1. CASE Show(<<s>>) /\ UNCHANGED <<accounts, network, histVars>>
    <3>1. UNCHANGED <<accounts, network, made>>
      BY <2>1 DEF histVars
    <3> HIDE DEF s
    <3> QED
      BY <1>4, <1>7, <2>1, <3>1
  <2>2. CASE /\ current # 0
             /\ accounts' = [accounts EXCEPT ![current] = add_transaction(@, tx.val, sent)]
             /\ network' = IF sent THEN network \cup {tx.val} ELSE network
             /\ Show(IF sent THEN <<new>> \o <<s>> ELSE <<s>>)
             /\ made' = Append(made, [tx |-> tx.val, account |-> current, shown |-> Head(toWallet).shown,
                                      payment |-> p, coins |-> coins, current |-> up])
    <3>1. PICK F : Moved(toUI, toUI', 0, F) /\ \A e \in F : e.type \in {"NewPendingTx", "MakeTransactionStatus"}
      <4> HIDE DEF s, new, tx, p
      <4>1. CASE sent
        BY <1>4, <1>8, <2>2, <4>1
      <4>2. CASE ~sent
        BY <1>4, <1>7, <2>2, <4>2
      <4> QED
        BY <4>1, <4>2
    <3>2. accounts' = [accounts EXCEPT ![current].pending = Append(@, tx.val)]
      <4> HIDE DEF s, new, tx, p, up
      <4> QED
        BY <2>2 DEF add_transaction
    <3>3. network' \subseteq network \cup {tx.val}
      BY <2>2
    <3>4. made' = Append(made, [tx |-> tx.val, account |-> current, shown |-> toWallet[1].shown,
                                payment |-> p, coins |-> coins, current |-> up])
      BY <1>1, <2>2
    <3> DEFINE val == tx.val
    <3>5. /\ current # 0 /\ accounts' = [accounts EXCEPT ![current].pending = Append(@, val)]
          /\ network' \subseteq network \cup {val}
          /\ made' = Append(made, [tx |-> val, account |-> current, shown |-> toWallet[1].shown,
                                   payment |-> p, coins |-> coins, current |-> up])
      BY <2>2, <3>2, <3>3, <3>4
    <3> HIDE DEF val, p, up
    <3> QED
      BY <3>1, <3>5
  <2> QED
    BY <1>3, <2>1, <2>2
<1> QED
  BY <1>1, <1>5, <1>6, <1>9, Zenon DEF uiVars

--------------------------------------------------------------------------------
(***************************************************************************)
(* The lists of an account.                                                *)
(***************************************************************************)
\* Accounts that are changed one by one are the same accounts.
LEMMA AccountsSame ==
    ASSUME ShapeInv, NEW f, accounts' = [i \in DOMAIN accounts |-> f[i]],
           \A i \in DOMAIN accounts : /\ IsAccount(f[i]) /\ f[i].address = accounts[i].address
                                      /\ f[i].private_key = accounts[i].private_key
    PROVE  SameNames /\ \A i \in DOMAIN accounts' : IsAccount(accounts'[i]) /\ accounts'[i] = f[i]
<1>1. IsList(accounts)
  BY DEF ShapeInv
<1>2. PICK n \in Nat : n = Len(accounts) /\ DOMAIN accounts = 1 .. n
  BY <1>1 DEF IsList
<1>3. /\ accounts' = [i \in 1 .. n |-> accounts'[i]] /\ DOMAIN accounts' = DOMAIN accounts
      /\ \A i \in DOMAIN accounts' : accounts'[i] = f[i]
  BY <1>2
<1>4. IsList(accounts') /\ Len(accounts') = n
  BY <1>3, ListOf
<1> QED
  BY <1>2, <1>3, <1>4 DEF SameNames

\* The pending transactions of one account change.
LEMMA PendingSet ==
    ASSUME ShapeInv, NEW k \in DOMAIN accounts, NEW x, IsList(x), accounts' = [accounts EXCEPT ![k].pending = x]
    PROVE  /\ SameNames /\ \A i \in DOMAIN accounts' : IsAccount(accounts'[i])
           /\ accounts'[k].pending = x /\ accounts'[k].confirmed = accounts[k].confirmed
           /\ \A i \in DOMAIN accounts \ {k} : accounts'[i] = accounts[i]
           /\ SameCoins
<1> DEFINE a == [accounts[k] EXCEPT !.pending = x]
           f == [i \in DOMAIN accounts |-> IF i = k THEN a ELSE accounts[i]]
<1>1. \A i \in DOMAIN accounts : IsAccount(accounts[i])
  BY DEF ShapeInv
<1>2. /\ IsAccount(a) /\ a.address = accounts[k].address /\ a.pending = x /\ a.confirmed = accounts[k].confirmed
      /\ a.utxo_set = accounts[k].utxo_set /\ a.private_key = accounts[k].private_key
  BY <1>1 DEF IsAccount
<1>3. accounts' = [accounts EXCEPT ![k] = a]
  OBVIOUS
<1>4. accounts = [i \in DOMAIN accounts |-> accounts[i]]
  <2>1. IsList(accounts)
    BY DEF ShapeInv
  <2> QED
    BY <2>1 DEF IsList
<1> HIDE DEF a
<1>5. accounts' = [i \in DOMAIN accounts |-> f[i]]
  BY <1>3, <1>4
<1>6. \A i \in DOMAIN accounts : /\ IsAccount(f[i]) /\ f[i].address = accounts[i].address
                                 /\ f[i].private_key = accounts[i].private_key
  BY <1>1, <1>2
<1>7. f[k] = a /\ \A i \in DOMAIN accounts \ {k} : f[i] = accounts[i]
  OBVIOUS
<1> HIDE DEF f
<1>8. SameNames /\ \A i \in DOMAIN accounts' : IsAccount(accounts'[i]) /\ accounts'[i] = f[i]
  BY <1>5, <1>6, AccountsSame
<1>9. DOMAIN accounts' = DOMAIN accounts
  BY <1>8 DEF SameNames
<1>10. \A i \in DOMAIN accounts : f[i].utxo_set = accounts[i].utxo_set
  BY <1>2, <1>7
<1>11. SameCoins
  BY <1>8, <1>9, <1>10 DEF SameCoins
<1> QED
  BY <1>2, <1>7, <1>8, <1>9, <1>11

\* The confirmed transactions of one account change.
LEMMA ConfirmedSet ==
    ASSUME ShapeInv, NEW k \in DOMAIN accounts, NEW x, IsList(x), accounts' = [accounts EXCEPT ![k].confirmed = x]
    PROVE  /\ SameNames /\ \A i \in DOMAIN accounts' : IsAccount(accounts'[i])
           /\ accounts'[k].confirmed = x /\ accounts'[k].pending = accounts[k].pending
           /\ \A i \in DOMAIN accounts \ {k} : accounts'[i] = accounts[i]
           /\ SameCoins
<1> DEFINE a == [accounts[k] EXCEPT !.confirmed = x]
           f == [i \in DOMAIN accounts |-> IF i = k THEN a ELSE accounts[i]]
<1>1. \A i \in DOMAIN accounts : IsAccount(accounts[i])
  BY DEF ShapeInv
<1>2. /\ IsAccount(a) /\ a.address = accounts[k].address /\ a.confirmed = x /\ a.pending = accounts[k].pending
      /\ a.utxo_set = accounts[k].utxo_set /\ a.private_key = accounts[k].private_key
  BY <1>1 DEF IsAccount
<1>3. accounts' = [accounts EXCEPT ![k] = a]
  OBVIOUS
<1>4. accounts = [i \in DOMAIN accounts |-> accounts[i]]
  <2>1. IsList(accounts)
    BY DEF ShapeInv
  <2> QED
    BY <2>1 DEF IsList
<1> HIDE DEF a
<1>5. accounts' = [i \in DOMAIN accounts |-> f[i]]
  BY <1>3, <1>4
<1>6. \A i \in DOMAIN accounts : /\ IsAccount(f[i]) /\ f[i].address = accounts[i].address
                                 /\ f[i].private_key = accounts[i].private_key
  BY <1>1, <1>2
<1>7. f[k] = a /\ \A i \in DOMAIN accounts \ {k} : f[i] = accounts[i]
  OBVIOUS
<1> HIDE DEF f
<1>8. SameNames /\ \A i \in DOMAIN accounts' : IsAccount(accounts'[i]) /\ accounts'[i] = f[i]
  BY <1>5, <1>6, AccountsSame
<1>9. DOMAIN accounts' = DOMAIN accounts
  BY <1>8 DEF SameNames
<1>10. \A i \in DOMAIN accounts : f[i].utxo_set = accounts[i].utxo_set
  BY <1>2, <1>7
<1>11. SameCoins
  BY <1>8, <1>9, <1>10 DEF SameCoins
<1> QED
  BY <1>2, <1>7, <1>8, <1>9, <1>11

\* The coins of all accounts change.
LEMMA CoinsSet ==
    ASSUME ShapeInv, update_accounts_utxo_set
    PROVE  /\ SameNames /\ \A i \in DOMAIN accounts' : IsAccount(accounts'[i])
           /\ \A i \in DOMAIN accounts : accounts'[i].pending = accounts[i].pending /\ accounts'[i].confirmed = accounts[i].confirmed
<1> DEFINE c(i) == utxos_referenced_to_account(utxo_set, accounts[i].address)
           f == [i \in DOMAIN accounts |-> [accounts[i] EXCEPT !.utxo_set = c(i)]]
<1>1. \A i \in DOMAIN accounts : IsAccount(accounts[i])
  BY DEF ShapeInv
<1>2. accounts' = [i \in DOMAIN accounts |-> [accounts[i] EXCEPT !.utxo_set = c(i)]]
  BY DEF update_accounts_utxo_set
<1> HIDE DEF c
<1>3. accounts' = [i \in DOMAIN accounts |-> f[i]]
  BY <1>2
<1>4. ASSUME NEW i \in DOMAIN accounts
      PROVE  /\ IsAccount(f[i]) /\ f[i].address = accounts[i].address /\ f[i].private_key = accounts[i].private_key
             /\ f[i].pending = accounts[i].pending /\ f[i].confirmed = accounts[i].confirmed
  BY <1>1 DEF IsAccount
<1> HIDE DEF f
<1>5. SameNames /\ \A i \in DOMAIN accounts' : IsAccount(accounts'[i]) /\ accounts'[i] = f[i]
  BY <1>3, <1>4, AccountsSame
<1>6. DOMAIN accounts' = DOMAIN accounts
  BY <1>5 DEF SameNames
<1> QED
  BY <1>4, <1>5, <1>6

--------------------------------------------------------------------------------
(***************************************************************************)
(* Blocks.                                                                 *)
(***************************************************************************)
\* An event for the interface says what is true.
TrueEvent(e) ==
    /\ e.type # "InitializeUITabs"
    /\ e.type = "AddBlock" => e.block \in DOMAIN blocks
    /\ TrueAnswer(e)

\* A block that was listed when it was searched for is stored.
TrueSearch(e) == e.type \in Searches /\ e.listed => e.hash \in DOMAIN blocks

\* The thread of the peer does not begin or end a block.
SamePhase ==
    \/ handler' = handler
    \/ /\ ui.st # "panicked" /\ (handler'.at \in BlockPhases <=> handler.at \in BlockPhases)
       /\ handler'.at \in BlockPhases => handler'.block = handler.block

\* Steps that do not add a block or list one.
LEMMA BlocksKept ==
    ASSUME BlocksInv, UNCHANGED <<headers, header_heights, again, blocks>>, SamePhase, ui'.st = ui.st, ui'.blocks = ui.blocks,
           NEW d, NEW E, Moved(toWallet, toWallet', d, E), \A e \in E : TrueSearch(e),
           NEW c, NEW F, Moved(toUI, toUI', c, F), \A e \in F : TrueEvent(e),
           c = 0 \/ (c = 1 /\ toUI[1].type \notin {"InitializeUITabs", "AddBlock"})
    PROVE  BlocksInv'
<1>1. \A i \in DOMAIN toWallet' : toWallet'[i] \in E \/ (i + d \in DOMAIN toWallet /\ toWallet'[i] = toWallet[i + d])
  BY OldEvents
<1>2. \A j \in DOMAIN toUI' : j \in Nat /\ (toUI'[j] \in F \/ (j + c \in DOMAIN toUI /\ toUI'[j] = toUI[j + c]))
  BY OldEvents
<1>3. \A j \in DOMAIN toUI : j \in Nat /\ (j > c => j - c \in DOMAIN toUI' /\ toUI'[j - c] = toUI[j])
  BY OldEvents
<1>4. DOMAIN toUI = 1 .. Len(toUI) /\ Len(toUI) \in Nat /\ DOMAIN toUI' = 1 .. Len(toUI') /\ Len(toUI') \in Nat
  BY DEF Moved
<1>5. StoredInv' /\ HeightsInv' /\ PanickedInv'
  BY DEF BlocksInv, StoredInv, HeightsInv, PanickedInv, SamePhase
<1>6. SearchInv'
  BY <1>1, <1>2 DEF BlocksInv, SearchInv, TrueSearch, TrueEvent, TrueAnswer
<1>7. OpeningInv'
  <2>1. CASE c = 0
    <3>1. \A j \in DOMAIN toUI' : toUI'[j] \in F \/ (j \in DOMAIN toUI /\ toUI'[j] = toUI[j])
      BY <1>2, <2>1
    <3>2. \A j \in DOMAIN toUI : j \in DOMAIN toUI' /\ toUI'[j] = toUI[j]
      <4>1. \A j \in DOMAIN toUI : j > 0 /\ j - 0 = j
        BY <1>4
      <4> QED
        BY <1>3, <2>1, <4>1
    <3> QED
      BY <3>1, <3>2 DEF BlocksInv, OpeningInv, TrueEvent
  <2>2. CASE c = 1
    <3>1. ui.st # "starting"
      BY <2>2 DEF BlocksInv, OpeningInv
    <3> QED
      BY <1>2, <3>1 DEF BlocksInv, OpeningInv, TrueEvent
  <2> QED
    BY <2>1, <2>2
<1>8. ListedInv'
  <2>1. \A j \in DOMAIN toUI' : toUI'[j].type = "AddBlock" => toUI'[j].block \in DOMAIN blocks
    BY <1>2 DEF BlocksInv, ListedInv, TrueEvent
  <2>2. ASSUME NEW j \in DOMAIN toUI, toUI[j].type = "AddBlock" PROVE \E k \in DOMAIN toUI' : toUI'[k] = toUI[j]
    <3>1. j > c
      BY <1>4, <2>2
    <3> QED
      BY <1>3, <3>1
  <2>3. ASSUME NEW b \in DOMAIN blocks, b > AMOUNT_TO_SHOW
        PROVE  \/ \E i \in DOMAIN ui.blocks : ui.blocks[i] = b
               \/ \E j \in DOMAIN toUI' : toUI'[j].type = "AddBlock" /\ toUI'[j].block = b
    BY <2>2, <2>3 DEF BlocksInv, ListedInv
  <2>4. \A i \in DOMAIN ui.blocks : ui.blocks[i] \in DOMAIN blocks
    BY DEF BlocksInv, ListedInv
  <2> QED
    BY <2>1, <2>3, <2>4 DEF ListedInv
<1> QED
  BY <1>5, <1>6, <1>7, <1>8 DEF BlocksInv

--------------------------------------------------------------------------------
(***************************************************************************)
(* The clicks.                                                             *)
(***************************************************************************)
WalletInv == ShapeInv /\ AccountsInv /\ BlocksInv

\* What the transactions' invariant is about.
trackVars == <<accounts, made, handler, blocks, network, late>>

\* A click sends one event.
LEMMA ClickIs ==
    ASSUME ShapeInv, NEW button, NEW bound, Click(button, bound), NEW e, Request(e),
           DOMAIN ui' = UIFields, ui'.dropdown = ui.dropdown, ui'.blocks = ui.blocks, ui'.selected \in Nat, ui'.st = ui.st
    PROVE  /\ ShapeInv' /\ Moved(toWallet, toWallet', 0, {e}) /\ Moved(toUI, toUI', 0, {})
           /\ UNCHANGED <<headers, header_heights, again, blocks, handler, accounts, current, wallet, made>> /\ UNCHANGED trackVars
<1>1. /\ toWallet' = Append(toWallet, e) /\ toUI' = toUI
      /\ UNCHANGED <<headers, header_heights, again, blocks, handler, accounts, current, wallet, made>> /\ UNCHANGED trackVars
  BY DEF Click, Request, chainVars, walletVars, histVars, netVars, trackVars
<1>2. Moved(toWallet, toWallet', 0, {e}) /\ Moved(toUI, toUI', 0, {})
  BY <1>1, MovedAppend, MovedNot DEF ShapeInv
<1>3. IsList(toWallet')
  BY <1>2 DEF Moved
<1>4. ShapeInv'
  BY <1>1, <1>3 DEF ShapeInv
<1> QED
  BY <1>1, <1>2, <1>4

\* A click that has nothing to do with the accounts' list.
LEMMA PlainClickKeeps ==
    ASSUME WalletInv, NEW button, NEW bound, Click(button, bound), NEW e, Request(e), ui' = ui,
           ~Login(e), ~Change(e), Send(e) => e.shown = ui.selected, TrueSearch(e)
    PROVE  WalletInv' /\ UNCHANGED trackVars
<1>1. ShapeInv /\ AccountsInv /\ BlocksInv
  BY DEF WalletInv
<1>2. DOMAIN ui' = UIFields /\ ui'.selected \in Nat
  BY <1>1 DEF ShapeInv
<1>3. /\ ShapeInv' /\ Moved(toWallet, toWallet', 0, {e}) /\ Moved(toUI, toUI', 0, {})
      /\ UNCHANGED <<headers, header_heights, again, blocks, handler, accounts, current, wallet, made>> /\ UNCHANGED trackVars
  BY <1>1, <1>2, ClickIs
<1>4. SameNames /\ SameChoice
  BY <1>1, <1>3 DEF SameNames, SameChoice, ShapeInv
<1>5. \A x \in {e} : ~Login(x) /\ ~Change(x) /\ (Send(x) => x.shown = ui.selected)
  OBVIOUS
<1>6. AccountsInv'
  BY <1>1, <1>3, <1>4, <1>5, AccountsKept
<1>7. SamePhase /\ \A x \in {e} : TrueSearch(x)
  BY <1>3 DEF SamePhase
<1>8. BlocksInv'
  BY <1>1, <1>3, <1>7, BlocksKept
<1> QED
  BY <1>3, <1>6, <1>8 DEF WalletInv

\* The block that is searched for is stored if it was listed.
LEMMA ListedIsStored ==
    ASSUME WalletInv, NEW b, Contains(ui.blocks, b)
    PROVE  b \in DOMAIN blocks
<1>1. PICK i \in 1 .. Len(ui.blocks) : ui.blocks[i] = b
  BY DEF Contains
<1>2. i \in DOMAIN ui.blocks
  BY DEF WalletInv, ShapeInv, IsList
<1> QED
  BY <1>1, <1>2 DEF WalletInv, BlocksInv, ListedInv

\* Every click keeps the invariant.
LEMMA ClicksKeep == ASSUME WalletInv, Clicks PROVE WalletInv' /\ UNCHANGED trackVars
<1>1. ShapeInv /\ AccountsInv /\ BlocksInv
  BY DEF WalletInv
<1>2. ASSUME NEW l \in Logins, login_button_clicked(l) PROVE WalletInv' /\ UNCHANGED trackVars
  <2> DEFINE e == [type |-> "AddAccountRequest", wif |-> l.wif, address |-> l.address]
  <2>1. Click("login", MaxLogins) /\ Request(e) /\ ui' = [ui EXCEPT !.sensitive = FALSE]
    BY <1>2 DEF login_button_clicked, disable_buttons_and_entries
  <2>2. TrueSearch(e)
    BY DEF TrueSearch, Searches
  <2> HIDE DEF e
  <2>3. DOMAIN ui' = UIFields /\ ui'.dropdown = ui.dropdown /\ ui'.blocks = ui.blocks /\ ui'.selected = ui.selected
        /\ ui'.selected \in Nat /\ ui'.st = ui.st
    BY <1>1, <2>1 DEF ShapeInv, UIFields
  <2>4. /\ ShapeInv' /\ Moved(toWallet, toWallet', 0, {e}) /\ Moved(toUI, toUI', 0, {})
        /\ UNCHANGED <<headers, header_heights, again, blocks, handler, accounts, current, wallet, made>> /\ UNCHANGED trackVars
    BY <1>1, <2>1, <2>3, ClickIs
  <2>5. SamePhase /\ \A x \in {e} : TrueSearch(x)
    BY <2>2, <2>4 DEF SamePhase
  <2>6. BlocksInv'
    BY <1>1, <2>3, <2>4, <2>5, BlocksKept
  <2>7. AccountsInv'
    BY <1>1, <1>2, LoginClickKeeps
  <2> QED
    BY <2>4, <2>6, <2>7 DEF WalletInv
<1>3. ASSUME NEW i \in DOMAIN ui.dropdown, dropdown_accounts_changed(i) PROVE WalletInv' /\ UNCHANGED trackVars
  <2> DEFINE e == [type |-> "ChangeAccount", index |-> i]
  <2>1. Click("select", MaxSelects) /\ Request(e) /\ ui' = [ui EXCEPT !.selected = i]
    BY <1>3 DEF dropdown_accounts_changed
  <2>2. TrueSearch(e)
    BY DEF TrueSearch, Searches
  <2> HIDE DEF e
  <2>3. i \in Nat
    BY <1>1 DEF ShapeInv, IsList
  <2>4. DOMAIN ui' = UIFields /\ ui'.dropdown = ui.dropdown /\ ui'.blocks = ui.blocks
        /\ ui'.selected \in Nat /\ ui'.st = ui.st
    BY <1>1, <2>1, <2>3 DEF ShapeInv, UIFields
  <2>5. /\ ShapeInv' /\ Moved(toWallet, toWallet', 0, {e}) /\ Moved(toUI, toUI', 0, {})
        /\ UNCHANGED <<headers, header_heights, again, blocks, handler, accounts, current, wallet, made>> /\ UNCHANGED trackVars
    BY <1>1, <2>1, <2>4, ClickIs
  <2>6. SamePhase /\ \A x \in {e} : TrueSearch(x)
    BY <2>2, <2>5 DEF SamePhase
  <2>7. BlocksInv'
    BY <1>1, <2>4, <2>5, <2>6, BlocksKept
  <2>8. AccountsInv'
    BY <1>1, <1>3, DropdownKeeps
  <2> QED
    BY <2>5, <2>7, <2>8 DEF WalletInv
<1>4. ASSUME NEW p \in Payments, send_button_clicked(p) PROVE WalletInv' /\ UNCHANGED trackVars
  <2> DEFINE e == [type |-> "MakeTransaction", payment |-> p, shown |-> ui.selected]
  <2>1. Click("send", MaxSends) /\ Request(e) /\ ui' = ui
    BY <1>4 DEF send_button_clicked
  <2>2. ~Login(e) /\ ~Change(e) /\ (Send(e) => e.shown = ui.selected) /\ TrueSearch(e)
    BY DEF Login, Change, Send, TrueSearch, Searches
  <2> HIDE DEF e
  <2> QED
    BY <2>1, <2>2, PlainClickKeeps
<1>5. ASSUME search_blocks_button_clicked(headers) PROVE WalletInv' /\ UNCHANGED trackVars
  <2> DEFINE e == [type |-> "SearchBlock", hash |-> headers, listed |-> Contains(ui.blocks, headers)]
  <2>1. Click("search", MaxSearches) /\ Request(e) /\ ui' = ui
    BY <1>5 DEF search_blocks_button_clicked
  <2>2. e.type = "SearchBlock" /\ e.hash = headers /\ (e.listed => Contains(ui.blocks, headers))
    OBVIOUS
  <2> HIDE DEF e
  <2>3. ~Login(e) /\ ~Change(e) /\ ~Send(e) /\ TrueSearch(e)
    BY <2>2, ListedIsStored DEF Login, Change, Send, TrueSearch
  <2> QED
    BY <2>1, <2>3, PlainClickKeeps
<1>6. ASSUME search_headers_button_clicked(headers) PROVE WalletInv' /\ UNCHANGED trackVars
  <2> DEFINE e == [type |-> "SearchHeader", hash |-> headers, listed |-> Contains(ui.blocks, headers)]
  <2>1. Click("search", MaxSearches) /\ Request(e) /\ ui' = ui
    BY <1>6 DEF search_headers_button_clicked
  <2>2. e.type = "SearchHeader" /\ e.hash = headers /\ (e.listed => Contains(ui.blocks, headers))
    OBVIOUS
  <2> HIDE DEF e
  <2>3. ~Login(e) /\ ~Change(e) /\ ~Send(e) /\ TrueSearch(e)
    BY <2>2, ListedIsStored DEF Login, Change, Send, TrueSearch
  <2> QED
    BY <2>1, <2>3, PlainClickKeeps
<1>7. ASSUME NEW tx \in Incoming, search_tx_poi_button_clicked(headers, tx) PROVE WalletInv' /\ UNCHANGED trackVars
  <2> DEFINE e == [type |-> "PoiOfTransactionRequest", hash |-> headers, tx |-> tx, listed |-> Contains(ui.blocks, headers)]
  <2>1. Click("search", MaxSearches) /\ Request(e) /\ ui' = ui
    BY <1>7 DEF search_tx_poi_button_clicked
  <2>2. e.type = "PoiOfTransactionRequest" /\ e.hash = headers /\ (e.listed => Contains(ui.blocks, headers))
    OBVIOUS
  <2> HIDE DEF e
  <2>3. ~Login(e) /\ ~Change(e) /\ ~Send(e) /\ TrueSearch(e)
    BY <2>2, ListedIsStored DEF Login, Change, Send, TrueSearch
  <2> QED
    BY <2>1, <2>3, PlainClickKeeps
<1> QED
  BY <1>2, <1>3, <1>4, <1>5, <1>6, <1>7 DEF Clicks

--------------------------------------------------------------------------------
(***************************************************************************)
(* The events of the interface.                                            *)
(***************************************************************************)
\* The interface takes an event.
LEMMA UITakes ==
    ASSUME ShapeInv, NEW types, OnUIEvent(types)
    PROVE  /\ Moved(toUI, toUI', 1, {}) /\ Head(toUI) = toUI[1] /\ 1 \in DOMAIN toUI /\ IsList(toUI')
           /\ toUI[1].type \in types /\ ui.st \in {"starting", "open"}
           /\ UNCHANGED <<headers, header_heights, again, blocks, handler, accounts, current, wallet, made>> /\ UNCHANGED trackVars
<1>1. IsList(toUI) /\ toUI # <<>> /\ toUI' = Tail(toUI) /\ Head(toUI).type \in types /\ ui.st \in {"starting", "open"}
  BY DEF ShapeInv, OnUIEvent
<1>2. Moved(toUI, toUI', 1, {}) /\ Head(toUI) = toUI[1] /\ 1 \in DOMAIN toUI
  BY <1>1, MovedTail
<1>3. IsList(toUI')
  BY <1>2 DEF Moved
<1>4. UNCHANGED <<headers, header_heights, again, blocks, handler, accounts, current, wallet, made>> /\ UNCHANGED trackVars
  BY DEF OnUIEvent, chainVars, walletVars, histVars, netVars, trackVars
<1> QED
  BY <1>1, <1>2, <1>3, <1>4

\* The interface asks the wallet for something that concerns no account in
\* particular.
Asks == toWallet' = toWallet \/ \E type \in {"GetTransactionsRequest", "GetAccountRequest"} : Request(Event(type))

LEMMA AsksMoves ==
    ASSUME ShapeInv, Asks
    PROVE  \E E : /\ Moved(toWallet, toWallet', 0, E) /\ IsList(toWallet')
                  /\ \A e \in E : ~Login(e) /\ ~Change(e) /\ ~Send(e) /\ TrueSearch(e)
<1>1. CASE toWallet' = toWallet
  <2>1. Moved(toWallet, toWallet', 0, {}) /\ IsList(toWallet')
    BY <1>1, MovedNot DEF ShapeInv
  <2> QED
    BY <2>1
<1>2. ASSUME NEW type \in {"GetTransactionsRequest", "GetAccountRequest"}, Request(Event(type))
      PROVE  \E E : /\ Moved(toWallet, toWallet', 0, E) /\ IsList(toWallet')
                    /\ \A e \in E : ~Login(e) /\ ~Change(e) /\ ~Send(e) /\ TrueSearch(e)
  <2> DEFINE e == Event(type)
  <2>1. ~Login(e) /\ ~Change(e) /\ ~Send(e) /\ TrueSearch(e)
    BY DEF Event, Login, Change, Send, TrueSearch, Searches
  <2>2. toWallet' = Append(toWallet, e) /\ IsList(toWallet)
    BY <1>2 DEF Request, ShapeInv
  <2> HIDE DEF e
  <2>3. Moved(toWallet, toWallet', 0, {e}) /\ IsList(toWallet')
    BY <2>2, MovedAppend, ListAppend
  <2>4. \A x \in {e} : ~Login(x) /\ ~Change(x) /\ ~Send(x) /\ TrueSearch(x)
    BY <2>1
  <2> QED
    BY <2>3, <2>4
<1> QED
  BY <1>1, <1>2 DEF Asks

\* The interface shows what it is told.
LEMMA PlainEventKeeps ==
    ASSUME WalletInv, NEW types, OnUIEvent(types), Asks,
           types \cap {"InitializeUITabs", "AddBlock", "AccountAddedSuccesfully", "AddAccountError"} = {},
           DOMAIN ui' = UIFields, ui'.sensitive = ui.sensitive, ui'.selected = ui.selected, ui'.dropdown = ui.dropdown,
           ui'.blocks = ui.blocks, ui'.st = ui.st
    PROVE  WalletInv' /\ UNCHANGED trackVars
<1>1. ShapeInv /\ AccountsInv /\ BlocksInv
  BY DEF WalletInv
<1>2. /\ Moved(toUI, toUI', 1, {}) /\ IsList(toUI') /\ toUI[1].type \in types
      /\ UNCHANGED <<headers, header_heights, again, blocks, handler, accounts, current, wallet, made>> /\ UNCHANGED trackVars
  BY <1>1, UITakes
<1>3. PICK E : /\ Moved(toWallet, toWallet', 0, E) /\ IsList(toWallet')
               /\ \A e \in E : ~Login(e) /\ ~Change(e) /\ ~Send(e) /\ TrueSearch(e)
  BY <1>1, AsksMoves
<1>4. SameNames /\ SameChoice
  BY <1>1, <1>2 DEF SameNames, SameChoice, ShapeInv
<1>5. /\ ~Added(toUI[1]) /\ toUI[1].type \notin {"InitializeUITabs", "AddBlock"}
  BY <1>2 DEF Added
<1>6. AccountsInv'
  <2>1. \A e \in E : ~Login(e) /\ ~Change(e) /\ (Send(e) => e.shown = ui.selected)
    BY <1>3
  <2> QED
    BY <1>1, <1>2, <1>3, <1>4, <1>5, <2>1, AccountsKept
<1>7. BlocksInv'
  <2>1. SamePhase /\ \A e \in E : TrueSearch(e)
    BY <1>2, <1>3 DEF SamePhase
  <2> QED
    BY <1>1, <1>2, <1>3, <1>5, <2>1, BlocksKept
<1>8. ShapeInv'
  BY <1>1, <1>2, <1>3 DEF ShapeInv
<1> QED
  BY <1>2, <1>6, <1>7, <1>8 DEF WalletInv

\* A login is answered.
LEMMA AccountTabKeepsAll == ASSUME WalletInv, account_tab PROVE WalletInv' /\ UNCHANGED trackVars
<1>1. ShapeInv /\ AccountsInv /\ BlocksInv
  BY DEF WalletInv
<1>2. /\ Moved(toUI, toUI', 1, {}) /\ IsList(toUI') /\ toUI[1].type \in {"AccountAddedSuccesfully", "AddAccountError"}
      /\ UNCHANGED <<headers, header_heights, again, blocks, handler, accounts, current, wallet, made>> /\ UNCHANGED trackVars
  BY <1>1, UITakes DEF account_tab
<1>3. /\ ui' = [[ui EXCEPT !.sensitive = TRUE] EXCEPT
                   !.dropdown = IF Head(toUI).type = "AddAccountError" THEN @ ELSE Append(@, Head(toUI).address)]
      /\ toWallet' = toWallet
  BY DEF account_tab, enable_buttons_and_entries
<1>4. /\ DOMAIN ui' = UIFields /\ ui'.selected = ui.selected /\ ui'.blocks = ui.blocks /\ ui'.st = ui.st
      /\ ui'.dropdown = IF Head(toUI).type = "AddAccountError" THEN ui.dropdown ELSE Append(ui.dropdown, Head(toUI).address)
  BY <1>1, <1>3 DEF ShapeInv, UIFields
<1>5. IsList(ui'.dropdown)
  BY <1>1, <1>4, ListAppend DEF ShapeInv
<1>6. ShapeInv'
  BY <1>1, <1>2, <1>3, <1>4, <1>5 DEF ShapeInv
<1>7. Moved(toWallet, toWallet', 0, {})
  BY <1>1, <1>3, MovedNot DEF ShapeInv
<1>8. BlocksInv'
  <2>1. SamePhase /\ toUI[1].type \notin {"InitializeUITabs", "AddBlock"}
    BY <1>2 DEF SamePhase
  <2> QED
    BY <1>1, <1>2, <1>4, <1>7, <2>1, BlocksKept
<1>9. AccountsInv'
  BY <1>1, AccountTabKeeps
<1> QED
  BY <1>2, <1>6, <1>8, <1>9 DEF WalletInv

\* After the first event is taken the others are still there, and no other.
LEMMA OthersStay ==
    ASSUME Moved(toUI, toUI', 1, {})
    PROVE  /\ \A j \in DOMAIN toUI' : \E k \in DOMAIN toUI : k # 1 /\ toUI'[j] = toUI[k]
           /\ \A k \in DOMAIN toUI : k # 1 => \E j \in DOMAIN toUI' : toUI'[j] = toUI[k]
<1>1. /\ \A j \in DOMAIN toUI' : j \in Nat /\ j + 1 \in DOMAIN toUI /\ toUI'[j] = toUI[j + 1]
      /\ \A k \in DOMAIN toUI : k \in Nat /\ (k > 1 => k - 1 \in DOMAIN toUI' /\ toUI'[k - 1] = toUI[k])
  BY OldEvents
<1>2. DOMAIN toUI = 1 .. Len(toUI) /\ Len(toUI) \in Nat /\ DOMAIN toUI' = 1 .. Len(toUI') /\ Len(toUI') \in Nat
  BY DEF Moved
<1>3. \A j \in DOMAIN toUI' : j + 1 # 1
  BY <1>2
<1>4. \A k \in DOMAIN toUI : k # 1 => k > 1
  BY <1>2
<1> QED
  BY <1>1, <1>3, <1>4

\* A block is listed.
LEMMA AddBlockKeeps == ASSUME WalletInv, handle_add_block PROVE WalletInv' /\ UNCHANGED trackVars
<1>1. ShapeInv /\ AccountsInv /\ BlocksInv
  BY DEF WalletInv
<1>2. /\ Moved(toUI, toUI', 1, {}) /\ IsList(toUI') /\ toUI[1].type = "AddBlock" /\ 1 \in DOMAIN toUI /\ Head(toUI) = toUI[1]
      /\ UNCHANGED <<headers, header_heights, again, blocks, handler, accounts, current, wallet, made>> /\ UNCHANGED trackVars
  BY <1>1, UITakes DEF handle_add_block
<1>3. Asks
  BY DEF handle_add_block, Asks
<1>4. PICK E : /\ Moved(toWallet, toWallet', 0, E) /\ IsList(toWallet')
               /\ \A e \in E : ~Login(e) /\ ~Change(e) /\ ~Send(e) /\ TrueSearch(e)
  BY <1>1, <1>3, AsksMoves
<1> DEFINE b == toUI[1].block
<1>5. ui' = [ui EXCEPT !.blocks = <<b>> \o ui.blocks]
  BY <1>2 DEF handle_add_block
<1>6. /\ DOMAIN ui' = UIFields /\ ui'.sensitive = ui.sensitive /\ ui'.selected = ui.selected /\ ui'.dropdown = ui.dropdown
      /\ ui'.st = ui.st /\ ui'.blocks = <<b>> \o ui.blocks
  BY <1>1, <1>5 DEF ShapeInv, UIFields
<1> HIDE DEF b
<1>7. IsList(ui'.blocks) /\ Range(ui'.blocks) = {b} \cup Range(ui.blocks)
  <2>1. IsList(<<b>>) /\ Range(<<b>>) = {b} /\ IsList(ui.blocks)
    BY <1>1, ShortLists DEF ShapeInv
  <2> DEFINE one == <<b>>
  <2> HIDE DEF one
  <2>2. IsList(one \o ui.blocks) /\ Range(one \o ui.blocks) = Range(one) \cup Range(ui.blocks)
    BY <2>1, ListConcatRange DEF one
  <2> QED
    BY <1>6, <2>1, <2>2 DEF one
<1>8. ShapeInv'
  BY <1>1, <1>2, <1>4, <1>6, <1>7 DEF ShapeInv
<1>9. AccountsInv'
  <2>1. \A e \in E : ~Login(e) /\ ~Change(e) /\ (Send(e) => e.shown = ui.selected)
    BY <1>4
  <2>2. SameNames /\ SameChoice /\ ~Added(toUI[1])
    BY <1>1, <1>2, <1>6 DEF SameNames, SameChoice, ShapeInv, Added
  <2> QED
    BY <1>1, <1>2, <1>4, <2>1, <2>2, AccountsKept
<1>10. /\ \A j \in DOMAIN toUI' : \E k \in DOMAIN toUI : k # 1 /\ toUI'[j] = toUI[k]
       /\ \A k \in DOMAIN toUI : k # 1 => \E j \in DOMAIN toUI' : toUI'[j] = toUI[k]
  BY <1>2, OthersStay
<1>11. StoredInv' /\ HeightsInv' /\ PanickedInv'
  BY <1>1, <1>2, <1>6 DEF BlocksInv, StoredInv, HeightsInv, PanickedInv
<1>12. OpeningInv'
  <2>1. ui.st # "starting"
    BY <1>1, <1>2 DEF BlocksInv, OpeningInv
  <2> QED
    BY <1>1, <1>6, <1>10, <2>1 DEF BlocksInv, OpeningInv
<1>13. SearchInv'
  <2>1. \A i \in DOMAIN toWallet' : toWallet'[i] \in E \/ (i + 0 \in DOMAIN toWallet /\ toWallet'[i] = toWallet[i + 0])
    BY <1>4, OldEvents
  <2>2. \A k \in DOMAIN toWallet' : TrueSearch(toWallet'[k])
    BY <1>1, <1>4, <2>1 DEF BlocksInv, SearchInv, TrueSearch
  <2> QED
    BY <1>1, <1>2, <1>10, <2>2 DEF BlocksInv, SearchInv, TrueSearch, TrueAnswer
<1>14. ListedInv'
  <2>1. b \in DOMAIN blocks
    BY <1>1, <1>2 DEF BlocksInv, ListedInv, b
  <2>2. \A x \in Range(ui'.blocks) : x \in DOMAIN blocks
    BY <1>1, <1>7, <2>1 DEF BlocksInv, ListedInv, Range
  <2>3. ASSUME NEW x \in DOMAIN blocks, x > AMOUNT_TO_SHOW
        PROVE  x \in Range(ui'.blocks) \/ \E j \in DOMAIN toUI' : toUI'[j].type = "AddBlock" /\ toUI'[j].block = x
    <3>1. CASE \E i \in DOMAIN ui.blocks : ui.blocks[i] = x
      BY <1>7, <3>1 DEF Range
    <3>2. ASSUME NEW k \in DOMAIN toUI, toUI[k].type = "AddBlock", toUI[k].block = x
          PROVE  x \in Range(ui'.blocks) \/ \E j \in DOMAIN toUI' : toUI'[j].type = "AddBlock" /\ toUI'[j].block = x
      <4>1. CASE k = 1
        BY <1>7, <3>2, <4>1 DEF b
      <4>2. CASE k # 1
        BY <1>10, <3>2, <4>2
      <4> QED
        BY <4>1, <4>2
    <3> QED
      BY <1>1, <2>3, <3>1, <3>2 DEF BlocksInv, ListedInv
  <2>4. \A j \in DOMAIN toUI' : toUI'[j].type = "AddBlock" => toUI'[j].block \in DOMAIN blocks
    BY <1>1, <1>10 DEF BlocksInv, ListedInv
  <2> QED
    BY <1>2, <2>2, <2>3, <2>4 DEF ListedInv, Range
<1> QED
  BY <1>2, <1>8, <1>9, <1>11, <1>12, <1>13, <1>14 DEF WalletInv, BlocksInv

\* The main window opens, or the interface stops because a block is missing.
LEMMA MainWindowKeeps == ASSUME WalletInv, render_main_window PROVE WalletInv' /\ UNCHANGED trackVars
<1> DEFINE shown == [i \in 1 .. AMOUNT_TO_SHOW |-> headers + 1 - i]
<1>1. ShapeInv /\ AccountsInv /\ BlocksInv
  BY DEF WalletInv
<1>2. /\ Moved(toUI, toUI', 1, {}) /\ IsList(toUI') /\ toUI[1].type = "InitializeUITabs" /\ 1 \in DOMAIN toUI
      /\ UNCHANGED <<headers, header_heights, again, blocks, handler, accounts, current, wallet, made>> /\ UNCHANGED trackVars
  BY <1>1, UITakes DEF render_main_window
<1>3. toWallet' = toWallet /\ ui' = initialize_blocks_tab(ui)
  BY DEF render_main_window
<1>4. ui.st = "starting" /\ ui.blocks = <<>>
  BY <1>1, <1>2 DEF BlocksInv, OpeningInv
<1>5. IsList(shown) /\ AMOUNT_TO_SHOW \in Nat
  <2>1. AMOUNT_TO_SHOW \in Nat /\ shown = [i \in 1 .. AMOUNT_TO_SHOW |-> shown[i]]
    BY WalletAssumption
  <2> HIDE DEF shown
  <2> QED
    BY <2>1, ListOf
<1>6. \/ /\ Range(shown) \subseteq DOMAIN blocks
         /\ ui' = [ui EXCEPT !.st = "open", !.blocks = shown]
      \/ /\ ~(Range(shown) \subseteq DOMAIN blocks)
         /\ ui' = [ui EXCEPT !.st = "panicked"]
  BY <1>3 DEF initialize_blocks_tab
<1>7. ASSUME ~(Range(shown) \subseteq DOMAIN blocks)
      PROVE  \E b \in (headers + 1 - AMOUNT_TO_SHOW) .. headers :
                b \notin DOMAIN blocks /\ (b <= AMOUNT_TO_SHOW \/ b = handler.block)
  <2>1. headers \in Nat /\ headers >= AMOUNT_TO_SHOW
    BY <1>1 DEF BlocksInv, StoredInv
  <2>2. PICK i \in 1 .. AMOUNT_TO_SHOW : headers + 1 - i \notin DOMAIN blocks
    BY <1>7 DEF Range
  <2> DEFINE b == headers + 1 - i
  <2>3. b \in (headers + 1 - AMOUNT_TO_SHOW) .. headers /\ b \in 1 .. headers
    BY <1>5, <2>1
  <2>4. b <= AMOUNT_TO_SHOW \/ b = handler.block
    <3>1. b > AMOUNT_TO_SHOW => b \in DOMAIN blocks \/ (b = headers /\ handler.at \in BlockPhases)
      BY <1>1, <2>3 DEF BlocksInv, StoredInv
    <3>2. b > AMOUNT_TO_SHOW \/ b <= AMOUNT_TO_SHOW
      BY <1>5, <2>3
    <3> QED
      BY <1>1, <2>2, <3>1, <3>2 DEF BlocksInv, StoredInv
  <2> QED
    BY <2>2, <2>3, <2>4
<1> HIDE DEF shown
<1>8. /\ DOMAIN ui' = UIFields /\ ui'.sensitive = ui.sensitive /\ ui'.selected = ui.selected /\ ui'.dropdown = ui.dropdown
      /\ \/ ui'.st = "open" /\ ui'.blocks = shown /\ Range(shown) \subseteq DOMAIN blocks
         \/ ui'.st = "panicked" /\ ui'.blocks = ui.blocks /\ ~(Range(shown) \subseteq DOMAIN blocks)
  <2>1. CASE ui' = [ui EXCEPT !.st = "open", !.blocks = shown] /\ Range(shown) \subseteq DOMAIN blocks
    BY <1>1, <2>1 DEF ShapeInv, UIFields
  <2>2. CASE ui' = [ui EXCEPT !.st = "panicked"] /\ ~(Range(shown) \subseteq DOMAIN blocks)
    BY <1>1, <2>2 DEF ShapeInv, UIFields
  <2> QED
    BY <1>6, <2>1, <2>2
<1>9. IsList(ui'.blocks) /\ ui'.st \in {"open", "panicked"}
  BY <1>1, <1>5, <1>8 DEF ShapeInv
<1>10. ShapeInv'
  BY <1>1, <1>2, <1>3, <1>8, <1>9 DEF ShapeInv
<1>11. Moved(toWallet, toWallet', 0, {})
  BY <1>1, <1>3, MovedNot DEF ShapeInv
<1>12. AccountsInv'
  <2>1. SameNames /\ SameChoice /\ ~Added(toUI[1])
    BY <1>1, <1>2, <1>8 DEF SameNames, SameChoice, ShapeInv, Added
  <2> QED
    BY <1>1, <1>2, <1>11, <2>1, AccountsKept
<1>13. /\ \A j \in DOMAIN toUI' : \E k \in DOMAIN toUI : k # 1 /\ toUI'[j] = toUI[k]
       /\ \A k \in DOMAIN toUI : k # 1 => \E j \in DOMAIN toUI' : toUI'[j] = toUI[k]
  BY <1>2, OthersStay
<1>14. StoredInv' /\ HeightsInv' /\ PanickedInv'
  BY <1>1, <1>2, <1>7, <1>8 DEF BlocksInv, StoredInv, HeightsInv, PanickedInv
<1>15. OpeningInv' /\ SearchInv'
  BY <1>1, <1>2, <1>3, <1>9, <1>13 DEF BlocksInv, OpeningInv, SearchInv, TrueAnswer
<1>16. ListedInv'
  <2>1. \A i \in DOMAIN ui'.blocks : ui'.blocks[i] \in DOMAIN blocks
    BY <1>1, <1>8 DEF BlocksInv, ListedInv, Range
  <2>2. \A j \in DOMAIN toUI' : toUI'[j].type = "AddBlock" => toUI'[j].block \in DOMAIN blocks
    BY <1>1, <1>13 DEF BlocksInv, ListedInv
  <2>3. ASSUME NEW x \in DOMAIN blocks, x > AMOUNT_TO_SHOW
        PROVE  \E j \in DOMAIN toUI' : toUI'[j].type = "AddBlock" /\ toUI'[j].block = x
    <3>1. DOMAIN ui.blocks = {}
      BY <1>4
    <3>2. PICK k \in DOMAIN toUI : toUI[k].type = "AddBlock" /\ toUI[k].block = x
      BY <1>1, <2>3, <3>1 DEF BlocksInv, ListedInv
    <3>3. k # 1
      BY <1>2, <3>2
    <3> QED
      BY <1>13, <3>2, <3>3
  <2> QED
    BY <1>2, <2>1, <2>2, <2>3 DEF ListedInv
<1> QED
  BY <1>2, <1>10, <1>12, <1>14, <1>15, <1>16 DEF WalletInv, BlocksInv

\* Every step of the interface keeps the invariant.
LEMMA UIStepKeeps == ASSUME WalletInv, UIStep PROVE WalletInv' /\ UNCHANGED trackVars
<1>1. DOMAIN ui = UIFields
  BY DEF WalletInv, ShapeInv
<1>2. CASE account_changed
  <2> DEFINE b == Head(toUI).balance
             r == [i \in 1 .. RecentRows |-> NoRow]
  <2>1. OnUIEvent({"AccountChanged"}) /\ Request(Event("GetTransactionsRequest")) /\ ui' = [ui EXCEPT !.balance = b, !.recent = r]
    BY <1>2 DEF account_changed, update_overview
  <2> HIDE DEF b, r
  <2>2. Asks
    BY <2>1 DEF Asks
  <2>3. /\ DOMAIN ui' = UIFields /\ ui'.sensitive = ui.sensitive /\ ui'.selected = ui.selected /\ ui'.dropdown = ui.dropdown
        /\ ui'.blocks = ui.blocks /\ ui'.st = ui.st
    BY <1>1, <2>1 DEF UIFields
  <2> QED
    BY <2>1, <2>2, <2>3, PlainEventKeeps
<1>3. CASE render_transactions
  <2> DEFINE t == Head(toUI).rows
             r == render_recent_transactions(t, ui.recent)
  <2>1. OnUIEvent({"UpdateTransactions"}) /\ toWallet' = toWallet /\ ui' = [ui EXCEPT !.table = t, !.recent = r]
    BY <1>3 DEF render_transactions
  <2> HIDE DEF t, r
  <2>2. Asks
    BY <2>1 DEF Asks
  <2>3. /\ DOMAIN ui' = UIFields /\ ui'.sensitive = ui.sensitive /\ ui'.selected = ui.selected /\ ui'.dropdown = ui.dropdown
        /\ ui'.blocks = ui.blocks /\ ui'.st = ui.st
    BY <1>1, <2>1 DEF UIFields
  <2> QED
    BY <2>1, <2>2, <2>3, PlainEventKeeps
<1>4. CASE transactions_changed
  <2>1. OnUIEvent({"ShowPendingTransaction", "ShowConfirmedTransaction", "NewPendingTx"}) /\ Asks /\ ui' = ui
    BY <1>4 DEF transactions_changed, Asks
  <2> QED
    BY <1>1, <2>1, PlainEventKeeps
<1>5. CASE show_dialog_message_pop_up
  <2>1. /\ OnUIEvent({"ChangeAccountError", "MakeTransactionStatus", "BlockFound", "HeaderFound", "NotFound", "POIResult"})
        /\ Asks /\ ui' = ui
    BY <1>5 DEF show_dialog_message_pop_up, Asks
  <2> QED
    BY <1>1, <2>1, PlainEventKeeps
<1> QED
  BY <1>2, <1>3, <1>4, <1>5, MainWindowKeeps, AccountTabKeepsAll, AddBlockKeeps DEF UIStep

--------------------------------------------------------------------------------
(***************************************************************************)
(* The steps of the wallet.                                                *)
(***************************************************************************)
\* The wallet answers with events that say what is true.
LEMMA AnswerKeeps ==
    ASSUME WalletInv, NEW type, OnWalletEvent(type), type # "ChangeAccount",
           UNCHANGED <<accounts, current, wallet, made, network, late, again>>,
           NEW F, Moved(toUI, toUI', 0, F), \A e \in F : TrueEvent(e) /\ ~Reply(e)
    PROVE  WalletInv' /\ UNCHANGED trackVars
<1>1. ShapeInv /\ AccountsInv /\ BlocksInv
  BY DEF WalletInv
<1>2. /\ Moved(toWallet, toWallet', 1, {}) /\ toWallet[1].type = type
      /\ UNCHANGED <<chainVars, handler, uiVars, received>>
  BY <1>1, WalletTakes
<1>3. UNCHANGED <<headers, header_heights, again, blocks, handler, ui>> /\ UNCHANGED trackVars
  BY <1>2 DEF chainVars, uiVars, trackVars
<1>4. SameNames /\ SameChoice /\ ~Change(toWallet[1])
  BY <1>1, <1>2, <1>3 DEF SameNames, SameChoice, ShapeInv, Change
<1>5. AccountsInv'
  <2>1. \A e \in F : ~Reply(e)
    OBVIOUS
  <2> QED
    BY <1>1, <1>2, <1>4, <2>1, AccountsKept
<1>6. BlocksInv'
  <2>1. SamePhase /\ \A e \in F : TrueEvent(e)
    BY <1>3 DEF SamePhase
  <2> QED
    BY <1>1, <1>2, <1>3, <2>1, BlocksKept
<1>7. IsList(toWallet') /\ IsList(toUI')
  BY <1>2 DEF Moved
<1>8. ShapeInv'
  BY <1>1, <1>3, <1>7 DEF ShapeInv
<1> QED
  BY <1>3, <1>5, <1>6, <1>8 DEF WalletInv

\* One event, or none.
LEMMA OneAnswerKeeps ==
    ASSUME WalletInv, NEW type, OnWalletEvent(type), type # "ChangeAccount",
           UNCHANGED <<accounts, current, wallet, made, network, late, again>>,
           NEW e, Show(<<>>) \/ (Show(<<e>>) /\ TrueEvent(e) /\ ~Reply(e))
    PROVE  WalletInv' /\ UNCHANGED trackVars
<1>1. ShapeInv
  BY DEF WalletInv
<1>2. CASE Show(<<>>)
  <2>1. Moved(toUI, toUI', 0, {})
    BY <1>1, <1>2, ShowMoves, ShortLists
  <2> QED
    BY <2>1, AnswerKeeps
<1>3. CASE Show(<<e>>) /\ TrueEvent(e) /\ ~Reply(e)
  <2>1. Moved(toUI, toUI', 0, {e})
    BY <1>1, <1>3, ShowMoves, ShortLists
  <2>2. \A x \in {e} : TrueEvent(x) /\ ~Reply(x)
    BY <1>3
  <2> QED
    BY <2>1, <2>2, AnswerKeeps
<1> QED
  BY <1>2, <1>3

\* What a search finds.
LEMMA SearchesKeep ==
    ASSUME WalletInv, handle_search_block \/ handle_search_header \/ handle_poi
    PROVE  WalletInv' /\ UNCHANGED trackVars
<1>1. ShapeInv /\ BlocksInv
  BY DEF WalletInv
<1>2. ASSUME NEW type \in Searches, OnWalletEvent(type)
      PROVE  Head(toWallet).listed => Head(toWallet).hash \in DOMAIN blocks /\ Head(toWallet).hash \in 1 .. headers
  <2>1. Head(toWallet) = toWallet[1] /\ 1 \in DOMAIN toWallet /\ toWallet[1].type \in Searches
    BY <1>1, <1>2, WalletTakes
  <2>2. toWallet[1].listed => toWallet[1].hash \in DOMAIN blocks
    BY <1>1, <2>1 DEF BlocksInv, SearchInv
  <2>3. \A b \in DOMAIN blocks : b \in 1 .. headers
    BY <1>1 DEF BlocksInv, StoredInv
  <2> QED
    BY <2>1, <2>2, <2>3
<1>3. CASE handle_search_block
  <2> DEFINE e == IF search_block(Head(toWallet).hash) THEN Event("BlockFound")
                  ELSE [type |-> "NotFound", request |-> Head(toWallet)]
  <2>1. OnWalletEvent("SearchBlock") /\ Show(<<e>>) /\ UNCHANGED <<accounts, current, wallet, made, network, late, again>>
    BY <1>3 DEF handle_search_block, walletVars, histVars
  <2>2. Head(toWallet).listed => search_block(Head(toWallet).hash)
    BY <1>2, <2>1 DEF Searches, search_block
  <2>3. TrueEvent(e) /\ ~Reply(e)
    <3>1. CASE search_block(Head(toWallet).hash)
      BY <3>1 DEF Event, TrueEvent, TrueAnswer, Reply
    <3>2. CASE ~search_block(Head(toWallet).hash)
      BY <2>2, <3>2 DEF TrueEvent, TrueAnswer, Reply
    <3> QED
      BY <3>1, <3>2
  <2> HIDE DEF e
  <2> QED
    BY <2>1, <2>3, OneAnswerKeeps
<1>4. CASE handle_search_header
  <2> DEFINE b == Head(toWallet).hash
             found == search_header(b)
             e == IF found # 0 THEN [type |-> "HeaderFound", request |-> Head(toWallet), header |-> found]
                  ELSE [type |-> "NotFound", request |-> Head(toWallet)]
  <2>1. OnWalletEvent("SearchHeader") /\ Show(<<e>>) /\ UNCHANGED <<accounts, current, wallet, made, network, late, again>>
    BY <1>4 DEF handle_search_header, walletVars, histVars
  <2>2. Head(toWallet).type = "SearchHeader"
    BY <2>1 DEF OnWalletEvent
  <2>3. Head(toWallet).listed => b \in 1 .. headers
    BY <1>2, <2>1 DEF Searches
  <2>4. found # 0 => found = b \/ b \in again
    BY <1>1 DEF search_header, BlocksInv, HeightsInv
  <2>5. found = 0 /\ Head(toWallet).listed => b \in again
    BY <1>1, <2>3 DEF search_header, BlocksInv, StoredInv, HeightsInv
  <2> HIDE DEF found
  <2>6. TrueEvent(e) /\ ~Reply(e)
    <3>1. CASE found # 0
      BY <2>4, <3>1 DEF TrueEvent, TrueAnswer, Reply
    <3>2. CASE found = 0
      BY <2>2, <2>5, <3>2 DEF TrueEvent, TrueAnswer, Reply
    <3> QED
      BY <3>1, <3>2
  <2> HIDE DEF e
  <2> QED
    BY <2>1, <2>6, OneAnswerKeeps
<1>5. CASE handle_poi
  <2> DEFINE b == Head(toWallet).hash
             e == [type |-> "POIResult", listed |-> Head(toWallet).listed, found |-> search_block(b),
                   included |-> search_block(b) /\ Contains(blocks[b], Head(toWallet).tx)]
  <2>1. /\ OnWalletEvent("PoiOfTransactionRequest") /\ Show(<<e>>)
        /\ UNCHANGED <<accounts, current, wallet, made, network, late, again>>
    BY <1>5 DEF handle_poi, walletVars, histVars
  <2>2. Head(toWallet).listed => search_block(b)
    BY <1>2, <2>1 DEF Searches, search_block
  <2>3. e.type = "POIResult" /\ (e.listed => Head(toWallet).listed) /\ (search_block(b) => e.found)
    BY Zenon
  <2> HIDE DEF e
  <2>4. TrueEvent(e) /\ ~Reply(e)
    BY <2>2, <2>3 DEF TrueEvent, TrueAnswer, Reply
  <2> QED
    BY <2>1, <2>4, OneAnswerKeeps
<1> QED
  BY <1>3, <1>4, <1>5

\* The present account and its transactions are sent.
LEMMA GettersKeep ==
    ASSUME WalletInv, get_current_account \/ handle_get_transactions
    PROVE  WalletInv' /\ UNCHANGED trackVars
<1>1. CASE get_current_account
  <2> DEFINE e == AccountChanged(current)
  <2>1. /\ OnWalletEvent("GetAccountRequest") /\ (Show(<<>>) \/ Show(<<e>>))
        /\ UNCHANGED <<accounts, current, wallet, made, network, late, again>>
    BY <1>1 DEF get_current_account, walletVars, histVars
  <2>2. TrueEvent(e) /\ ~Reply(e)
    BY DEF AccountChanged, TrueEvent, TrueAnswer, Reply
  <2> HIDE DEF e
  <2> QED
    BY <2>1, <2>2, OneAnswerKeeps
<1>2. CASE handle_get_transactions
  <2> DEFINE rows == get_transactions(accounts[current]).val
             e == [type |-> "UpdateTransactions", rows |-> rows]
  <2>1. /\ OnWalletEvent("GetTransactionsRequest") /\ (Show(<<>>) \/ Show(<<e>>))
        /\ UNCHANGED <<accounts, current, wallet, made, network, late, again>>
    BY <1>2 DEF handle_get_transactions, walletVars, histVars
  <2>2. TrueEvent(e) /\ ~Reply(e)
    BY DEF TrueEvent, TrueAnswer, Reply
  <2> HIDE DEF e
  <2> QED
    BY <2>1, <2>2, OneAnswerKeeps
<1> QED
  BY <1>1, <1>2

\* The blocks do not change when the wallet takes an event.
LEMMA WalletBlocksKept ==
    ASSUME WalletInv, NEW type, OnWalletEvent(type), again' = again,
           NEW F, Moved(toUI, toUI', 0, F), \A e \in F : TrueEvent(e)
    PROVE  BlocksInv' /\ IsList(toWallet') /\ IsList(toUI') /\ UNCHANGED <<headers, header_heights, again, blocks, handler, ui>>
<1>1. ShapeInv /\ BlocksInv
  BY DEF WalletInv
<1>2. /\ Moved(toWallet, toWallet', 1, {})
      /\ UNCHANGED <<chainVars, handler, uiVars, received>>
  BY <1>1, WalletTakes
<1>3. UNCHANGED <<headers, header_heights, again, blocks, handler, ui>>
  BY <1>2 DEF chainVars, uiVars
<1>4. SamePhase
  BY <1>3 DEF SamePhase
<1>5. BlocksInv'
  BY <1>1, <1>2, <1>3, <1>4, BlocksKept
<1>6. IsList(toWallet') /\ IsList(toUI')
  BY <1>2 DEF Moved
<1> QED
  BY <1>3, <1>5, <1>6

LEMMA ChangeAccountKeepsAll == ASSUME WalletInv, change_account PROVE WalletInv' /\ UNCHANGED trackVars
<1>1. ShapeInv /\ AccountsInv
  BY DEF WalletInv
<1> DEFINE e == AccountChanged(Head(toWallet).index)
           f == Event("ChangeAccountError")
<1>2. /\ OnWalletEvent("ChangeAccount") /\ UNCHANGED <<accounts, wallet, made, network, late, again>>
      /\ \/ Show(<<f>>) /\ current' = current
         \/ Show(<<e>>) /\ current' = Head(toWallet).index
  BY DEF change_account, histVars
<1>3. TrueEvent(e) /\ TrueEvent(f)
  BY DEF AccountChanged, Event, TrueEvent, TrueAnswer
<1> HIDE DEF e, f
<1>4. \E F : Moved(toUI, toUI', 0, F) /\ \A x \in F : TrueEvent(x)
  <2>1. ASSUME Show(<<f>>) PROVE Moved(toUI, toUI', 0, {f})
    BY <1>1, <2>1, ShowMoves, ShortLists
  <2>2. ASSUME Show(<<e>>) PROVE Moved(toUI, toUI', 0, {e})
    BY <1>1, <2>2, ShowMoves, ShortLists
  <2> QED
    BY <1>2, <1>3, <2>1, <2>2
<1>5. BlocksInv' /\ IsList(toWallet') /\ IsList(toUI') /\ UNCHANGED <<headers, header_heights, again, blocks, handler, ui>>
  BY <1>2, <1>4, WalletBlocksKept
<1>6. AccountsInv'
  BY <1>1, ChangeAccountKeeps
<1>7. current' \in Nat
  <2>1. IsList(ui.dropdown)
    BY <1>1 DEF ShapeInv
  <2>2. current' # 0 => current' \in DOMAIN ui'.dropdown
    BY <1>6 DEF AccountsInv, SelectInv
  <2>3. \A i \in DOMAIN ui.dropdown : i \in Nat
    BY <2>1 DEF IsList
  <2> QED
    BY <1>5, <2>2, <2>3
<1>8. ShapeInv'
  BY <1>1, <1>2, <1>5, <1>7 DEF ShapeInv
<1> QED
  BY <1>2, <1>5, <1>6, <1>8 DEF WalletInv, trackVars

LEMMA AddAccountKeepsAll == ASSUME WalletInv, add_account PROVE WalletInv' /\ UNCHANGED trackVars
<1>1. ShapeInv /\ AccountsInv
  BY DEF WalletInv
<1> DEFINE new == new_account(Head(toWallet).wif, Head(toWallet).address)
           rec == [address |-> Head(toWallet).address, private_key |-> Head(toWallet).wif, utxo_set |-> {},
                   pending |-> <<>>, confirmed |-> <<>>]
           acc == [new.val EXCEPT !.utxo_set = utxos_referenced_to_account(utxo_set, new.val.address)]
           f == Event("AddAccountError")
<1>2. /\ OnWalletEvent("AddAccountRequest") /\ UNCHANGED <<accounts, current, made, network, late, again>>
      /\ \/ Show(<<f>>) /\ wallet' = wallet
         \/ new.st = "ok" /\ wallet' = [at |-> "adding", account |-> acc] /\ toUI' = toUI
  BY DEF add_account, histVars
<1>3. new.st = "ok" => new.val = rec
  BY DEF new_account, Error, Ok
<1>4. IsAccount(rec) /\ rec.pending = <<>>
  <2>1. IsList(<<>>)
    BY ShortLists
  <2> QED
    BY <2>1 DEF IsAccount
<1>5. TrueEvent(f)
  BY DEF Event, TrueEvent, TrueAnswer
<1> HIDE DEF f, new, rec
<1>6. new.st = "ok" => IsAccount(acc) /\ acc.pending = <<>>
  BY <1>3, <1>4 DEF IsAccount
<1> HIDE DEF acc
<1>7. \E F : Moved(toUI, toUI', 0, F) /\ \A x \in F : TrueEvent(x)
  <2>1. ASSUME Show(<<f>>) PROVE Moved(toUI, toUI', 0, {f})
    BY <1>1, <2>1, ShowMoves, ShortLists
  <2>2. ASSUME toUI' = toUI PROVE Moved(toUI, toUI', 0, {})
    BY <1>1, <2>2, MovedNot DEF ShapeInv
  <2> QED
    BY <1>2, <1>5, <2>1, <2>2
<1>8. BlocksInv' /\ IsList(toWallet') /\ IsList(toUI') /\ UNCHANGED <<headers, header_heights, again, blocks, handler, ui>>
  BY <1>2, <1>7, WalletBlocksKept
<1>9. wallet'.at = "adding" => IsAccount(wallet'.account) /\ wallet'.account.pending = <<>>
  BY <1>1, <1>2, <1>6 DEF ShapeInv
<1>10. ShapeInv'
  BY <1>1, <1>2, <1>8, <1>9 DEF ShapeInv
<1>11. AccountsInv'
  BY <1>1, AddAccountKeeps
<1> QED
  BY <1>2, <1>8, <1>10, <1>11 DEF WalletInv, trackVars

\* An account is added that has no transactions.
LEMMA PushAccountKeepsAll ==
    ASSUME WalletInv, push_account
    PROVE  /\ WalletInv' /\ UNCHANGED <<made, handler, blocks, network, late>>
           /\ accounts' = Append(accounts, wallet.account) /\ wallet.account.pending = <<>> /\ ~AccountsRead
<1>1. ShapeInv /\ AccountsInv /\ BlocksInv
  BY DEF WalletInv
<1> DEFINE e == [type |-> "AccountAddedSuccesfully", address |-> wallet.account.address]
<1>2. /\ wallet.at = "adding" /\ wallet' = [at |-> "loop", account |-> NoAccount]
      /\ accounts' = Append(accounts, wallet.account) /\ Show(<<e>>) /\ ~AccountsRead
      /\ UNCHANGED <<headers, header_heights, again, blocks, current, toWallet, handler, ui, made, network, late>>
  BY DEF push_account, chainVars, uiVars, netVars, histVars
<1>3. TrueEvent(e)
  BY DEF TrueEvent, TrueAnswer
<1> HIDE DEF e
<1>4. Moved(toUI, toUI', 0, {e}) /\ Moved(toWallet, toWallet', 0, {})
  BY <1>1, <1>2, ShowMoves, ShortLists, MovedNot DEF ShapeInv
<1>5. BlocksInv'
  <2>1. SamePhase /\ \A x \in {e} : TrueEvent(x)
    BY <1>2, <1>3 DEF SamePhase
  <2> QED
    BY <1>1, <1>2, <1>4, <2>1, BlocksKept
<1>6. IsAccount(wallet.account) /\ wallet.account.pending = <<>> /\ IsList(accounts)
  BY <1>1, <1>2 DEF ShapeInv
<1>7. IsList(accounts') /\ \A i \in DOMAIN accounts' : IsAccount(accounts'[i])
  <2>1. /\ IsList(accounts') /\ Len(accounts) \in Nat /\ DOMAIN accounts = 1 .. Len(accounts)
        /\ DOMAIN accounts' = 1 .. (Len(accounts) + 1)
        /\ (\A k \in 1 .. Len(accounts) : accounts'[k] = accounts[k]) /\ accounts'[Len(accounts) + 1] = wallet.account
    BY <1>2, <1>6, ListAppend
  <2>2. \A i \in 1 .. (Len(accounts) + 1) : i \in 1 .. Len(accounts) \/ i = Len(accounts) + 1
    BY <2>1
  <2> QED
    BY <1>1, <1>6, <2>1, <2>2 DEF ShapeInv
<1>8. IsList(toUI')
  BY <1>4 DEF Moved
<1>9. wallet'.at # "adding"
  BY <1>2
<1>10. ShapeInv'
  BY <1>1, <1>2, <1>7, <1>8, <1>9 DEF ShapeInv
<1>11. AccountsInv'
  BY <1>1, PushAccountKeeps
<1> QED
  BY <1>2, <1>5, <1>6, <1>10, <1>11 DEF WalletInv

\* A payment is made from the account that was shown.
LEMMA MakeTransactionKeeps == ASSUME WalletInv, handle_make_transaction PROVE WalletInv'
<1>1. ShapeInv /\ AccountsInv /\ BlocksInv
  BY DEF WalletInv
<1>2. /\ Moved(toWallet, toWallet', 1, {}) /\ 1 \in DOMAIN toWallet /\ Send(toWallet[1])
      /\ UNCHANGED <<chainVars, handler, ui, clicks, received, current, wallet, raced, late, again>>
  BY <1>1, MakeTransactionIs
<1>3. PICK F : /\ Moved(toUI, toUI', 0, F) /\ \A e \in F : e.type \in {"NewPendingTx", "MakeTransactionStatus"}
               /\ \/ UNCHANGED <<accounts, network, made>>
                  \/ \E tx, p, coins, up :
                        /\ current # 0
                        /\ accounts' = [accounts EXCEPT ![current].pending = Append(@, tx)]
                        /\ network' \subseteq network \cup {tx}
                        /\ made' = Append(made, [tx |-> tx, account |-> current, shown |-> toWallet[1].shown,
                                                 payment |-> p, coins |-> coins, current |-> up])
  BY <1>1, MakeTransactionIs
<1>4. UNCHANGED <<headers, header_heights, again, blocks, handler, ui, current, wallet>>
  BY <1>2 DEF chainVars
<1>5. BlocksInv'
  <2>1. SamePhase /\ \A e \in F : TrueEvent(e)
    BY <1>3, <1>4 DEF SamePhase, TrueEvent, TrueAnswer
  <2> QED
    BY <1>1, <1>2, <1>3, <1>4, <2>1, BlocksKept
<1>6. IsList(toWallet') /\ IsList(toUI')
  BY <1>2, <1>3 DEF Moved
<1>7. (\A e \in F : ~Reply(e) /\ ~Added(e)) /\ ~Change(toWallet[1])
  BY <1>2, <1>3 DEF Reply, Added, Send, Change
<1>8. LoginInv'
  BY <1>1, <1>2, <1>3, <1>4, <1>7, LoginKept DEF AccountsInv
<1>9. SelectInv'
  BY <1>1, <1>2, <1>4, <1>7, SelectKept DEF AccountsInv
<1>10. CASE UNCHANGED <<accounts, network, made>>
  <2>1. SameNames
    BY <1>1, <1>10 DEF SameNames, ShapeInv
  <2>2. NamesInv'
    BY <1>1, <1>3, <1>4, <1>7, <2>1, NamesKept DEF AccountsInv
  <2>3. MadeInv'
    BY <1>1, <1>4, <1>10, MadeKept DEF AccountsInv
  <2>4. ShapeInv'
    BY <1>1, <1>4, <1>6, <1>10 DEF ShapeInv
  <2> QED
    BY <1>5, <1>8, <1>9, <2>2, <2>3, <2>4 DEF WalletInv, AccountsInv
<1>11. ASSUME NEW tx, NEW p, NEW coins, NEW up, current # 0,
              accounts' = [accounts EXCEPT ![current].pending = Append(@, tx)],
              made' = Append(made, [tx |-> tx, account |-> current, shown |-> toWallet[1].shown,
                                    payment |-> p, coins |-> coins, current |-> up])
       PROVE  WalletInv'
  <2> DEFINE x == Append(accounts[current].pending, tx)
             m == [tx |-> tx, account |-> current, shown |-> toWallet[1].shown, payment |-> p, coins |-> coins, current |-> up]
  <2>1. current \in DOMAIN ui.dropdown /\ current \in DOMAIN accounts
    BY <1>1, <1>11 DEF AccountsInv, SelectInv, NamesInv
  <2>2. IsList(x)
    BY <1>1, <2>1, ListAppend DEF ShapeInv, IsAccount
  <2>3. accounts' = [accounts EXCEPT ![current].pending = x]
    BY <1>11
  <2> HIDE DEF x
  <2>4. SameNames /\ \A i \in DOMAIN accounts' : IsAccount(accounts'[i])
    BY <1>1, <2>1, <2>2, <2>3, PendingSet
  <2>5. NamesInv'
    BY <1>1, <1>3, <1>4, <1>7, <2>4, NamesKept DEF AccountsInv
  <2>6. toWallet[1].shown = current
    <3>1. Chosen(toWallet, current, 1, toWallet[1].shown)
      BY <1>1, <1>2 DEF AccountsInv, SelectInv
    <3> QED
      BY <3>1 DEF Chosen
  <2>7. m.account = current /\ m.shown = current
    BY <2>6
  <2>8. made' = Append(made, m) /\ IsList(made)
    BY <1>1, <1>11 DEF ShapeInv
  <2> HIDE DEF m
  <2>9. /\ IsList(made') /\ Len(made) \in Nat /\ DOMAIN made = 1 .. Len(made) /\ DOMAIN made' = 1 .. (Len(made) + 1)
        /\ \A i \in 1 .. Len(made) : made'[i] = made[i]
        /\ made'[Len(made) + 1] = m
    BY <2>8, ListAppend
  <2>10. MadeInv'
    <3>1. \A i \in 1 .. (Len(made) + 1) : i \in 1 .. Len(made) \/ i = Len(made) + 1
      BY <2>9
    <3>2. \A i \in 1 .. Len(made) : made[i].account \in DOMAIN ui.dropdown /\ made[i].shown = made[i].account
      BY <1>1, <2>9 DEF AccountsInv, MadeInv
    <3>3. \A i \in DOMAIN made' : made'[i].account \in DOMAIN ui.dropdown /\ made'[i].shown = made'[i].account
      BY <2>1, <2>7, <2>9, <3>1, <3>2
    <3> QED
      BY <1>4, <3>3 DEF MadeInv
  <2>11. IsList(accounts')
    BY <2>4 DEF SameNames
  <2>12. ShapeInv'
    BY <1>1, <1>4, <1>6, <2>4, <2>9, <2>11 DEF ShapeInv
  <2> QED
    BY <1>5, <1>8, <1>9, <2>5, <2>10, <2>12 DEF WalletInv, AccountsInv
<1> QED
  BY <1>3, <1>10, <1>11

--------------------------------------------------------------------------------
(***************************************************************************)
(* The thread of the peer.                                                 *)
(***************************************************************************)
\* The first of some pairs of numbers is one of them.
LEMMA FirstOfIs ==
    ASSUME NEW S, S \subseteq Nat \X Nat, S # {}
    PROVE  FirstOf(S) \in S /\ \A g \in S : FirstOf(S)[1] < g[1] \/ (FirstOf(S)[1] = g[1] /\ FirstOf(S)[2] <= g[2])
<1> DEFINE T == {s[1] : s \in S}
<1>1. T \subseteq Nat /\ T # {}
  OBVIOUS
<1>2. PICK k \in T : \A m \in T : k <= m
  BY <1>1, LeastElement
<1> DEFINE U == {s[2] : s \in {r \in S : r[1] = k}}
<1>3. U \subseteq Nat /\ U # {}
  BY <1>2
<1>4. PICK i \in U : \A m \in U : i <= m
  <2> HIDE DEF U
  <2> QED
    BY <1>3, LeastElement
<1>5. PICK h \in S : h[1] = k /\ h[2] = i
  BY <1>4
<1>6. ASSUME NEW g \in S PROVE h[1] < g[1] \/ (h[1] = g[1] /\ h[2] <= g[2])
  <2>1. g[1] \in Nat /\ k \in Nat /\ k <= g[1]
    BY <1>1, <1>2
  <2>2. g[1] = k => i <= g[2]
    BY <1>4
  <2> QED
    BY <1>5, <2>1, <2>2
<1>7. \E x \in S : \A g \in S : x[1] < g[1] \/ (x[1] = g[1] /\ x[2] <= g[2])
  BY <1>6
<1> HIDE DEF T, U
<1> QED
  BY <1>7 DEF FirstOf

\* Steps of the thread that begin or end no block.
LEMMA PeerKeeps ==
    ASSUME WalletInv, SameNames, \A i \in DOMAIN accounts' : IsAccount(accounts'[i]),
           UNCHANGED <<headers, header_heights, again, blocks, current, wallet, toWallet, ui, made>>, SamePhase,
           DOMAIN handler' = HandlerFields, handler'.at \in BlockPhases \cup {"idle", "tx_check", "tx_push"},
           NEW F, Moved(toUI, toUI', 0, F), \A e \in F : TrueEvent(e) /\ ~Reply(e)
    PROVE  WalletInv'
<1>1. ShapeInv /\ AccountsInv /\ BlocksInv
  BY DEF WalletInv
<1>2. Moved(toWallet, toWallet', 0, {})
  BY <1>1, MovedNot DEF ShapeInv
<1>3. SameChoice /\ (\A e \in F : TrueEvent(e)) /\ \A e \in F : ~Reply(e)
  BY DEF SameChoice
<1>4. AccountsInv'
  BY <1>1, <1>2, <1>3, AccountsKept
<1>5. BlocksInv'
  BY <1>1, <1>2, <1>3, BlocksKept
<1>6. IsList(toUI') /\ IsList(accounts')
  BY DEF Moved, SameNames
<1>7. ShapeInv'
  BY <1>1, <1>6 DEF ShapeInv
<1> QED
  BY <1>4, <1>5, <1>7 DEF WalletInv

\* The same without an event and without a change of the accounts.
LEMMA PeerMovesOn ==
    ASSUME WalletInv, UNCHANGED <<accounts, toUI>>,
           UNCHANGED <<headers, header_heights, again, blocks, current, wallet, toWallet, ui, made>>, SamePhase,
           DOMAIN handler' = HandlerFields, handler'.at \in BlockPhases \cup {"idle", "tx_check", "tx_push"}
    PROVE  WalletInv'
<1>1. Moved(toUI, toUI', 0, {})
  BY MovedNot DEF WalletInv, ShapeInv
<1>2. SameNames /\ \A i \in DOMAIN accounts' : IsAccount(accounts'[i])
  BY DEF SameNames, WalletInv, ShapeInv
<1> QED
  BY <1>1, <1>2, PeerKeeps

\* The same with one event and a change of the accounts.
LEMMA PeerTells ==
    ASSUME WalletInv, SameNames, \A i \in DOMAIN accounts' : IsAccount(accounts'[i]),
           UNCHANGED <<headers, header_heights, again, blocks, current, wallet, toWallet, ui, made>>, SamePhase,
           DOMAIN handler' = HandlerFields, handler'.at \in BlockPhases \cup {"idle", "tx_check", "tx_push"},
           NEW e, toUI' = Append(toUI, e), TrueEvent(e), ~Reply(e)
    PROVE  WalletInv'
<1>1. IsList(toUI)
  BY DEF WalletInv, ShapeInv
<1>2. Moved(toUI, toUI', 0, {e})
  BY <1>1, MovedAppend
<1>3. \A x \in {e} : TrueEvent(x) /\ ~Reply(x)
  OBVIOUS
<1> QED
  BY <1>2, <1>3, PeerKeeps

\* What a step of the thread leaves alone.
LEMMA PeerLeaves ==
    ASSUME WalletInv, NEW at, OnPeer(at)
    PROVE  /\ UNCHANGED <<accounts, current, wallet, toWallet, ui>> /\ ui.st # "panicked" /\ handler.at = at
           /\ DOMAIN handler = HandlerFields
BY DEF OnPeer, Running, walletVars, uiVars, WalletInv, ShapeInv

\* Idle is a state of the thread.
LEMMA IdleIs == DOMAIN Idle = HandlerFields /\ Idle.at = "idle" /\ Idle.txs = <<>> /\ Idle.place = 1 /\ Idle.account = 1
BY DEF Idle, HandlerFields

\* Only the thread of the peer has moved on.
OnlyPeer == UNCHANGED <<headers, header_heights, again, blocks, current, wallet, toWallet, ui, made>>
IsHandler == DOMAIN handler' = HandlerFields /\ handler'.block = handler.block

\* A transaction is received.
LEMMA TxMessageIs ==
    ASSUME WalletInv, NEW tx, handle_tx_message(tx)
    PROVE  /\ OnlyPeer /\ UNCHANGED <<accounts, toUI, network>> /\ DOMAIN handler' = HandlerFields
           /\ handler.at = "idle" /\ handler'.at = "tx_check" /\ ui.st # "panicked"
           /\ handler'.txs = <<tx>> /\ handler'.place = 1 /\ handler'.account = 1
           /\ tx \in Incoming /\ late \subseteq late' /\ (tx \in MinedTxs => tx \in late')
<1>1. /\ UNCHANGED <<accounts, current, wallet, toWallet, ui>> /\ ui.st # "panicked" /\ handler.at = "idle"
  BY PeerLeaves DEF handle_tx_message
<1>2. /\ handler' = [Idle EXCEPT !.at = "tx_check", !.txs = <<tx>>] /\ UNCHANGED <<toUI, network, made, headers, header_heights, again, blocks>>
      /\ tx \in Incoming /\ late' = IF tx \in MinedTxs THEN late \cup {tx} ELSE late
  BY DEF handle_tx_message, chainVars
<1>3. /\ DOMAIN handler' = HandlerFields /\ handler'.at = "tx_check" /\ handler'.txs = <<tx>>
      /\ handler'.place = 1 /\ handler'.account = 1
  BY <1>2, IdleIs DEF HandlerFields
<1>4. late \subseteq late' /\ (tx \in MinedTxs => tx \in late')
  BY <1>2
<1> QED
  BY <1>1, <1>2, <1>3, <1>4 DEF OnlyPeer

\* The accounts of a transaction: the next one it involves, or the end.
LEMMA InvolvesIs ==
    ASSUME WalletInv, PlaceInv, involves_user_account
    PROVE  /\ OnlyPeer /\ UNCHANGED <<accounts, network, late>> /\ DOMAIN handler' = HandlerFields
           /\ handler.at = "tx_check" /\ ui.st # "panicked"
           /\ \/ toUI' = toUI /\ handler' = Idle
              \/ /\ toUI' = Append(toUI, Event("ShowPendingTransaction"))
                 /\ handler'.at = "tx_push" /\ handler'.txs = handler.txs
                 /\ handler'.place \in Nat /\ handler'.account \in DOMAIN accounts
                 /\ ~Has(accounts[handler'.account].pending, handler.txs[1])
<1>1. /\ UNCHANGED <<accounts, current, wallet, toWallet, ui>> /\ ui.st # "panicked" /\ handler.at = "tx_check"
      /\ DOMAIN handler = HandlerFields
  BY PeerLeaves DEF involves_user_account
<1>2. UNCHANGED <<headers, header_heights, again, blocks, network, made, late>>
  BY DEF involves_user_account, chainVars, netVars, histVars
<1> DEFINE tx == handler.txs[1]
           Involved(k, i) == /\ ~Contains(accounts[i].pending, tx)
                             /\ get_address(tx.outs[k]) = Ok(accounts[i].address)
           all == {pair \in (DOMAIN tx.outs) \X (DOMAIN accounts) : Involved(pair[1], pair[2])}
           hits == ToCome(all)
           h == FirstOf(hits)
<1>3. IF hits = {} THEN handler' = Idle /\ UNCHANGED toUI
      ELSE GotoHit("tx_push", h) /\ toUI' = Append(toUI, Event("ShowPendingTransaction"))
  BY DEF involves_user_account
<1>4. CASE hits = {}
  BY <1>1, <1>2, <1>3, <1>4, IdleIs DEF OnlyPeer
<1>5. CASE hits # {}
  <2>1. /\ hits \subseteq all
        /\ \A g \in all : ~Contains(accounts[g[2]].pending, tx) /\ g[1] \in DOMAIN tx.outs /\ g[2] \in DOMAIN accounts
    BY DEF ToCome
  <2>2. all \subseteq Nat \X Nat
    <3>1. tx \in Incoming
      BY <1>1 DEF PlaceInv
    <3>2. tx.outs \in Seq([value : Int, script : Seq(Int)])
      <4> HIDE DEF tx
      <4>1. \A t \in Incoming : t.outs \in Seq([value : Int, script : Seq(Int)])
        BY WalletAssumption
      <4> QED
        BY <3>1, <4>1
    <3>3. DOMAIN tx.outs \subseteq Nat
      BY <3>2
    <3>4. DOMAIN accounts \subseteq Nat
      BY DEF WalletInv, ShapeInv, IsList
    <3> QED
      BY <3>3, <3>4
  <2>3. GotoHit("tx_push", h) /\ toUI' = Append(toUI, Event("ShowPendingTransaction"))
    BY <1>3, <1>5
  <2> HIDE DEF hits, all
  <2>4. h \in hits
    BY <1>5, <2>1, <2>2, FirstOfIs
  <2> HIDE DEF h
  <2>5. h[1] \in Nat /\ h[2] \in DOMAIN accounts /\ ~Contains(accounts[h[2]].pending, tx)
    BY <2>1, <2>2, <2>4
  <2>6. DOMAIN accounts[h[2]].pending = 1 .. Len(accounts[h[2]].pending)
    BY <2>5 DEF WalletInv, ShapeInv, IsAccount, IsList
  <2>7. ~Has(accounts[h[2]].pending, handler.txs[1])
    BY <2>5, <2>6 DEF Contains, Has
  <2>8. /\ DOMAIN handler' = HandlerFields /\ handler'.at = "tx_push" /\ handler'.txs = handler.txs
        /\ handler'.place = h[1] /\ handler'.account = h[2]
    BY <1>1, <2>3 DEF GotoHit, HandlerFields
  <2> QED
    BY <1>1, <1>2, <2>3, <2>5, <2>7, <2>8 DEF OnlyPeer
<1> QED
  BY <1>4, <1>5

\* The transaction is added to those pending of the account.
LEMMA PushPendingIs ==
    ASSUME WalletInv, PlaceInv, push_pending
    PROVE  /\ OnlyPeer /\ UNCHANGED <<toUI, network, late>> /\ IsHandler /\ ui.st # "panicked"
           /\ handler.at = "tx_push" /\ handler'.at = "tx_check" /\ handler'.txs = handler.txs
           /\ handler'.place = handler.place /\ handler'.account = handler.account + 1
           /\ SameNames /\ \A i \in DOMAIN accounts' : IsAccount(accounts'[i])
           /\ accounts'[handler.account].pending = Append(accounts[handler.account].pending, handler.txs[1])
           /\ accounts'[handler.account].confirmed = accounts[handler.account].confirmed
           /\ \A i \in DOMAIN accounts \ {handler.account} : accounts'[i] = accounts[i]
           /\ SameCoins
<1> DEFINE k == handler.account
           x == Append(accounts[k].pending, handler.txs[1])
<1>1. /\ handler.at = "tx_push" /\ ui.st # "panicked" /\ OnlyPeer /\ UNCHANGED <<toUI, network, late>>
      /\ handler' = [handler EXCEPT !.at = "tx_check", !.account = @ + 1]
      /\ accounts' = [accounts EXCEPT ![k].pending = x]
  BY DEF push_pending, Running, OnlyPeer, chainVars, uiVars, netVars, histVars
<1>2. DOMAIN handler = HandlerFields /\ ShapeInv
  BY DEF WalletInv, ShapeInv
<1>3. /\ IsHandler /\ handler'.at = "tx_check" /\ handler'.txs = handler.txs
      /\ handler'.place = handler.place /\ handler'.account = handler.account + 1
  BY <1>1, <1>2 DEF IsHandler, HandlerFields
<1>4. k \in DOMAIN accounts
  BY <1>1 DEF PlaceInv
<1>5. IsList(x)
  BY <1>2, <1>4, ListAppend DEF ShapeInv, IsAccount
<1> HIDE DEF k, x
<1>6. /\ SameNames /\ \A i \in DOMAIN accounts' : IsAccount(accounts'[i])
      /\ accounts'[k].pending = x /\ accounts'[k].confirmed = accounts[k].confirmed
      /\ \A i \in DOMAIN accounts \ {k} : accounts'[i] = accounts[i]
      /\ SameCoins
  BY <1>1, <1>2, <1>4, <1>5, PendingSet
<1> QED
  BY <1>1, <1>3, <1>6 DEF k, x

\* The unspent outputs are brought up to date.
LEMMA UtxosIs ==
    ASSUME WalletInv, give_me_utxos
    PROVE  /\ OnlyPeer /\ UNCHANGED <<accounts, toUI, network, late>> /\ IsHandler /\ ui.st # "panicked"
           /\ handler.at = "utxos" /\ handler'.at = "accounts" /\ handler'.txs = handler.txs
           /\ handler'.place = handler.place /\ handler'.account = handler.account
<1>1. /\ UNCHANGED <<accounts, current, wallet, toWallet, ui>> /\ ui.st # "panicked" /\ handler.at = "utxos"
      /\ DOMAIN handler = HandlerFields
  BY PeerLeaves DEF give_me_utxos
<1>2. handler' = [handler EXCEPT !.at = "accounts"] /\ UNCHANGED <<headers, header_heights, again, blocks, toUI, network, made, late>>
  BY DEF give_me_utxos, netVars
<1>3. /\ IsHandler /\ handler'.at = "accounts" /\ handler'.txs = handler.txs
      /\ handler'.place = handler.place /\ handler'.account = handler.account
  BY <1>1, <1>2 DEF IsHandler, HandlerFields
<1> QED
  BY <1>1, <1>2, <1>3 DEF OnlyPeer

\* The coins of the accounts are brought up to date.
LEMMA UpdateIs ==
    ASSUME WalletInv, update_accounts_utxo_set
    PROVE  /\ OnlyPeer /\ UNCHANGED <<toUI, network, late>> /\ IsHandler /\ ui.st # "panicked"
           /\ handler.at = "accounts" /\ handler'.at = "confirm" /\ handler'.txs = handler.txs
           /\ handler'.place = handler.place /\ handler'.account = handler.account
           /\ SameNames /\ \A i \in DOMAIN accounts' : IsAccount(accounts'[i])
           /\ \A i \in DOMAIN accounts : /\ accounts'[i].pending = accounts[i].pending
                                         /\ accounts'[i].confirmed = accounts[i].confirmed
<1>1. /\ handler.at = "accounts" /\ ui.st # "panicked" /\ OnlyPeer /\ UNCHANGED <<toUI, network, late>>
      /\ handler' = [handler EXCEPT !.at = "confirm"]
  BY DEF update_accounts_utxo_set, Running, OnlyPeer, chainVars, uiVars, netVars
<1>2. DOMAIN handler = HandlerFields /\ ShapeInv
  BY DEF WalletInv, ShapeInv
<1>3. /\ IsHandler /\ handler'.at = "confirm" /\ handler'.txs = handler.txs
      /\ handler'.place = handler.place /\ handler'.account = handler.account
  BY <1>1, <1>2 DEF IsHandler, HandlerFields
<1> QED
  BY <1>1, <1>2, <1>3, CoinsSet

\* The transaction is added to those confirmed of the account.
LEMMA PushConfirmedIs ==
    ASSUME WalletInv, PlaceInv, push_confirmed
    PROVE  /\ OnlyPeer /\ UNCHANGED <<network, late>> /\ IsHandler /\ ui.st # "panicked"
           /\ toUI' = Append(toUI, Event("ShowConfirmedTransaction"))
           /\ handler.at = "confirm_push" /\ handler'.at = "confirm" /\ handler'.txs = handler.txs
           /\ handler'.place = handler.place /\ handler'.account = handler.account + 1
           /\ SameNames /\ \A i \in DOMAIN accounts' : IsAccount(accounts'[i])
           /\ accounts'[handler.account].confirmed = Append(accounts[handler.account].confirmed, handler.txs[handler.place])
           /\ accounts'[handler.account].pending = accounts[handler.account].pending
           /\ \A i \in DOMAIN accounts \ {handler.account} : accounts'[i] = accounts[i]
           /\ SameCoins
<1> DEFINE k == handler.account
           x == Append(accounts[k].confirmed, handler.txs[handler.place])
<1>1. /\ handler.at = "confirm_push" /\ ui.st # "panicked" /\ OnlyPeer /\ UNCHANGED <<network, late>>
      /\ toUI' = Append(toUI, Event("ShowConfirmedTransaction"))
      /\ handler' = [handler EXCEPT !.at = "confirm", !.account = @ + 1]
      /\ accounts' = [accounts EXCEPT ![k].confirmed = x]
  BY DEF push_confirmed, Running, OnlyPeer, chainVars, uiVars, netVars, histVars
<1>2. DOMAIN handler = HandlerFields /\ ShapeInv
  BY DEF WalletInv, ShapeInv
<1>3. /\ IsHandler /\ handler'.at = "confirm" /\ handler'.txs = handler.txs
      /\ handler'.place = handler.place /\ handler'.account = handler.account + 1
  BY <1>1, <1>2 DEF IsHandler, HandlerFields
<1>4. k \in DOMAIN accounts
  BY <1>1 DEF PlaceInv
<1>5. IsList(x)
  BY <1>2, <1>4, ListAppend DEF ShapeInv, IsAccount
<1> HIDE DEF k, x
<1>6. /\ SameNames /\ \A i \in DOMAIN accounts' : IsAccount(accounts'[i])
      /\ accounts'[k].confirmed = x /\ accounts'[k].pending = accounts[k].pending
      /\ \A i \in DOMAIN accounts \ {k} : accounts'[i] = accounts[i]
      /\ SameCoins
  BY <1>1, <1>2, <1>4, <1>5, ConfirmedSet
<1> QED
  BY <1>1, <1>3, <1>6 DEF k, x

\* The thread has yet to look for transaction k of the block in account i.
ToGo(k, i) == k > handler.place \/ (k = handler.place /\ i >= handler.account)

\* The next transaction of the block that is pending, or the end.
LEMMA ContainsPendingIs ==
    ASSUME WalletInv, PlaceInv, contains_pending_tx
    PROVE  /\ OnlyPeer /\ UNCHANGED <<toUI, network, late>> /\ IsHandler /\ ui.st # "panicked"
           /\ handler.at = "confirm" /\ handler'.txs = handler.txs
           /\ handler'.place \in Nat /\ handler'.account \in Nat
           /\ SameNames /\ SameCoins /\ \A i \in DOMAIN accounts' : IsAccount(accounts'[i])
           /\ \/ /\ handler'.at = "include" /\ accounts' = accounts
                 /\ \A k \in DOMAIN handler.txs, i \in DOMAIN accounts :
                       ToGo(k, i) => ~Has(accounts[i].pending, handler.txs[k])
              \/ /\ handler'.at = "confirm_push"
                 /\ handler'.place \in DOMAIN handler.txs /\ handler'.account \in DOMAIN accounts
                 /\ Has(accounts[handler'.account].pending, handler.txs[handler'.place])
                 /\ accounts'[handler'.account].pending
                       = RemoveFirst(accounts[handler'.account].pending, handler.txs[handler'.place])
                 /\ accounts'[handler'.account].confirmed = accounts[handler'.account].confirmed
                 /\ \A i \in DOMAIN accounts \ {handler'.account} : accounts'[i] = accounts[i]
                 /\ \A k \in DOMAIN handler.txs, i \in DOMAIN accounts :
                       ToGo(k, i) /\ (k < handler'.place \/ (k = handler'.place /\ i < handler'.account))
                          => ~Has(accounts[i].pending, handler.txs[k])
<1> DEFINE IsPending(k, i) == Contains(accounts[i].pending, handler.txs[k])
           all == {pair \in (DOMAIN handler.txs) \X (DOMAIN accounts) : IsPending(pair[1], pair[2])}
           hits == ToCome(all)
           h == FirstOf(hits)
<1>1. /\ handler.at = "confirm" /\ ui.st # "panicked" /\ OnlyPeer /\ UNCHANGED <<toUI, network, late>>
      /\ IF hits = {}
         THEN handler' = [handler EXCEPT !.at = "include", !.place = 1, !.account = 1] /\ UNCHANGED accounts
         ELSE /\ GotoHit("confirm_push", h)
              /\ accounts' = [accounts EXCEPT ![h[2]].pending = RemoveFirst(@, handler.txs[h[1]])]
  BY DEF contains_pending_tx, Running, OnlyPeer, chainVars, uiVars, netVars, histVars
<1>2. DOMAIN handler = HandlerFields /\ ShapeInv
  BY DEF WalletInv, ShapeInv
<1>3. \A k \in DOMAIN handler.txs, i \in DOMAIN accounts :
         ToGo(k, i) /\ Has(accounts[i].pending, handler.txs[k]) => <<k, i>> \in hits
  <2> SUFFICES ASSUME NEW k \in DOMAIN handler.txs, NEW i \in DOMAIN accounts,
                      ToGo(k, i), Has(accounts[i].pending, handler.txs[k])
               PROVE  <<k, i>> \in hits
    OBVIOUS
  <2>1. DOMAIN accounts[i].pending = 1 .. Len(accounts[i].pending)
    BY <1>2 DEF ShapeInv, IsAccount, IsList
  <2>2. <<k, i>> \in all
    BY <2>1 DEF Has, Contains
  <2> QED
    BY <2>2 DEF ToGo, ToCome
<1>4. CASE hits = {}
  <2>1. handler' = [handler EXCEPT !.at = "include", !.place = 1, !.account = 1] /\ UNCHANGED accounts
    BY <1>1, <1>4
  <2> HIDE DEF hits
  <2>2. /\ IsHandler /\ handler'.at = "include" /\ handler'.txs = handler.txs
        /\ handler'.place = 1 /\ handler'.account = 1
    BY <1>2, <2>1 DEF IsHandler, HandlerFields
  <2>3. SameNames /\ SameCoins /\ \A i \in DOMAIN accounts' : IsAccount(accounts'[i])
    BY <1>2, <2>1 DEF SameNames, SameCoins, ShapeInv
  <2>4. \A k \in DOMAIN handler.txs, i \in DOMAIN accounts : ToGo(k, i) => ~Has(accounts[i].pending, handler.txs[k])
    BY <1>3, <1>4
  <2> QED
    BY <1>1, <2>1, <2>2, <2>3, <2>4
<1>5. CASE hits # {}
  <2>1. hits \subseteq all
    BY DEF ToCome
  <2>2. all \subseteq Nat \X Nat
    <3>1. DOMAIN handler.txs \subseteq Nat
      BY DEF PlaceInv, IsList
    <3>2. DOMAIN accounts \subseteq Nat
      BY <1>2 DEF ShapeInv, IsList
    <3> HIDE DEF IsPending
    <3> QED
      BY <3>1, <3>2
  <2>3. /\ GotoHit("confirm_push", h)
        /\ accounts' = [accounts EXCEPT ![h[2]].pending = RemoveFirst(@, handler.txs[h[1]])]
    BY <1>1, <1>5
  <2>4. \A g \in all : g[1] \in DOMAIN handler.txs /\ g[2] \in DOMAIN accounts /\ Contains(accounts[g[2]].pending, handler.txs[g[1]])
    OBVIOUS
  <2> HIDE DEF hits, all
  <2>5. h \in hits /\ \A g \in hits : h[1] < g[1] \/ (h[1] = g[1] /\ h[2] <= g[2])
    <3>1. hits \subseteq Nat \X Nat
      BY <2>1, <2>2
    <3> QED
      BY <1>5, <3>1, FirstOfIs
  <2> HIDE DEF h
  <2>6. h[1] \in DOMAIN handler.txs /\ h[2] \in DOMAIN accounts /\ Contains(accounts[h[2]].pending, handler.txs[h[1]])
    BY <2>1, <2>4, <2>5
  <2>7. h[1] \in Nat /\ h[2] \in Nat
    BY <2>1, <2>2, <2>5
  <2>8. /\ IsHandler /\ handler'.at = "confirm_push" /\ handler'.txs = handler.txs
        /\ handler'.place = h[1] /\ handler'.account = h[2]
    BY <1>2, <2>3 DEF GotoHit, IsHandler, HandlerFields
  <2> DEFINE k == h[2]
             t == handler.txs[h[1]]
             x == RemoveFirst(accounts[k].pending, t)
  <2>9. IsList(accounts[k].pending) /\ Has(accounts[k].pending, t)
    BY <1>2, <2>6 DEF ShapeInv, IsAccount, IsList, Contains, Has
  <2>10. IsList(x)
    <3> HIDE DEF k, t
    <3> QED
      BY <2>9, ListRemoveFirst DEF Has
  <2>11. accounts' = [accounts EXCEPT ![k].pending = x] /\ k \in DOMAIN accounts
    BY <2>3, <2>6
  <2> HIDE DEF x, k
  <2>12. /\ SameNames /\ \A i \in DOMAIN accounts' : IsAccount(accounts'[i])
         /\ accounts'[k].pending = x /\ accounts'[k].confirmed = accounts[k].confirmed
         /\ \A i \in DOMAIN accounts \ {k} : accounts'[i] = accounts[i]
         /\ SameCoins
    BY <1>2, <2>10, <2>11, PendingSet
  <2>13. ASSUME NEW l \in DOMAIN handler.txs, NEW i \in DOMAIN accounts,
                ToGo(l, i), l < h[1] \/ (l = h[1] /\ i < h[2])
         PROVE  ~Has(accounts[i].pending, handler.txs[l])
    <3>1. SUFFICES ASSUME <<l, i>> \in hits PROVE FALSE
      BY <1>3, <2>13
    <3>2. h[1] < l \/ (h[1] = l /\ h[2] <= i)
      BY <2>5, <3>1
    <3>3. l \in Nat /\ i \in Nat
      BY <2>1, <2>2, <3>1
    <3> QED
      BY <2>7, <2>13, <3>2, <3>3
  <2> QED
    BY <1>1, <2>6, <2>7, <2>8, <2>9, <2>12, <2>13 DEF x, k
<1> QED
  BY <1>4, <1>5

\* The header of a block is added.
LEMMA BlockMessageIs ==
    ASSUME WalletInv, NEW txs, handle_block_message(txs)
    PROVE  /\ WalletInv' /\ UNCHANGED <<accounts, toUI, blocks, current, wallet, toWallet, ui, made, late>>
           /\ handler.at = "idle" /\ handler'.at = "utxos" /\ ui.st # "panicked" /\ DOMAIN handler' = HandlerFields
           /\ handler'.txs = txs /\ handler'.place = 1 /\ handler'.account = 1
           /\ network' \subseteq network
<1>1. /\ UNCHANGED <<accounts, current, wallet, toWallet, ui>> /\ ui.st # "panicked" /\ handler.at = "idle"
  BY PeerLeaves DEF handle_block_message
<1>2. /\ handler' = [Idle EXCEPT !.at = "utxos", !.block = headers + 1, !.txs = txs] /\ headers' = headers + 1
      /\ UNCHANGED <<toUI, made, blocks, late, again>> /\ header_heights' = WithHeight(headers + 1) /\ network' = network \ Range(txs)
  BY DEF handle_block_message, histVars
<1>3. /\ DOMAIN handler' = HandlerFields /\ handler'.at = "utxos" /\ handler'.block = headers + 1 /\ handler'.txs = txs
      /\ handler'.place = 1 /\ handler'.account = 1
  BY <1>2, IdleIs DEF HandlerFields
<1>4. ShapeInv /\ AccountsInv /\ BlocksInv
  BY DEF WalletInv
<1>5. ShapeInv'
  BY <1>1, <1>2, <1>3, <1>4 DEF ShapeInv, BlockPhases
<1>6. AccountsInv'
  <2>1. LoginInv' /\ NamesInv'
    BY <1>1, <1>2, <1>4 DEF AccountsInv, LoginInv, NamesInv
  <2>2. SelectInv' /\ MadeInv'
    BY <1>1, <1>2, <1>4 DEF AccountsInv, SelectInv, MadeInv
  <2> QED
    BY <2>1, <2>2 DEF AccountsInv
<1>7. BlocksInv'
  <2>1. headers \in Nat /\ headers >= AMOUNT_TO_SHOW /\ AMOUNT_TO_SHOW \in Nat
    BY <1>4, WalletAssumption DEF BlocksInv, StoredInv
  <2>2. StoredInv'
    <3>1. DOMAIN blocks \subseteq 1 .. headers /\ \A b \in 1 .. headers : b > AMOUNT_TO_SHOW => b \in DOMAIN blocks
      BY <1>1, <1>4 DEF BlocksInv, StoredInv, BlockPhases
    <3>2. \A b \in 1 .. (headers + 1) : b = headers + 1 \/ b \in 1 .. headers
      BY <2>1
    <3>3. headers + 1 \in Nat /\ headers + 1 > AMOUNT_TO_SHOW /\ headers + 1 \notin 1 .. headers
      BY <2>1
    <3> QED
      BY <1>2, <1>3, <2>1, <3>1, <3>2, <3>3 DEF StoredInv, BlockPhases
  <2>3. HeightsInv'
    <3>1. DOMAIN header_heights' = DOMAIN header_heights \cup {headers + 1}
      BY <1>2 DEF WithHeight
    <3>2. \A b \in DOMAIN header_heights' : header_heights'[b] = IF b = headers + 1 THEN headers ELSE header_heights[b]
      BY <1>2 DEF WithHeight
    <3> QED
      BY <1>2, <1>4, <2>1, <3>1, <3>2 DEF BlocksInv, HeightsInv
  <2>4. OpeningInv' /\ ListedInv' /\ SearchInv'
    BY <1>1, <1>2, <1>4 DEF BlocksInv, OpeningInv, ListedInv, SearchInv, TrueAnswer
  <2>5. PanickedInv'
    BY <1>1 DEF PanickedInv
  <2> QED
    BY <2>2, <2>3, <2>4, <2>5 DEF BlocksInv
<1>8. network' \subseteq network
  BY <1>2
<1> QED
  BY <1>1, <1>2, <1>3, <1>5, <1>6, <1>7, <1>8 DEF WalletInv

\* A header is announced.
LEMMA HeaderIs ==
    ASSUME WalletInv, NEW b \in 1 .. (headers + 1), handle_headers_message(b)
    PROVE  /\ WalletInv' /\ UNCHANGED trackVars
           /\ UNCHANGED <<current, wallet, toWallet, toUI, ui, raced, stale, received>>
<1>1. /\ UNCHANGED <<accounts, current, wallet, toWallet, ui>> /\ ui.st # "panicked" /\ handler.at = "idle"
  BY PeerLeaves DEF handle_headers_message
<1>2. /\ UNCHANGED <<headers, blocks, toUI, handler, network, received, made, raced, stale, late>>
      /\ header_heights' = WithHeight(b) /\ again' = IF b <= headers THEN again \cup {b} ELSE again
  BY DEF handle_headers_message, netVars
<1>3. ShapeInv /\ AccountsInv /\ BlocksInv
  BY DEF WalletInv
<1>4. ShapeInv'
  BY <1>1, <1>2, <1>3 DEF ShapeInv
<1>5. AccountsInv'
  <2>1. LoginInv' /\ NamesInv'
    BY <1>1, <1>2, <1>3 DEF AccountsInv, LoginInv, NamesInv
  <2>2. SelectInv' /\ MadeInv'
    BY <1>1, <1>2, <1>3 DEF AccountsInv, SelectInv, MadeInv
  <2> QED
    BY <2>1, <2>2 DEF AccountsInv
<1>6. HeightsInv'
  <2>1. headers \in Nat
    BY <1>3 DEF BlocksInv, StoredInv
  <2>2. DOMAIN header_heights' = DOMAIN header_heights \cup {b}
    BY <1>2 DEF WithHeight
  <2>3. \A c \in DOMAIN header_heights' : header_heights'[c] = IF c = b THEN headers ELSE header_heights[c]
    BY <1>2 DEF WithHeight
  <2> QED
    BY <1>2, <1>3, <2>1, <2>2, <2>3 DEF BlocksInv, HeightsInv
<1>7. StoredInv' /\ OpeningInv' /\ ListedInv' /\ PanickedInv'
  BY <1>1, <1>2, <1>3 DEF BlocksInv, StoredInv, OpeningInv, ListedInv, PanickedInv
<1>8. SearchInv'
  BY <1>1, <1>2, <1>3 DEF BlocksInv, SearchInv, TrueAnswer
<1> QED
  BY <1>1, <1>2, <1>4, <1>5, <1>6, <1>7, <1>8 DEF WalletInv, BlocksInv, trackVars

\* The block is stored, and announced to the interface.
LEMMA IncludeIs ==
    ASSUME WalletInv, include_new_block
    PROVE  /\ WalletInv' /\ UNCHANGED <<accounts, current, wallet, toWallet, ui, made, network, late>>
           /\ handler.at = "include" /\ handler' = Idle /\ ui.st # "panicked"
           /\ DOMAIN blocks' = DOMAIN blocks \cup {headers} /\ headers \notin DOMAIN blocks
           /\ blocks'[headers] = handler.txs /\ \A b \in DOMAIN blocks : blocks'[b] = blocks[b]
<1> DEFINE e == [type |-> "AddBlock", block |-> handler.block]
<1>1. /\ UNCHANGED <<accounts, current, wallet, toWallet, ui>> /\ ui.st # "panicked" /\ handler.at = "include"
  BY PeerLeaves DEF include_new_block
<1>2. /\ handler' = Idle /\ toUI' = Append(toUI, e) /\ UNCHANGED <<headers, header_heights, again, network, made, late>>
      /\ blocks' = [b \in DOMAIN blocks \cup {handler.block} |-> IF b = handler.block THEN handler.txs ELSE blocks[b]]
  BY DEF include_new_block, netVars, histVars
<1>3. ShapeInv /\ AccountsInv /\ BlocksInv
  BY DEF WalletInv
<1>4. handler.block = headers /\ headers \notin DOMAIN blocks /\ headers \in Nat /\ headers > AMOUNT_TO_SHOW
  BY <1>1, <1>3 DEF BlocksInv, StoredInv, BlockPhases
<1>5. headers \in 1 .. headers
  BY <1>4, WalletAssumption
<1>6. /\ DOMAIN blocks' = DOMAIN blocks \cup {headers} /\ headers \notin DOMAIN blocks
      /\ blocks'[headers] = handler.txs /\ \A b \in DOMAIN blocks : blocks'[b] = blocks[b]
  <2>1. DOMAIN blocks' = DOMAIN blocks \cup {headers} /\ headers \notin DOMAIN blocks
    BY <1>2, <1>4
  <2>2. blocks'[headers] = handler.txs /\ \A b \in DOMAIN blocks : blocks'[b] = blocks[b]
    BY <1>2, <1>4, <2>1
  <2> QED
    BY <2>1, <2>2
<1>7. e.type = "AddBlock" /\ e.block = headers
  BY <1>4
<1> HIDE DEF e
<1>8. /\ IsList(toUI') /\ Len(toUI) \in Nat /\ DOMAIN toUI = 1 .. Len(toUI) /\ DOMAIN toUI' = 1 .. (Len(toUI) + 1)
      /\ \A j \in 1 .. Len(toUI) : toUI'[j] = toUI[j]
      /\ toUI'[Len(toUI) + 1] = e
  BY <1>2, <1>3, ListAppend DEF ShapeInv
<1>9. PICK n \in Nat : n = Len(toUI)
  BY <1>8
<1>10. /\ \A j \in DOMAIN toUI' : j = n + 1 \/ j \in DOMAIN toUI
       /\ n + 1 \in DOMAIN toUI' /\ toUI'[n + 1] = e
       /\ \A j \in DOMAIN toUI : j \in DOMAIN toUI' /\ toUI'[j] = toUI[j]
  <2>1. \A j \in 1 .. (n + 1) : j = n + 1 \/ j \in 1 .. n
    OBVIOUS
  <2>2. n + 1 \in 1 .. (n + 1) /\ \A j \in 1 .. n : j \in 1 .. (n + 1)
    OBVIOUS
  <2> QED
    BY <1>8, <1>9, <2>1, <2>2, Zenon
<1>11. AccountsInv'
  <2>1. Moved(toUI, toUI', 0, {e})
    BY <1>2, <1>3, MovedAppend DEF ShapeInv
  <2>2. Moved(toWallet, toWallet', 0, {})
    BY <1>1, <1>3, MovedNot DEF ShapeInv
  <2>3. ~Reply(e) /\ SameNames /\ SameChoice
    BY <1>1, <1>2, <1>3, <1>7 DEF Reply, SameNames, SameChoice, ShapeInv
  <2>4. \A x \in {e} : ~Reply(x)
    BY <2>3
  <2> QED
    BY <1>3, <2>1, <2>2, <2>3, <2>4, AccountsKept
<1>12. ShapeInv'
  BY <1>1, <1>2, <1>3, <1>8, IdleIs DEF ShapeInv
<1>13. StoredInv' /\ HeightsInv' /\ PanickedInv'
  <2>1. \A b \in 1 .. headers : b > AMOUNT_TO_SHOW => b \in DOMAIN blocks \/ b = headers
    BY <1>3 DEF BlocksInv, StoredInv
  <2>2. StoredInv'
    BY <1>2, <1>3, <1>4, <1>5, <1>6, <2>1, IdleIs DEF BlocksInv, StoredInv, BlockPhases
  <2>3. HeightsInv' /\ PanickedInv'
    BY <1>1, <1>2, <1>3 DEF BlocksInv, HeightsInv, PanickedInv
  <2> QED
    BY <2>2, <2>3
<1>14. OpeningInv'
  <2>1. e.type # "InitializeUITabs"
    BY <1>7
  <2>2. OpeningInv
    BY <1>3 DEF BlocksInv
  <2> QED
    BY <1>1, <1>10, <2>1, <2>2, Zenon DEF OpeningInv
<1>15. ListedInv'
  <2>1. ListedInv
    BY <1>3 DEF BlocksInv
  <2>2. \A i \in DOMAIN ui'.blocks : ui'.blocks[i] \in DOMAIN blocks'
    BY <1>1, <1>6, <2>1 DEF ListedInv
  <2>3. \A j \in DOMAIN toUI' : toUI'[j].type = "AddBlock" => toUI'[j].block \in DOMAIN blocks'
    BY <1>6, <1>7, <1>10, <2>1 DEF ListedInv
  <2>4. ASSUME NEW b \in DOMAIN blocks', b > AMOUNT_TO_SHOW
        PROVE  \/ \E i \in DOMAIN ui'.blocks : ui'.blocks[i] = b
               \/ \E j \in DOMAIN toUI' : toUI'[j].type = "AddBlock" /\ toUI'[j].block = b
    <3>1. CASE b = headers
      BY <1>7, <1>10, <3>1
    <3>2. CASE b \in DOMAIN blocks
      BY <1>1, <1>10, <2>1, <2>4, <3>2 DEF ListedInv
    <3> QED
      BY <1>6, <3>1, <3>2
  <2> QED
    BY <2>2, <2>3, <2>4 DEF ListedInv
<1>16. SearchInv'
  <2>1. SearchInv
    BY <1>3 DEF BlocksInv
  <2>2. \A k \in DOMAIN toWallet' : toWallet'[k].type \in Searches /\ toWallet'[k].listed => toWallet'[k].hash \in DOMAIN blocks'
    BY <1>1, <1>6, <2>1 DEF SearchInv
  <2>3. \A j \in DOMAIN toUI' : TrueAnswer(toUI'[j])
    BY <1>7, <1>10, <2>1 DEF SearchInv, TrueAnswer
  <2> QED
    BY <1>2, <2>2, <2>3 DEF SearchInv, TrueAnswer
<1> QED
  BY <1>1, <1>2, <1>6, <1>11, <1>12, <1>13, <1>14, <1>15, <1>16 DEF WalletInv, BlocksInv

\* Every step of the thread keeps the invariant of the accounts and the blocks.
LEMMA PeerKeepsAll == ASSUME WalletInv, PlaceInv, PeerStep \/ PeerMessage PROVE WalletInv'
<1>1. ASSUME NEW tx, handle_tx_message(tx) PROVE WalletInv'
  <2>1. /\ OnlyPeer /\ UNCHANGED <<accounts, toUI>> /\ DOMAIN handler' = HandlerFields
        /\ handler.at = "idle" /\ handler'.at = "tx_check" /\ ui.st # "panicked"
    BY <1>1, TxMessageIs
  <2>2. SamePhase
    BY <2>1 DEF SamePhase, BlockPhases
  <2> QED
    BY <2>1, <2>2, PeerMovesOn DEF OnlyPeer
<1>2. CASE involves_user_account
  <2>1. /\ OnlyPeer /\ UNCHANGED accounts /\ DOMAIN handler' = HandlerFields /\ handler.at = "tx_check" /\ ui.st # "panicked"
        /\ \/ toUI' = toUI /\ handler' = Idle
           \/ toUI' = Append(toUI, Event("ShowPendingTransaction")) /\ handler'.at = "tx_push"
    BY <1>2, InvolvesIs
  <2>2. handler'.at \in {"idle", "tx_push"}
    BY <2>1, IdleIs
  <2>3. SamePhase
    BY <2>1, <2>2 DEF SamePhase, BlockPhases
  <2>4. CASE toUI' = toUI
    BY <2>1, <2>2, <2>3, <2>4, PeerMovesOn DEF OnlyPeer
  <2>5. CASE toUI' = Append(toUI, Event("ShowPendingTransaction"))
    <3> DEFINE e == Event("ShowPendingTransaction")
    <3>1. TrueEvent(e) /\ ~Reply(e)
      BY DEF TrueEvent, TrueAnswer, Reply, Event
    <3>2. SameNames /\ \A i \in DOMAIN accounts' : IsAccount(accounts'[i])
      BY <2>1 DEF SameNames, WalletInv, ShapeInv
    <3>3. toUI' = Append(toUI, e)
      BY <2>5
    <3> HIDE DEF e
    <3> QED
      BY <2>1, <2>2, <2>3, <3>1, <3>2, <3>3, PeerTells DEF OnlyPeer
  <2> QED
    BY <2>1, <2>4, <2>5
<1>3. CASE push_pending
  <2>1. /\ OnlyPeer /\ UNCHANGED toUI /\ IsHandler /\ ui.st # "panicked"
        /\ handler.at = "tx_push" /\ handler'.at = "tx_check"
        /\ SameNames /\ \A i \in DOMAIN accounts' : IsAccount(accounts'[i])
    BY <1>3, PushPendingIs
  <2>2. SamePhase /\ Moved(toUI, toUI', 0, {})
    BY <2>1, MovedNot DEF SamePhase, BlockPhases, WalletInv, ShapeInv
  <2> QED
    BY <2>1, <2>2, PeerKeeps DEF OnlyPeer, IsHandler
<1>4. CASE give_me_utxos
  <2>1. /\ OnlyPeer /\ UNCHANGED <<accounts, toUI>> /\ IsHandler /\ ui.st # "panicked"
        /\ handler.at = "utxos" /\ handler'.at = "accounts"
    BY <1>4, UtxosIs
  <2>2. SamePhase /\ handler'.at \in BlockPhases
    BY <2>1 DEF SamePhase, BlockPhases, IsHandler
  <2> QED
    BY <2>1, <2>2, PeerMovesOn DEF OnlyPeer, IsHandler
<1>5. CASE update_accounts_utxo_set
  <2>1. /\ OnlyPeer /\ UNCHANGED toUI /\ IsHandler /\ ui.st # "panicked"
        /\ handler.at = "accounts" /\ handler'.at = "confirm"
        /\ SameNames /\ \A i \in DOMAIN accounts' : IsAccount(accounts'[i])
    BY <1>5, UpdateIs
  <2>2. SamePhase /\ handler'.at \in BlockPhases
    BY <2>1 DEF SamePhase, BlockPhases, IsHandler
  <2>3. Moved(toUI, toUI', 0, {})
    BY <2>1, MovedNot DEF WalletInv, ShapeInv
  <2> QED
    BY <2>1, <2>2, <2>3, PeerKeeps DEF OnlyPeer, IsHandler
<1>6. CASE contains_pending_tx
  <2>1. /\ OnlyPeer /\ UNCHANGED toUI /\ IsHandler /\ ui.st # "panicked"
        /\ handler.at = "confirm" /\ handler'.at \in {"include", "confirm_push"}
        /\ SameNames /\ \A i \in DOMAIN accounts' : IsAccount(accounts'[i])
    BY <1>6, ContainsPendingIs
  <2>2. SamePhase /\ handler'.at \in BlockPhases
    BY <2>1 DEF SamePhase, BlockPhases, IsHandler
  <2>3. Moved(toUI, toUI', 0, {})
    BY <2>1, MovedNot DEF WalletInv, ShapeInv
  <2> QED
    BY <2>1, <2>2, <2>3, PeerKeeps DEF OnlyPeer, IsHandler
<1>7. CASE push_confirmed
  <2> DEFINE e == Event("ShowConfirmedTransaction")
  <2>1. /\ OnlyPeer /\ toUI' = Append(toUI, e) /\ IsHandler /\ ui.st # "panicked"
        /\ handler.at = "confirm_push" /\ handler'.at = "confirm"
        /\ SameNames /\ \A i \in DOMAIN accounts' : IsAccount(accounts'[i])
    BY <1>7, PushConfirmedIs
  <2>2. SamePhase /\ handler'.at \in BlockPhases
    BY <2>1 DEF SamePhase, BlockPhases, IsHandler
  <2>3. TrueEvent(e) /\ ~Reply(e)
    BY DEF TrueEvent, TrueAnswer, Reply, Event
  <2> HIDE DEF e
  <2> QED
    BY <2>1, <2>2, <2>3, PeerTells DEF OnlyPeer, IsHandler
<1>8. CASE include_new_block
  BY <1>8, IncludeIs
<1>9. ASSUME NEW txs, handle_block_message(txs) PROVE WalletInv'
  BY <1>9, BlockMessageIs
<1>10. ASSUME NEW b \in 1 .. (headers + 1), handle_headers_message(b) PROVE WalletInv'
  BY <1>10, HeaderIs
<1> QED
  BY <1>1, <1>2, <1>3, <1>4, <1>5, <1>6, <1>7, <1>8, <1>9, <1>10 DEF PeerStep, PeerMessage

--------------------------------------------------------------------------------
(***************************************************************************)
(* The transactions of the wallet.                                         *)
(***************************************************************************)
SafeInv == WalletInv /\ KeptInv /\ KnownInv /\ PlaceInv

\* Steps of other threads than the peer's that make no transaction.
LEMMA TrackSame ==
    ASSUME KeptInv, KnownInv, PlaceInv, UNCHANGED trackVars
    PROVE  KeptInv' /\ KnownInv' /\ PlaceInv'
<1>1. UNCHANGED <<accounts, made, handler, blocks, network, late>>
  BY DEF trackVars
<1>2. KeptInv'
  BY <1>1 DEF KeptInv, Has
<1>3. KnownInv'
  BY <1>1 DEF KnownInv, KnownTxs, MinedTxs
<1>4. PlaceInv'
  BY <1>1 DEF PlaceInv, Has, MinedTxs
<1> QED
  BY <1>2, <1>3, <1>4

\* The history of the transactions made does not shrink.
LEMMA KnownStays ==
    ASSUME made' = made
    PROVE  KnownTxs' = KnownTxs
BY DEF KnownTxs

\* A transaction that is made is pending in the account that is chosen.
LEMMA MadeIs ==
    ASSUME WalletInv, handle_make_transaction
    PROVE  /\ UNCHANGED <<handler, blocks, late>> /\ ~AccountsRead
           /\ \/ UNCHANGED <<accounts, network, made>>
              \/ \E tx : /\ current \in DOMAIN accounts /\ SameNames
                         /\ accounts'[current].pending = Append(accounts[current].pending, tx)
                         /\ accounts'[current].confirmed = accounts[current].confirmed
                         /\ \A i \in DOMAIN accounts \ {current} : accounts'[i] = accounts[i]
                         /\ network' \subseteq network \cup {tx}
                         /\ Len(made) \in Nat /\ DOMAIN made = 1 .. Len(made) /\ DOMAIN made' = 1 .. (Len(made) + 1)
                         /\ \A n \in DOMAIN made : made'[n] = made[n]
                         /\ made'[Len(made) + 1].tx = tx /\ made'[Len(made) + 1].account = current
                         /\ SameCoins
<1>1. ShapeInv /\ AccountsInv
  BY DEF WalletInv
<1>2. /\ UNCHANGED <<chainVars, handler, late>> /\ ~AccountsRead
      /\ \/ UNCHANGED <<accounts, network, made>>
         \/ \E tx, p, coins, up :
               /\ current # 0
               /\ accounts' = [accounts EXCEPT ![current].pending = Append(@, tx)]
               /\ network' \subseteq network \cup {tx}
               /\ made' = Append(made, [tx |-> tx, account |-> current, shown |-> toWallet[1].shown,
                                        payment |-> p, coins |-> coins, current |-> up])
  BY <1>1, MakeTransactionIs
<1>3. UNCHANGED <<handler, blocks, late>>
  BY <1>2 DEF chainVars
<1>4. ASSUME NEW tx, NEW p, NEW coins, NEW up, current # 0,
             accounts' = [accounts EXCEPT ![current].pending = Append(@, tx)],
             made' = Append(made, [tx |-> tx, account |-> current, shown |-> toWallet[1].shown,
                                   payment |-> p, coins |-> coins, current |-> up])
      PROVE  /\ current \in DOMAIN accounts /\ SameNames
             /\ accounts'[current].pending = Append(accounts[current].pending, tx)
             /\ accounts'[current].confirmed = accounts[current].confirmed
             /\ \A i \in DOMAIN accounts \ {current} : accounts'[i] = accounts[i]
             /\ Len(made) \in Nat /\ DOMAIN made = 1 .. Len(made) /\ DOMAIN made' = 1 .. (Len(made) + 1)
             /\ \A n \in DOMAIN made : made'[n] = made[n]
             /\ made'[Len(made) + 1].tx = tx /\ made'[Len(made) + 1].account = current
             /\ SameCoins
  <2> DEFINE x == Append(accounts[current].pending, tx)
             m == [tx |-> tx, account |-> current, shown |-> toWallet[1].shown, payment |-> p, coins |-> coins, current |-> up]
  <2>1. current \in DOMAIN accounts
    BY <1>1, <1>4 DEF AccountsInv, SelectInv, NamesInv
  <2>2. IsList(x)
    BY <1>1, <2>1, ListAppend DEF ShapeInv, IsAccount
  <2>3. accounts' = [accounts EXCEPT ![current].pending = x]
    BY <1>4
  <2>4. m.tx = tx /\ m.account = current /\ made' = Append(made, m) /\ IsList(made)
    BY <1>1, <1>4 DEF ShapeInv
  <2> HIDE DEF x, m
  <2>5. /\ SameNames /\ accounts'[current].pending = x /\ accounts'[current].confirmed = accounts[current].confirmed
        /\ \A i \in DOMAIN accounts \ {current} : accounts'[i] = accounts[i]
        /\ SameCoins
    BY <1>1, <2>1, <2>2, <2>3, PendingSet
  <2>6. /\ Len(made) \in Nat /\ DOMAIN made = 1 .. Len(made) /\ DOMAIN made' = 1 .. (Len(made) + 1)
        /\ \A i \in 1 .. Len(made) : made'[i] = made[i]
        /\ made'[Len(made) + 1] = m
    BY <2>4, ListAppend
  <2> QED
    BY <2>1, <2>4, <2>5, <2>6 DEF x
<1>5. CASE UNCHANGED <<accounts, network, made>>
  BY <1>2, <1>3, <1>5
<1>6. CASE ~UNCHANGED <<accounts, network, made>>
  <2>1. PICK tx, p, coins, up :
               /\ current # 0
               /\ accounts' = [accounts EXCEPT ![current].pending = Append(@, tx)]
               /\ network' \subseteq network \cup {tx}
               /\ made' = Append(made, [tx |-> tx, account |-> current, shown |-> toWallet[1].shown,
                                        payment |-> p, coins |-> coins, current |-> up])
    BY <1>2, <1>6
  <2>2. /\ current \in DOMAIN accounts /\ SameNames
        /\ accounts'[current].pending = Append(accounts[current].pending, tx)
        /\ accounts'[current].confirmed = accounts[current].confirmed
        /\ \A i \in DOMAIN accounts \ {current} : accounts'[i] = accounts[i]
        /\ Len(made) \in Nat /\ DOMAIN made = 1 .. Len(made) /\ DOMAIN made' = 1 .. (Len(made) + 1)
        /\ \A n \in DOMAIN made : made'[n] = made[n]
        /\ made'[Len(made) + 1].tx = tx /\ made'[Len(made) + 1].account = current
        /\ SameCoins
    BY <1>4, <2>1
  <2>3. network' \subseteq network \cup {tx}
    BY <2>1
  <2> QED
    BY <1>2, <1>3, <2>2, <2>3, Zenon
<1> QED
  BY <1>5, <1>6

\* An account is added: it has no transactions.
LEMMA PushAccountTracks == ASSUME SafeInv, push_account PROVE SafeInv'
<1>1. WalletInv /\ KeptInv /\ KnownInv /\ PlaceInv /\ ShapeInv /\ AccountsInv
  BY DEF SafeInv, WalletInv
<1>2. /\ WalletInv' /\ UNCHANGED <<made, handler, blocks, network, late>>
      /\ accounts' = Append(accounts, wallet.account) /\ wallet.account.pending = <<>> /\ ~AccountsRead
  BY <1>1, PushAccountKeepsAll
<1>3. /\ Len(accounts) \in Nat /\ DOMAIN accounts = 1 .. Len(accounts) /\ DOMAIN accounts' = 1 .. (Len(accounts) + 1)
      /\ \A i \in 1 .. Len(accounts) : accounts'[i] = accounts[i]
      /\ accounts'[Len(accounts) + 1] = wallet.account
  BY <1>1, <1>2, ListAppend DEF ShapeInv
<1>4. PICK n \in Nat : n = Len(accounts)
  BY <1>3
<1>5. /\ \A i \in DOMAIN accounts' : i \in DOMAIN accounts \/ i = n + 1
      /\ \A i \in DOMAIN accounts : i \in DOMAIN accounts' /\ accounts'[i] = accounts[i]
      /\ DOMAIN accounts'[n + 1].pending = {}
  <2>1. (\A i \in 1 .. (n + 1) : i \in 1 .. n \/ i = n + 1) /\ \A i \in 1 .. n : i \in 1 .. (n + 1)
    OBVIOUS
  <2>2. DOMAIN wallet.account.pending = {}
    BY <1>2
  <2> QED
    BY <1>3, <1>4, <2>1, <2>2, Zenon
<1>6. KeptInv'
  <2>1. \A k \in DOMAIN made : made[k].account \in DOMAIN accounts
    BY <1>1 DEF AccountsInv, MadeInv, NamesInv
  <2> QED
    BY <1>1, <1>2, <1>5, <2>1 DEF KeptInv, Has
<1>7. KnownInv'
  <2>1. MinedTxs' = MinedTxs /\ KnownTxs' = KnownTxs
    BY <1>2, KnownStays DEF MinedTxs
  <2> QED
    BY <1>1, <1>2, <1>5, <2>1 DEF KnownInv
<1>8. PlaceInv'
  BY <1>1, <1>2 DEF PlaceInv, AccountsRead, MinedTxs
<1> QED
  BY <1>2, <1>6, <1>7, <1>8 DEF SafeInv

\* A transaction is made.
LEMMA MakeTracks == ASSUME SafeInv, handle_make_transaction PROVE SafeInv'
<1>1. WalletInv /\ KeptInv /\ KnownInv /\ PlaceInv /\ ShapeInv /\ AccountsInv
  BY DEF SafeInv, WalletInv
<1>2. WalletInv'
  BY <1>1, MakeTransactionKeeps
<1>3. UNCHANGED <<handler, blocks, late>> /\ ~AccountsRead
  BY <1>1, MadeIs
<1>4. PlaceInv'
  BY <1>1, <1>3 DEF PlaceInv, AccountsRead, MinedTxs
<1>5. CASE UNCHANGED <<accounts, network, made>>
  BY <1>1, <1>2, <1>3, <1>5, TrackSame DEF trackVars, SafeInv
<1>6. ASSUME NEW tx, current \in DOMAIN accounts, SameNames,
             accounts'[current].pending = Append(accounts[current].pending, tx),
             accounts'[current].confirmed = accounts[current].confirmed,
             \A i \in DOMAIN accounts \ {current} : accounts'[i] = accounts[i],
             network' \subseteq network \cup {tx},
             Len(made) \in Nat, DOMAIN made = 1 .. Len(made), DOMAIN made' = 1 .. (Len(made) + 1),
             \A n \in DOMAIN made : made'[n] = made[n],
             made'[Len(made) + 1].tx = tx, made'[Len(made) + 1].account = current
      PROVE  KeptInv' /\ KnownInv'
  <2>1. PICK n \in Nat : n = Len(made)
    BY <1>6
  <2>2. /\ \A k \in DOMAIN made' : k \in DOMAIN made \/ k = n + 1
        /\ \A k \in DOMAIN made : k \in DOMAIN made' /\ made'[k] = made[k]
        /\ n + 1 \in DOMAIN made' /\ made'[n + 1].tx = tx /\ made'[n + 1].account = current
    <3>1. (\A k \in 1 .. (n + 1) : k \in 1 .. n \/ k = n + 1) /\ (\A k \in 1 .. n : k \in 1 .. (n + 1)) /\ n + 1 \in 1 .. (n + 1)
      OBVIOUS
    <3> QED
      BY <1>6, <2>1, <3>1, Zenon
  <2>3. IsList(accounts[current].pending)
    BY <1>1, <1>6 DEF ShapeInv, IsAccount
  <2> DEFINE l == accounts[current].pending
  <2>4. /\ Len(l) \in Nat /\ DOMAIN l = 1 .. Len(l) /\ DOMAIN Append(l, tx) = 1 .. (Len(l) + 1)
        /\ \A i \in 1 .. Len(l) : Append(l, tx)[i] = l[i]
        /\ Append(l, tx)[Len(l) + 1] = tx
    BY <2>3, ListAppend
  <2> HIDE DEF l
  <2>5. PICK q \in Nat : q = Len(l)
    BY <2>4
  <2>6. /\ \A p \in DOMAIN Append(l, tx) : p \in DOMAIN l \/ p = q + 1
        /\ \A p \in DOMAIN l : p \in DOMAIN Append(l, tx) /\ Append(l, tx)[p] = l[p]
        /\ q + 1 \in DOMAIN Append(l, tx) /\ Append(l, tx)[q + 1] = tx
    <3>1. (\A k \in 1 .. (q + 1) : k \in 1 .. q \/ k = q + 1) /\ (\A k \in 1 .. q : k \in 1 .. (q + 1)) /\ q + 1 \in 1 .. (q + 1)
      OBVIOUS
    <3> QED
      BY <2>4, <2>5, <3>1, Zenon
  <2>7. KnownTxs \subseteq KnownTxs' /\ tx \in KnownTxs'
    BY <2>2 DEF KnownTxs
  <2>8. \A t : Has(accounts[current].pending, t) \/ t = tx => Has(accounts'[current].pending, t)
    BY <1>6, <2>6 DEF l, Has
  <2>9. KeptInv'
    <3> SUFFICES ASSUME NEW k \in DOMAIN made'
                 PROVE  \/ Has(accounts'[made'[k].account].pending, made'[k].tx)
                        \/ Has(accounts'[made'[k].account].confirmed, made'[k].tx)
                        \/ /\ handler'.at = "confirm_push" /\ handler'.account = made'[k].account
                           /\ handler'.txs[handler'.place] = made'[k].tx
      BY DEF KeptInv, Has
    <3>1. CASE k = n + 1
      BY <2>2, <2>8, <3>1
    <3>2. CASE k \in DOMAIN made
      <4>1. made'[k] = made[k]
        BY <2>2, <3>2
      <4>2. made[k].account \in DOMAIN accounts
        BY <1>1, <3>2 DEF AccountsInv, MadeInv, NamesInv
      <4>3. Has(accounts[made[k].account].pending, made[k].tx) => Has(accounts'[made[k].account].pending, made[k].tx)
        BY <1>6, <2>8, <4>2
      <4>4. accounts'[made[k].account].confirmed = accounts[made[k].account].confirmed
        BY <1>6, <4>2
      <4> QED
        BY <1>1, <1>3, <3>2, <4>1, <4>3, <4>4 DEF KeptInv
    <3> QED
      BY <2>2, <3>1, <3>2
  <2>10. KnownInv'
    <3>1. IsFiniteSet(network') /\ network' \subseteq KnownTxs'
      <4>1. IsFiniteSet(network \cup {tx})
        BY <1>1, FS_AddElement DEF KnownInv
      <4> QED
        BY <1>1, <1>6, <2>7, <4>1, FS_Subset DEF KnownInv
    <3>2. \A k \in DOMAIN handler'.txs : handler'.txs[k] \in KnownTxs'
      BY <1>1, <1>3, <2>7 DEF KnownInv
    <3>3. MinedTxs' \subseteq KnownTxs'
      BY <1>1, <1>3, <2>7 DEF KnownInv, MinedTxs
    <3>4. ASSUME NEW i \in DOMAIN accounts', NEW p \in DOMAIN accounts'[i].pending
          PROVE  accounts'[i].pending[p] \in KnownTxs'
      <4>1. i \in DOMAIN accounts
        BY <1>6 DEF SameNames
      <4>2. CASE i = current
        BY <1>1, <1>6, <2>6, <2>7, <3>4, <4>1, <4>2 DEF KnownInv, l
      <4>3. CASE i # current
        BY <1>1, <1>6, <2>7, <3>4, <4>1, <4>3 DEF KnownInv
      <4> QED
        BY <4>2, <4>3
    <3> QED
      BY <3>1, <3>2, <3>3, <3>4 DEF KnownInv
  <2> QED
    BY <2>9, <2>10
<1> QED
  BY <1>1, <1>2, <1>4, <1>5, <1>6, MadeIs DEF SafeInv

\* The elements of a list to which one is added.
LEMMA HasAppend ==
    ASSUME NEW l, IsList(l), NEW e
    PROVE  \A t : Has(Append(l, e), t) <=> Has(l, t) \/ t = e
<1> DEFINE m == Append(l, e)
<1>1. /\ Len(l) \in Nat /\ DOMAIN l = 1 .. Len(l) /\ DOMAIN m = 1 .. (Len(l) + 1)
      /\ \A i \in 1 .. Len(l) : m[i] = l[i]
      /\ m[Len(l) + 1] = e
  BY ListAppend
<1> HIDE DEF m
<1>2. PICK q \in Nat : q = Len(l)
  BY <1>1
<1>3. (\A k \in 1 .. (q + 1) : k \in 1 .. q \/ k = q + 1) /\ (\A k \in 1 .. q : k \in 1 .. (q + 1)) /\ q + 1 \in 1 .. (q + 1)
  OBVIOUS
<1>4. /\ \A p \in DOMAIN m : p \in DOMAIN l \/ p = q + 1
      /\ \A p \in DOMAIN l : p \in DOMAIN m /\ m[p] = l[p]
      /\ q + 1 \in DOMAIN m /\ m[q + 1] = e
  BY <1>1, <1>2, <1>3, Zenon
<1> QED
  BY <1>4 DEF Has, m

\* The elements of a list from which the first e is removed.
LEMMA HasRemove ==
    ASSUME NEW l, IsList(l), NEW e, Has(l, e)
    PROVE  \A t : /\ Has(RemoveFirst(l, e), t) => Has(l, t)
                  /\ Has(l, t) /\ t # e => Has(RemoveFirst(l, e), t)
<1> DEFINE m == RemoveFirst(l, e)
<1>1. PICK k \in 1 .. Len(l) :
         /\ Len(l) \in Nat \ {0} /\ DOMAIN l = 1 .. Len(l) /\ l[k] = e
         /\ DOMAIN m = 1 .. (Len(l) - 1)
         /\ \A i \in 1 .. (Len(l) - 1) : m[i] = IF i < k THEN l[i] ELSE l[i + 1]
  BY ListRemoveFirst DEF Has
<1> HIDE DEF m
<1>2. PICK n \in Nat \ {0} : n = Len(l)
  BY <1>1
<1>3. k \in 1 .. n /\ DOMAIN l = 1 .. n /\ DOMAIN m = 1 .. (n - 1) /\ \A i \in 1 .. (n - 1) : m[i] = IF i < k THEN l[i] ELSE l[i + 1]
  BY <1>1, <1>2
<1>4. ASSUME NEW i \in 1 .. (n - 1) PROVE \E j \in 1 .. n : l[j] = m[i]
  <2>1. i \in 1 .. n /\ i + 1 \in 1 .. n
    OBVIOUS
  <2> QED
    BY <1>3, <2>1
<1>5. ASSUME NEW j \in 1 .. n, j # k PROVE \E i \in 1 .. (n - 1) : m[i] = l[j]
  <2>1. CASE j < k
    <3>1. j \in 1 .. (n - 1)
      BY <1>3, <2>1
    <3> QED
      BY <1>3, <2>1, <3>1
  <2>2. CASE j > k
    <3>1. PICK i \in 1 .. (n - 1) : i = j - 1
      BY <1>3, <2>2
    <3>2. ~(i < k) /\ i + 1 = j
      BY <1>3, <2>2, <3>1
    <3> QED
      BY <1>3, <3>1, <3>2
  <2> QED
    BY <1>3, <1>5, <2>1, <2>2
<1>6. \A t : Has(m, t) => Has(l, t)
  BY <1>3, <1>4 DEF Has
<1>7. \A t : Has(l, t) /\ t # e => Has(m, t)
  BY <1>1, <1>3, <1>5 DEF Has
<1> QED
  BY <1>6, <1>7 DEF m

\* Steps of the thread that leave the lists of the accounts alone.
LEMMA ListsSame ==
    ASSUME KeptInv, AccountsInv, handler.at # "confirm_push", made' = made,
           \A i \in DOMAIN accounts : /\ accounts'[i].pending = accounts[i].pending
                                      /\ accounts'[i].confirmed = accounts[i].confirmed
    PROVE  KeptInv'
<1>1. \A n \in DOMAIN made : made[n].account \in DOMAIN accounts
  BY DEF AccountsInv, MadeInv, NamesInv
<1> QED
  BY <1>1 DEF KeptInv, Has

\* The thread keeps the transactions of the wallet.
LEMMA PeerKeepsMade == ASSUME SafeInv, PeerStep \/ PeerMessage PROVE KeptInv'
<1>1. WalletInv /\ KeptInv /\ PlaceInv /\ ShapeInv /\ AccountsInv
  BY DEF SafeInv, WalletInv
<1>2. \A n \in DOMAIN made : made[n].account \in DOMAIN accounts
  BY <1>1 DEF AccountsInv, MadeInv, NamesInv
<1>3. ASSUME NEW tx, handle_tx_message(tx) PROVE KeptInv'
  BY <1>1, <1>3, TxMessageIs, ListsSame DEF OnlyPeer
<1>4. CASE involves_user_account
  BY <1>1, <1>4, InvolvesIs, ListsSame DEF OnlyPeer
<1>5. CASE push_pending
  <2>1. /\ OnlyPeer /\ handler.at = "tx_push"
        /\ accounts'[handler.account].pending = Append(accounts[handler.account].pending, handler.txs[1])
        /\ accounts'[handler.account].confirmed = accounts[handler.account].confirmed
        /\ \A i \in DOMAIN accounts \ {handler.account} : accounts'[i] = accounts[i]
    BY <1>1, <1>5, PushPendingIs
  <2>2. IsList(accounts[handler.account].pending)
    BY <1>1, <2>1 DEF PlaceInv, ShapeInv, IsAccount
  <2>3. \A t : Has(accounts[handler.account].pending, t) => Has(accounts'[handler.account].pending, t)
    BY <2>1, <2>2, HasAppend
  <2>4. ASSUME NEW n \in DOMAIN made
        PROVE  \/ Has(accounts'[made[n].account].pending, made[n].tx)
               \/ Has(accounts'[made[n].account].confirmed, made[n].tx)
    BY <1>1, <1>2, <2>1, <2>3 DEF KeptInv
  <2> QED
    BY <2>1, <2>4 DEF KeptInv, OnlyPeer, Has
<1>6. CASE give_me_utxos
  BY <1>1, <1>6, UtxosIs, ListsSame DEF OnlyPeer
<1>7. CASE update_accounts_utxo_set
  BY <1>1, <1>7, UpdateIs, ListsSame DEF OnlyPeer
<1>8. CASE contains_pending_tx
  <2>1. OnlyPeer /\ handler.at = "confirm" /\ handler'.txs = handler.txs
    BY <1>1, <1>8, ContainsPendingIs
  <2>2. CASE accounts' = accounts
    BY <1>1, <2>1, <2>2, ListsSame DEF OnlyPeer
  <2>3. CASE accounts' # accounts
    <3> DEFINE a == handler'.account
               t == handler.txs[handler'.place]
    <3>1. /\ handler'.at = "confirm_push" /\ a \in DOMAIN accounts /\ Has(accounts[a].pending, t)
          /\ accounts'[a].pending = RemoveFirst(accounts[a].pending, t)
          /\ accounts'[a].confirmed = accounts[a].confirmed
          /\ \A i \in DOMAIN accounts \ {a} : accounts'[i] = accounts[i]
      BY <1>1, <1>8, <2>3, ContainsPendingIs
    <3>2. t = handler'.txs[handler'.place] /\ a = handler'.account
      BY <2>1
    <3> HIDE DEF a, t
    <3>3. IsList(accounts[a].pending)
      BY <1>1, <3>1 DEF ShapeInv, IsAccount
    <3>4. \A s : Has(accounts[a].pending, s) /\ s # t => Has(accounts'[a].pending, s)
      BY <3>1, <3>3, HasRemove
    <3>5. ASSUME NEW n \in DOMAIN made
          PROVE  \/ Has(accounts'[made[n].account].pending, made[n].tx)
                 \/ Has(accounts'[made[n].account].confirmed, made[n].tx)
                 \/ a = made[n].account /\ t = made[n].tx
      BY <1>1, <1>2, <2>1, <3>1, <3>4 DEF KeptInv
    <3> QED
      BY <2>1, <3>1, <3>2, <3>5 DEF KeptInv, OnlyPeer, Has
  <2> QED
    BY <2>2, <2>3
<1>9. CASE push_confirmed
  <2> DEFINE a == handler.account
             t == handler.txs[handler.place]
  <2>1. /\ OnlyPeer /\ handler.at = "confirm_push"
        /\ accounts'[a].confirmed = Append(accounts[a].confirmed, t)
        /\ accounts'[a].pending = accounts[a].pending
        /\ \A i \in DOMAIN accounts \ {a} : accounts'[i] = accounts[i]
    BY <1>1, <1>9, PushConfirmedIs
  <2>2. IsList(accounts[a].confirmed)
    BY <1>1, <2>1 DEF PlaceInv, ShapeInv, IsAccount
  <2>3. \A s : Has(accounts[a].confirmed, s) \/ s = t => Has(accounts'[a].confirmed, s)
    BY <2>1, <2>2, HasAppend
  <2>4. \A n \in DOMAIN made :
           \/ Has(accounts[made[n].account].pending, made[n].tx)
           \/ Has(accounts[made[n].account].confirmed, made[n].tx)
           \/ a = made[n].account /\ t = made[n].tx
    BY <1>1 DEF KeptInv
  <2> HIDE DEF a, t
  <2>5. ASSUME NEW n \in DOMAIN made
        PROVE  \/ Has(accounts'[made[n].account].pending, made[n].tx)
               \/ Has(accounts'[made[n].account].confirmed, made[n].tx)
    BY <1>2, <2>1, <2>3, <2>4
  <2> QED
    BY <2>1, <2>5 DEF KeptInv, OnlyPeer, Has
<1>10. CASE include_new_block
  BY <1>1, <1>10, IncludeIs, ListsSame
<1>11. ASSUME NEW txs, handle_block_message(txs) PROVE KeptInv'
  BY <1>1, <1>11, BlockMessageIs, ListsSame
<1>12. ASSUME NEW b \in 1 .. (headers + 1), handle_headers_message(b) PROVE KeptInv'
  <2>1. UNCHANGED trackVars
    BY <1>1, <1>12, HeaderIs
  <2> QED
    BY <1>1, <2>1 DEF KeptInv, Has, trackVars
<1> QED
  BY <1>3, <1>4, <1>5, <1>6, <1>7, <1>8, <1>9, <1>10, <1>11, <1>12 DEF PeerStep, PeerMessage

\* The transactions of a block that is mined.
BlockLists == UNION {SetToSeqs(S) : S \in {T \in SUBSET network : Cardinality(T) <= MaxBlockTxs}}

LEMMA BlockTxs ==
    ASSUME IsFiniteSet(network), NEW txs \in BlockLists
    PROVE  IsList(txs) /\ \A k \in DOMAIN txs : txs[k] \in network
<1>1. PICK S \in SUBSET network : txs \in SetToSeqs(S)
  BY DEF BlockLists
<1>2. txs \in [1 .. Cardinality(S) -> S]
  BY <1>1 DEF SetToSeqs
<1>3. IsFiniteSet(S)
  BY <1>1, FS_Subset
<1>4. Cardinality(S) \in Nat
  BY <1>3, FS_CardinalityType
<1>5. txs \in Seq(S)
  BY <1>2, <1>4
<1> QED
  BY <1>1, <1>2, <1>5, ListIs

\* The transactions of the blocks when one is stored.
LEMMA MinedGrows ==
    ASSUME NEW b, DOMAIN blocks' = DOMAIN blocks \cup {b}, b \notin DOMAIN blocks,
           \A c \in DOMAIN blocks : blocks'[c] = blocks[c]
    PROVE  MinedTxs' = MinedTxs \cup Range(blocks'[b])
<1>1. MinedTxs' = UNION {Range(blocks'[c]) : c \in DOMAIN blocks'}
  BY DEF MinedTxs
<1>2. ASSUME NEW t, t \in MinedTxs' PROVE t \in MinedTxs \cup Range(blocks'[b])
  <2>1. PICK c \in DOMAIN blocks' : t \in Range(blocks'[c])
    BY <1>1, <1>2
  <2>2. CASE c = b
    BY <2>1, <2>2
  <2>3. CASE c \in DOMAIN blocks
    BY <2>1, <2>3 DEF MinedTxs
  <2> QED
    BY <2>2, <2>3
<1>3. ASSUME NEW t \in MinedTxs PROVE t \in MinedTxs'
  <2>1. PICK c \in DOMAIN blocks : t \in Range(blocks[c])
    BY DEF MinedTxs
  <2>2. c \in DOMAIN blocks' /\ t \in Range(blocks'[c])
    BY <2>1
  <2> QED
    BY <1>1, <2>2
<1>4. Range(blocks'[b]) \subseteq MinedTxs'
  BY <1>1
<1> QED
  BY <1>2, <1>3, <1>4

\* Every transaction the thread handles is known.
LEMMA PeerKnows == ASSUME SafeInv, PeerStep \/ PeerMessage PROVE KnownInv'
<1>1. WalletInv /\ KnownInv /\ PlaceInv /\ ShapeInv
  BY DEF SafeInv, WalletInv
<1>2. /\ IsFiniteSet(network) /\ network \subseteq KnownTxs /\ MinedTxs \subseteq KnownTxs
      /\ \A k \in DOMAIN handler.txs : handler.txs[k] \in KnownTxs
      /\ \A i \in DOMAIN accounts : \A t : Has(accounts[i].pending, t) => t \in KnownTxs
  BY <1>1 DEF KnownInv, Has
<1>3. ASSUME made' = made, blocks' = blocks, network' \subseteq network,
             \A k \in DOMAIN handler'.txs : handler'.txs[k] \in KnownTxs,
             DOMAIN accounts' = DOMAIN accounts,
             \A i \in DOMAIN accounts : \A t : Has(accounts'[i].pending, t) => t \in KnownTxs
      PROVE  KnownInv'
  <2>1. KnownTxs' = KnownTxs /\ MinedTxs' = MinedTxs
    BY <1>3, KnownStays DEF MinedTxs
  <2>2. IsFiniteSet(network') /\ network' \subseteq KnownTxs
    BY <1>2, <1>3, FS_Subset
  <2>3. \A i \in DOMAIN accounts' : \A p \in DOMAIN accounts'[i].pending : accounts'[i].pending[p] \in KnownTxs
    BY <1>3 DEF Has
  <2> QED
    BY <1>2, <1>3, <2>1, <2>2, <2>3 DEF KnownInv
<1>4. ASSUME NEW tx, handle_tx_message(tx) PROVE KnownInv'
  <2>1. /\ OnlyPeer /\ UNCHANGED <<accounts, toUI, network>> /\ handler'.txs = <<tx>> /\ tx \in Incoming
    BY <1>1, <1>4, TxMessageIs
  <2>2. \A k \in DOMAIN handler'.txs : handler'.txs[k] \in KnownTxs
    BY <2>1 DEF KnownTxs
  <2> QED
    BY <1>2, <1>3, <2>1, <2>2 DEF OnlyPeer
<1>5. CASE involves_user_account
  <2>1. /\ OnlyPeer /\ UNCHANGED <<accounts, network, late>> /\ (handler' = Idle \/ handler'.txs = handler.txs)
    BY <1>1, <1>5, InvolvesIs
  <2>2. \A k \in DOMAIN handler'.txs : handler'.txs[k] \in KnownTxs
    BY <1>2, <2>1, IdleIs
  <2> QED
    BY <1>2, <1>3, <2>1, <2>2 DEF OnlyPeer
<1>6. CASE push_pending
  <2> DEFINE a == handler.account
  <2>1. /\ OnlyPeer /\ network' = network /\ handler.at = "tx_push" /\ handler'.txs = handler.txs
        /\ DOMAIN accounts' = DOMAIN accounts
        /\ accounts'[a].pending = Append(accounts[a].pending, handler.txs[1])
        /\ \A i \in DOMAIN accounts \ {a} : accounts'[i] = accounts[i]
    BY <1>1, <1>6, PushPendingIs DEF SameNames
  <2>2. IsList(accounts[a].pending) /\ handler.txs[1] \in KnownTxs /\ a \in DOMAIN accounts
    BY <1>1, <1>2, <2>1 DEF PlaceInv, ShapeInv, IsAccount
  <2> HIDE DEF a
  <2>3. \A t : Has(accounts'[a].pending, t) => Has(accounts[a].pending, t) \/ t = handler.txs[1]
    BY <2>1, <2>2, HasAppend
  <2>4. \A i \in DOMAIN accounts : \A t : Has(accounts'[i].pending, t) => t \in KnownTxs
    BY <1>2, <2>1, <2>2, <2>3
  <2> QED
    BY <1>2, <1>3, <2>1, <2>4 DEF OnlyPeer
<1>7. CASE give_me_utxos
  BY <1>1, <1>2, <1>3, <1>7, UtxosIs DEF OnlyPeer
<1>8. CASE update_accounts_utxo_set
  <2>1. /\ OnlyPeer /\ network' = network /\ handler'.txs = handler.txs /\ DOMAIN accounts' = DOMAIN accounts
        /\ \A i \in DOMAIN accounts : accounts'[i].pending = accounts[i].pending
    BY <1>1, <1>8, UpdateIs DEF SameNames
  <2> QED
    BY <1>2, <1>3, <2>1 DEF OnlyPeer
<1>9. CASE contains_pending_tx
  <2> DEFINE a == handler'.account
             u == handler.txs[handler'.place]
  <2>1. /\ OnlyPeer /\ network' = network /\ handler'.txs = handler.txs /\ DOMAIN accounts' = DOMAIN accounts
        /\ \/ accounts' = accounts
           \/ /\ a \in DOMAIN accounts /\ Has(accounts[a].pending, u)
              /\ accounts'[a].pending = RemoveFirst(accounts[a].pending, u)
              /\ \A i \in DOMAIN accounts \ {a} : accounts'[i] = accounts[i]
    BY <1>1, <1>9, ContainsPendingIs DEF SameNames
  <2> HIDE DEF a, u
  <2>2. CASE accounts' = accounts
    BY <1>2, <1>3, <2>1, <2>2 DEF OnlyPeer
  <2>3. CASE accounts' # accounts
    <3>1. IsList(accounts[a].pending)
      BY <1>1, <2>1, <2>3 DEF ShapeInv, IsAccount
    <3>2. \A t : Has(accounts'[a].pending, t) => Has(accounts[a].pending, t)
      BY <2>1, <2>3, <3>1, HasRemove
    <3>3. \A i \in DOMAIN accounts : \A t : Has(accounts'[i].pending, t) => t \in KnownTxs
      BY <1>2, <2>1, <2>3, <3>2
    <3> QED
      BY <1>2, <1>3, <2>1, <3>3 DEF OnlyPeer
  <2> QED
    BY <2>2, <2>3
<1>10. CASE push_confirmed
  <2>1. /\ OnlyPeer /\ network' = network /\ handler'.txs = handler.txs /\ DOMAIN accounts' = DOMAIN accounts
        /\ \A i \in DOMAIN accounts : accounts'[i].pending = accounts[i].pending
    BY <1>1, <1>10, PushConfirmedIs DEF SameNames
  <2> QED
    BY <1>2, <1>3, <2>1 DEF OnlyPeer
<1>11. CASE include_new_block
  <2>1. /\ UNCHANGED <<accounts, made, network>> /\ handler' = Idle
        /\ DOMAIN blocks' = DOMAIN blocks \cup {headers} /\ headers \notin DOMAIN blocks
        /\ blocks'[headers] = handler.txs /\ \A b \in DOMAIN blocks : blocks'[b] = blocks[b]
    BY <1>1, <1>11, IncludeIs
  <2>2. MinedTxs' = MinedTxs \cup Range(handler.txs)
    BY <2>1, MinedGrows
  <2>3. Range(handler.txs) \subseteq KnownTxs
    BY <1>2 DEF Range
  <2>4. KnownTxs' = KnownTxs /\ DOMAIN handler'.txs = {}
    BY <2>1, KnownStays, IdleIs
  <2> QED
    BY <1>1, <2>1, <2>2, <2>3, <2>4 DEF KnownInv
<1>12. ASSUME NEW txs \in BlockLists, handle_block_message(txs) PROVE KnownInv'
  <2>1. UNCHANGED <<accounts, blocks, made>> /\ handler'.txs = txs /\ network' \subseteq network
    BY <1>1, <1>12, BlockMessageIs
  <2>2. \A k \in DOMAIN handler'.txs : handler'.txs[k] \in KnownTxs
    BY <1>2, <1>12, <2>1, BlockTxs
  <2> QED
    BY <1>2, <1>3, <2>1, <2>2
<1>13. ASSUME NEW b \in 1 .. (headers + 1), handle_headers_message(b) PROVE KnownInv'
  <2>1. UNCHANGED trackVars
    BY <1>1, <1>13, HeaderIs
  <2> QED
    BY <1>1, <2>1, TrackSame DEF SafeInv
<1> QED
  BY <1>4, <1>5, <1>6, <1>7, <1>8, <1>9, <1>10, <1>11, <1>12, <1>13 DEF PeerStep, PeerMessage, BlockLists

\* Where the thread goes.
LEMMA PeerPlaces == ASSUME SafeInv, PeerStep \/ PeerMessage PROVE PlaceInv'
<1>1. WalletInv /\ KnownInv /\ PlaceInv /\ ShapeInv
  BY DEF SafeInv, WalletInv
<1>2. /\ IsList(handler.txs) /\ handler.place \in Nat /\ handler.account \in Nat
      /\ \A b \in DOMAIN blocks : IsList(blocks[b])
  BY <1>1 DEF PlaceInv
<1>3. ASSUME NEW tx, handle_tx_message(tx) PROVE PlaceInv'
  <2>1. /\ OnlyPeer /\ handler'.at = "tx_check" /\ handler'.txs = <<tx>> /\ handler'.place = 1 /\ handler'.account = 1
        /\ tx \in Incoming /\ (tx \in MinedTxs => tx \in late')
    BY <1>1, <1>3, TxMessageIs
  <2>2. IsList(handler'.txs) /\ 1 \in DOMAIN handler'.txs /\ handler'.txs[1] = tx
    BY <2>1, ShortLists
  <2>3. MinedTxs' = MinedTxs /\ blocks' = blocks
    BY <2>1 DEF MinedTxs, OnlyPeer
  <2> QED
    BY <1>2, <2>1, <2>2, <2>3 DEF PlaceInv
<1>4. CASE involves_user_account
  <2>1. /\ OnlyPeer /\ UNCHANGED <<accounts, late>> /\ handler.at = "tx_check"
        /\ \/ handler' = Idle
           \/ /\ handler'.at = "tx_push" /\ handler'.txs = handler.txs
              /\ handler'.place \in Nat /\ handler'.account \in DOMAIN accounts
              /\ ~Has(accounts[handler'.account].pending, handler.txs[1])
    BY <1>1, <1>4, InvolvesIs
  <2>2. MinedTxs' = MinedTxs /\ blocks' = blocks
    BY <2>1 DEF MinedTxs, OnlyPeer
  <2>3. CASE handler' = Idle
    BY <1>2, <2>2, <2>3, IdleIs, ShortLists DEF PlaceInv
  <2>4. CASE handler' # Idle
    <3>1. handler'.account \in Nat
      BY <1>1, <2>1, <2>4 DEF ShapeInv, IsList
    <3>2. 1 \in DOMAIN handler.txs /\ handler.txs[1] \in Incoming /\ (handler.txs[1] \in MinedTxs => handler.txs[1] \in late)
      BY <1>1, <2>1 DEF PlaceInv
    <3> QED
      BY <1>2, <2>1, <2>2, <2>4, <3>1, <3>2 DEF PlaceInv, Has
  <2> QED
    BY <2>3, <2>4
<1>5. CASE push_pending
  <2>1. /\ OnlyPeer /\ late' = late /\ handler.at = "tx_push" /\ handler'.at = "tx_check" /\ handler'.txs = handler.txs
        /\ handler'.place = handler.place /\ handler'.account = handler.account + 1
    BY <1>1, <1>5, PushPendingIs
  <2>2. MinedTxs' = MinedTxs /\ blocks' = blocks
    BY <2>1 DEF MinedTxs, OnlyPeer
  <2>3. handler.account + 1 \in Nat
    BY <1>2
  <2>4. 1 \in DOMAIN handler.txs /\ handler.txs[1] \in Incoming /\ (handler.txs[1] \in MinedTxs => handler.txs[1] \in late)
    BY <1>1, <2>1 DEF PlaceInv
  <2> QED
    BY <1>2, <2>1, <2>2, <2>3, <2>4 DEF PlaceInv
<1>6. ASSUME OnlyPeer, handler'.txs = handler.txs, handler'.place \in Nat, handler'.account \in Nat,
             handler'.at \in {"confirm", "include"}
      PROVE  PlaceInv'
  BY <1>2, <1>6 DEF PlaceInv, OnlyPeer
<1>7. CASE give_me_utxos
  <2>1. /\ OnlyPeer /\ handler.at = "utxos" /\ handler'.at = "accounts" /\ handler'.txs = handler.txs
        /\ handler'.place = handler.place /\ handler'.account = handler.account
    BY <1>1, <1>7, UtxosIs
  <2>2. handler.place = 1 /\ handler.account = 1
    BY <1>1, <2>1 DEF PlaceInv
  <2> QED
    BY <1>2, <2>1, <2>2 DEF PlaceInv, OnlyPeer
<1>8. CASE update_accounts_utxo_set
  BY <1>1, <1>2, <1>6, <1>8, UpdateIs
<1>9. CASE contains_pending_tx
  <2>1. /\ OnlyPeer /\ handler'.txs = handler.txs /\ handler'.place \in Nat /\ handler'.account \in Nat
        /\ DOMAIN accounts' = DOMAIN accounts
        /\ \/ handler'.at = "include"
           \/ /\ handler'.at = "confirm_push"
              /\ handler'.place \in DOMAIN handler.txs /\ handler'.account \in DOMAIN accounts
    BY <1>1, <1>9, ContainsPendingIs DEF SameNames
  <2>2. CASE handler'.at = "include"
    BY <1>6, <2>1, <2>2
  <2>3. CASE handler'.at = "confirm_push"
    BY <1>2, <2>1, <2>3 DEF PlaceInv, OnlyPeer
  <2> QED
    BY <2>1, <2>2, <2>3
<1>10. CASE push_confirmed
  <2>1. /\ OnlyPeer /\ handler'.at = "confirm" /\ handler'.txs = handler.txs
        /\ handler'.place = handler.place /\ handler'.account = handler.account + 1
    BY <1>1, <1>10, PushConfirmedIs
  <2>2. handler.account + 1 \in Nat
    BY <1>2
  <2> QED
    BY <1>2, <1>6, <2>1, <2>2
<1>11. CASE include_new_block
  <2>1. /\ handler' = Idle /\ DOMAIN blocks' = DOMAIN blocks \cup {headers}
        /\ blocks'[headers] = handler.txs /\ \A b \in DOMAIN blocks : blocks'[b] = blocks[b]
    BY <1>1, <1>11, IncludeIs
  <2>2. \A b \in DOMAIN blocks' : IsList(blocks'[b])
    BY <1>2, <2>1
  <2> QED
    BY <2>1, <2>2, IdleIs, ShortLists DEF PlaceInv
<1>12. ASSUME NEW txs \in BlockLists, handle_block_message(txs) PROVE PlaceInv'
  <2>1. /\ blocks' = blocks /\ handler'.at = "utxos" /\ handler'.txs = txs
        /\ handler'.place = 1 /\ handler'.account = 1
    BY <1>1, <1>12, BlockMessageIs
  <2>2. IsList(txs)
    BY <1>1, <1>12, BlockTxs DEF KnownInv
  <2> QED
    BY <1>2, <2>1, <2>2 DEF PlaceInv
<1>13. ASSUME NEW b \in 1 .. (headers + 1), handle_headers_message(b) PROVE PlaceInv'
  <2>1. UNCHANGED trackVars
    BY <1>1, <1>13, HeaderIs
  <2> QED
    BY <1>1, <2>1, TrackSame DEF SafeInv
<1> QED
  BY <1>3, <1>4, <1>5, <1>7, <1>8, <1>9, <1>10, <1>11, <1>12, <1>13 DEF PeerStep, PeerMessage, BlockLists

--------------------------------------------------------------------------------
(***************************************************************************)
(* The theorems that hold for any transactions.                            *)
(***************************************************************************)
\* Init establishes the invariant.
LEMMA InitSafe == ASSUME Init PROVE SafeInv
<1>1. /\ accounts = <<>> /\ current = 0 /\ toWallet = <<>> /\ toUI = <<Event("InitializeUITabs")>> /\ made = <<>>
      /\ handler = Idle /\ wallet.at = "loop" /\ headers = AMOUNT_TO_SHOW /\ network = Incoming
      /\ header_heights = [b \in 1 .. headers |-> b - 1] /\ again = {}
      /\ \E stored \in SUBSET (1 .. headers) : blocks = [b \in stored |-> <<>>]
  BY DEF Init
<1>2. /\ DOMAIN ui = UIFields /\ ui.dropdown = <<>> /\ ui.selected = 0 /\ ui.st = "starting" /\ ui.blocks = <<>>
  BY DEF Init, UIFields
<1>3. AMOUNT_TO_SHOW \in Nat \ {0} /\ IsFiniteSet(Incoming)
  BY WalletAssumption
<1>4. IsList(toUI) /\ DOMAIN toUI = {1} /\ toUI[1].type = "InitializeUITabs"
  BY <1>1, ShortLists DEF Event
<1>5. ShapeInv
  BY <1>1, <1>2, <1>4, ShortLists, IdleIs DEF ShapeInv
<1>6. LoginInv
  BY <1>1, <1>4 DEF LoginInv, Reply
<1>7. NamesInv
  BY <1>1, <1>2, <1>4 DEF NamesInv, Added
<1>8. SelectInv
  BY <1>1, <1>2 DEF SelectInv, Chosen
<1>9. MadeInv
  BY <1>1 DEF MadeInv
<1>10. DOMAIN blocks \subseteq 1 .. headers /\ \A b \in DOMAIN blocks : blocks[b] = <<>>
  BY <1>1
<1>11. StoredInv /\ HeightsInv
  BY <1>1, <1>3, <1>10, IdleIs DEF StoredInv, HeightsInv, BlockPhases
<1>12. OpeningInv
  BY <1>2, <1>4 DEF OpeningInv
<1>13. ListedInv
  <2>1. \A b \in 1 .. headers : ~(b > AMOUNT_TO_SHOW)
    BY <1>1, <1>3
  <2> QED
    BY <1>2, <1>4, <1>10, <2>1 DEF ListedInv
<1>14. SearchInv /\ PanickedInv
  BY <1>1, <1>2, <1>4 DEF SearchInv, TrueAnswer, PanickedInv
<1>15. KeptInv
  BY <1>1 DEF KeptInv
<1>16. MinedTxs = {}
  BY <1>10 DEF MinedTxs, Range
<1>17. KnownInv
  BY <1>1, <1>3, <1>16, IdleIs DEF KnownInv, KnownTxs
<1>18. PlaceInv
  BY <1>1, <1>10, IdleIs, ShortLists DEF PlaceInv
<1> QED
  BY <1>5, <1>6, <1>7, <1>8, <1>9, <1>11, <1>12, <1>13, <1>14, <1>15, <1>17, <1>18
     DEF SafeInv, WalletInv, AccountsInv, BlocksInv

\* Every step keeps it.
LEMMA NextSafe == ASSUME SafeInv, [Next]_vars PROVE SafeInv'
<1>1. WalletInv /\ KeptInv /\ KnownInv /\ PlaceInv
  BY DEF SafeInv
<1>2. ASSUME WalletInv' /\ UNCHANGED trackVars PROVE SafeInv'
  BY <1>1, <1>2, TrackSame DEF SafeInv
<1>3. CASE Clicks
  BY <1>1, <1>2, <1>3, ClicksKeep
<1>4. CASE UIStep
  BY <1>1, <1>2, <1>4, UIStepKeeps
<1>5. CASE WalletStep
  <2>1. CASE add_account
    BY <1>1, <1>2, <2>1, AddAccountKeepsAll
  <2>2. CASE push_account
    BY <2>2, PushAccountTracks
  <2>3. CASE change_account
    BY <1>1, <1>2, <2>3, ChangeAccountKeepsAll
  <2>4. CASE get_current_account \/ handle_get_transactions
    BY <1>1, <1>2, <2>4, GettersKeep
  <2>5. CASE handle_make_transaction
    BY <2>5, MakeTracks
  <2>6. CASE handle_search_block \/ handle_search_header \/ handle_poi
    BY <1>1, <1>2, <2>6, SearchesKeep
  <2> QED
    BY <1>5, <2>1, <2>2, <2>3, <2>4, <2>5, <2>6 DEF WalletStep
<1>6. CASE PeerStep \/ PeerMessage
  BY <1>1, <1>6, PeerKeepsAll, PeerKeepsMade, PeerKnows, PeerPlaces DEF SafeInv
<1>7. CASE UNCHANGED vars
  <2>1. UNCHANGED <<accounts, current, wallet, toWallet, toUI, handler, headers, header_heights, again, blocks, ui, made, network, late>>
    BY <1>7 DEF vars, chainVars, walletVars, uiVars, netVars, histVars
  <2>2. ShapeInv' /\ LoginInv'
    BY <1>1, <2>1 DEF WalletInv, AccountsInv, ShapeInv, LoginInv
  <2>3. NamesInv' /\ SelectInv' /\ MadeInv'
    BY <1>1, <2>1 DEF WalletInv, AccountsInv, NamesInv, SelectInv, MadeInv
  <2>4. BlocksInv'
    BY <1>1, <2>1 DEF WalletInv, BlocksInv, StoredInv, HeightsInv, OpeningInv, ListedInv, SearchInv, TrueAnswer, PanickedInv
  <2>5. WalletInv' /\ UNCHANGED trackVars
    BY <2>1, <2>2, <2>3, <2>4 DEF WalletInv, AccountsInv, trackVars
  <2> QED
    BY <1>2, <2>5
<1> QED
  BY <1>3, <1>4, <1>5, <1>6, <1>7 DEF Next

\* The threads of the wallet, the interface and the peer keep the invariant.
THEOREM WalletSafe == Spec => []SafeInv
<1>1. Init => SafeInv
  BY InitSafe
<1>2. SafeInv /\ [Next]_vars => SafeInv'
  BY NextSafe
<1> QED
  BY <1>1, <1>2, PTL DEF Spec

--------------------------------------------------------------------------------
(***************************************************************************)
(* What is pending, when others do not make the wallet's transactions.     *)
(***************************************************************************)
\* The invariant in terms of any transaction.
LEMMA PendingIs ==
    PendingInv <=> \A i \in DOMAIN accounts : \A t :
                      /\ Twice(accounts[i].pending, t) => t \in MadeTwice
                      /\ Has(accounts[i].pending, t) /\ Gone(t, i) => t \in late \cup MadeTwice
BY DEF PendingInv, DuplicatesInv, GoneInv, Twice, Has, Range

\* The history of the transactions made does not shrink.
LEMMA TwiceStays ==
    ASSUME DOMAIN made \subseteq DOMAIN made', \A n \in DOMAIN made : made'[n] = made[n]
    PROVE  MadeTwice \subseteq MadeTwice'
BY DEF MadeTwice

\* Steps that add nothing to what is pending, mined or passed.
LEMMA PendingKept ==
    ASSUME PendingInv, made' = made, late \subseteq late', DOMAIN accounts' = DOMAIN accounts,
           \A i \in DOMAIN accounts : accounts'[i].pending = accounts[i].pending,
           \A i \in DOMAIN accounts : \A t :
              /\ Has(accounts[i].pending, t)
              /\ t \in MinedTxs' \/ \E k \in DOMAIN handler'.txs : handler'.txs[k] = t /\ Passed(k, i)'
              => Gone(t, i)
    PROVE  PendingInv'
<1>1. MadeTwice' = MadeTwice
  BY DEF MadeTwice
<1>2. ASSUME NEW i \in DOMAIN accounts', NEW t \in Range(accounts'[i].pending),
             t \in MinedTxs' \/ \E k \in DOMAIN handler'.txs : handler'.txs[k] = t /\ Passed(k, i)'
      PROVE  t \in late' \cup MadeTwice'
  <2>1. Has(accounts[i].pending, t)
    BY <1>2 DEF Has, Range
  <2>2. Gone(t, i)
    BY <1>2, <2>1
  <2> QED
    BY <1>1, <2>1, <2>2, PendingIs
<1>3. DuplicatesInv'
  BY <1>1 DEF PendingInv, DuplicatesInv, Twice, Range
<1>4. GoneInv'
  BY <1>2 DEF GoneInv, Gone
<1> QED
  BY <1>3, <1>4 DEF PendingInv

\* An element that is added is twice in the list only if it was there.
LEMMA TwiceAppend ==
    ASSUME NEW l, IsList(l), NEW e
    PROVE  \A t : Twice(Append(l, e), t) => Twice(l, t) \/ (t = e /\ Has(l, e))
<1> DEFINE m == Append(l, e)
<1>1. /\ Len(l) \in Nat /\ DOMAIN l = 1 .. Len(l) /\ DOMAIN m = 1 .. (Len(l) + 1)
      /\ \A i \in 1 .. Len(l) : m[i] = l[i]
      /\ m[Len(l) + 1] = e
  BY ListAppend
<1> HIDE DEF m
<1>2. PICK n \in Nat : n = Len(l)
  BY <1>1
<1>3. \A k \in 1 .. (n + 1) : k \in 1 .. n \/ k = n + 1
  OBVIOUS
<1>4. /\ \A p \in DOMAIN m : p \in DOMAIN l \/ p = n + 1
      /\ \A p \in DOMAIN l : m[p] = l[p]
      /\ m[n + 1] = e
  BY <1>1, <1>2, <1>3, Zenon
<1> QED
  BY <1>4 DEF Twice, Has, m

\* What is left of a list is twice in it only if it was twice in the list.
LEMMA TwiceRemove ==
    ASSUME NEW l, IsList(l), NEW e, Has(l, e)
    PROVE  /\ \A t : Twice(RemoveFirst(l, e), t) => Twice(l, t)
           /\ Has(RemoveFirst(l, e), e) => Twice(l, e)
<1> DEFINE m == RemoveFirst(l, e)
<1>1. PICK k \in 1 .. Len(l) :
         /\ Len(l) \in Nat \ {0} /\ DOMAIN l = 1 .. Len(l) /\ l[k] = e
         /\ DOMAIN m = 1 .. (Len(l) - 1)
         /\ \A i \in 1 .. (Len(l) - 1) : m[i] = IF i < k THEN l[i] ELSE l[i + 1]
  BY ListRemoveFirst DEF Has
<1> HIDE DEF m
<1>2. PICK n \in Nat \ {0} : n = Len(l)
  BY <1>1
<1>3. k \in 1 .. n /\ DOMAIN l = 1 .. n /\ DOMAIN m = 1 .. (n - 1) /\ \A i \in 1 .. (n - 1) : m[i] = IF i < k THEN l[i] ELSE l[i + 1]
  BY <1>1, <1>2
<1> DEFINE old(i) == IF i < k THEN i ELSE i + 1
<1>4. \A i \in 1 .. (n - 1) : old(i) \in 1 .. n /\ old(i) # k /\ m[i] = l[old(i)]
  BY <1>3
<1>5. \A i, j \in 1 .. (n - 1) : i # j => old(i) # old(j)
  BY <1>3
<1> HIDE DEF old
<1>6. \A t : Twice(m, t) => Twice(l, t)
  BY <1>3, <1>4, <1>5 DEF Twice
<1>7. Has(m, e) => Twice(l, e)
  BY <1>1, <1>3, <1>4 DEF Twice, Has
<1> QED
  BY <1>6, <1>7 DEF m

\* A transaction is made again, or for the first time.
LEMMA MakePending == ASSUME SafeInv, PendingInv, Others', handle_make_transaction PROVE PendingInv'
<1>1. WalletInv /\ KnownInv /\ ShapeInv
  BY DEF SafeInv, WalletInv
<1>2. UNCHANGED <<handler, blocks, late>>
  BY <1>1, MadeIs
<1>3. MinedTxs' = MinedTxs /\ \A k, i : Passed(k, i)' <=> Passed(k, i)
  BY <1>2 DEF MinedTxs, Passed
<1>4. CASE UNCHANGED <<accounts, network, made>>
  BY <1>2, <1>3, <1>4, PendingKept DEF Gone
<1>5. ASSUME NEW tx, current \in DOMAIN accounts, SameNames,
             accounts'[current].pending = Append(accounts[current].pending, tx),
             \A i \in DOMAIN accounts \ {current} : accounts'[i] = accounts[i],
             Len(made) \in Nat, DOMAIN made = 1 .. Len(made), DOMAIN made' = 1 .. (Len(made) + 1),
             \A n \in DOMAIN made : made'[n] = made[n],
             made'[Len(made) + 1].tx = tx
      PROVE  PendingInv'
  <2>1. PICK n \in Nat : n = Len(made)
    BY <1>5
  <2>2. /\ \A k \in DOMAIN made : k \in DOMAIN made' /\ made'[k] = made[k] /\ k # n + 1
        /\ n + 1 \in DOMAIN made' /\ made'[n + 1].tx = tx
    <3>1. (\A k \in 1 .. n : k \in 1 .. (n + 1) /\ k # n + 1) /\ n + 1 \in 1 .. (n + 1)
      OBVIOUS
    <3> QED
      BY <1>5, <2>1, <3>1, Zenon
  <2>3. MadeTwice \subseteq MadeTwice'
    BY <2>2, TwiceStays
  <2>4. tx \notin Incoming
    BY <2>2 DEF Others
  <2>5. tx \in KnownTxs => tx \in MadeTwice'
    <3> SUFFICES ASSUME tx \in KnownTxs PROVE tx \in MadeTwice'
      OBVIOUS
    <3>1. PICK k \in DOMAIN made : made[k].tx = tx
      BY <2>4 DEF KnownTxs
    <3>2. k \in DOMAIN made' /\ made'[k].tx = tx /\ k # n + 1
      BY <2>2, <3>1
    <3> QED
      BY <2>2, <3>2 DEF MadeTwice
  <2>6. /\ MinedTxs \subseteq KnownTxs /\ \A k \in DOMAIN handler.txs : handler.txs[k] \in KnownTxs
        /\ \A t : Has(accounts[current].pending, t) => t \in KnownTxs
    BY <1>1, <1>5 DEF KnownInv, Has
  <2>7. IsList(accounts[current].pending)
    BY <1>1, <1>5 DEF ShapeInv, IsAccount
  <2>8. /\ \A t : Twice(accounts'[current].pending, t) => Twice(accounts[current].pending, t) \/ t \in MadeTwice'
        /\ \A t : Has(accounts'[current].pending, t) => Has(accounts[current].pending, t) \/ t = tx
    BY <1>5, <2>5, <2>6, <2>7, TwiceAppend, HasAppend
  <2>9. DuplicatesInv'
    <3> SUFFICES ASSUME NEW i \in DOMAIN accounts', NEW t, Twice(accounts'[i].pending, t) PROVE t \in MadeTwice'
      BY DEF DuplicatesInv, Twice
    <3>1. i \in DOMAIN accounts
      BY <1>5 DEF SameNames
    <3>2. Twice(accounts[i].pending, t) \/ t \in MadeTwice'
      BY <1>5, <2>8, <3>1
    <3> QED
      BY <2>3, <3>1, <3>2, PendingIs
  <2>10. GoneInv'
    <3> SUFFICES ASSUME NEW i \in DOMAIN accounts', NEW t \in Range(accounts'[i].pending),
                        t \in MinedTxs' \/ \E k \in DOMAIN handler'.txs : handler'.txs[k] = t /\ Passed(k, i)'
                 PROVE  t \in late' \cup MadeTwice'
      BY DEF GoneInv, Gone
    <3>1. i \in DOMAIN accounts /\ Has(accounts'[i].pending, t)
      BY <1>5 DEF SameNames, Has, Range
    <3>2. Gone(t, i)
      BY <1>2, <1>3 DEF Gone
    <3>3. CASE Has(accounts[i].pending, t)
      BY <1>2, <2>3, <3>1, <3>2, <3>3, PendingIs
    <3>4. CASE ~Has(accounts[i].pending, t)
      <4>1. t = tx
        BY <1>5, <2>8, <3>1, <3>4
      <4>2. tx \in KnownTxs
        BY <2>6, <3>2, <4>1 DEF Gone
      <4> QED
        BY <2>5, <4>1, <4>2
    <3> QED
      BY <3>3, <3>4
  <2> QED
    BY <2>9, <2>10 DEF PendingInv
<1> QED
  BY <1>1, <1>4, <1>5, MadeIs

\* An account is added: nothing is pending in it.
LEMMA PushAccountPending == ASSUME SafeInv, PendingInv, push_account PROVE PendingInv'
<1>1. WalletInv /\ ShapeInv
  BY DEF SafeInv, WalletInv
<1>2. /\ UNCHANGED <<made, handler, blocks, late>>
      /\ accounts' = Append(accounts, wallet.account) /\ wallet.account.pending = <<>>
  BY <1>1, PushAccountKeepsAll
<1>3. /\ Len(accounts) \in Nat /\ DOMAIN accounts = 1 .. Len(accounts) /\ DOMAIN accounts' = 1 .. (Len(accounts) + 1)
      /\ \A i \in 1 .. Len(accounts) : accounts'[i] = accounts[i]
      /\ accounts'[Len(accounts) + 1] = wallet.account
  BY <1>1, <1>2, ListAppend DEF ShapeInv
<1>4. PICK n \in Nat : n = Len(accounts)
  BY <1>3
<1>5. \A i \in DOMAIN accounts' : \/ i \in DOMAIN accounts /\ accounts'[i] = accounts[i]
                                  \/ accounts'[i].pending = <<>>
  <2>1. \A i \in 1 .. (n + 1) : i \in 1 .. n \/ i = n + 1
    OBVIOUS
  <2> QED
    BY <1>2, <1>3, <1>4, <2>1, Zenon
<1>6. MinedTxs' = MinedTxs /\ MadeTwice' = MadeTwice /\ \A k, i : Passed(k, i)' <=> Passed(k, i)
  BY <1>2 DEF MinedTxs, MadeTwice, Passed
<1>7. DuplicatesInv'
  BY <1>5, <1>6 DEF PendingInv, DuplicatesInv, Twice, Range
<1>8. ASSUME NEW i \in DOMAIN accounts', NEW t \in Range(accounts'[i].pending),
             t \in MinedTxs' \/ \E k \in DOMAIN handler'.txs : handler'.txs[k] = t /\ Passed(k, i)'
      PROVE  t \in late' \cup MadeTwice'
  <2>1. i \in DOMAIN accounts /\ t \in Range(accounts[i].pending)
    BY <1>5, <1>8, ShortLists
  <2>2. Gone(t, i)
    BY <1>2, <1>6, <1>8 DEF Gone
  <2> QED
    BY <1>2, <1>6, <2>1, <2>2 DEF PendingInv, GoneInv
<1>9. GoneInv'
  BY <1>8 DEF GoneInv, Gone
<1> QED
  BY <1>7, <1>9 DEF PendingInv

\* What nobody changes that has to do with what is pending stays right.
LEMMA PendingSame == ASSUME SafeInv, PendingInv, UNCHANGED trackVars PROVE PendingInv'
<1>1. UNCHANGED <<accounts, made, handler, blocks, late>>
  BY DEF trackVars
<1>2. MinedTxs' = MinedTxs /\ \A k, i : Passed(k, i)' <=> Passed(k, i)
  BY <1>1 DEF MinedTxs, Passed
<1> QED
  BY <1>1, <1>2, PendingKept DEF Gone

\* The thread of the peer, when it takes a transaction or a block.
LEMMA PeerPending ==
    ASSUME SafeInv, PendingInv, PeerMessage \/ involves_user_account \/ push_pending \/ give_me_utxos
    PROVE  PendingInv'
<1>1. WalletInv /\ PlaceInv /\ ShapeInv
  BY DEF SafeInv, WalletInv
<1>2. ASSUME handler'.at \in {"idle", "tx_check", "tx_push", "utxos", "accounts"},
             made' = made, late \subseteq late', blocks' = blocks, accounts' = accounts
      PROVE  PendingInv'
  <2>1. MinedTxs' = MinedTxs /\ \A k, i : ~Passed(k, i)'
    BY <1>2 DEF MinedTxs, Passed
  <2> QED
    BY <1>2, <2>1, PendingKept DEF Gone
<1>3. ASSUME NEW tx, handle_tx_message(tx) PROVE PendingInv'
  <2>1. OnlyPeer /\ accounts' = accounts /\ handler'.at = "tx_check" /\ late \subseteq late'
    BY <1>1, <1>3, TxMessageIs
  <2> QED
    BY <1>2, <2>1 DEF OnlyPeer
<1>4. CASE involves_user_account
  <2>1. OnlyPeer /\ accounts' = accounts /\ late' = late /\ (handler' = Idle \/ handler'.at = "tx_push")
    BY <1>1, <1>4, InvolvesIs
  <2> QED
    BY <1>2, <2>1, IdleIs DEF OnlyPeer
<1>5. CASE give_me_utxos
  <2>1. OnlyPeer /\ accounts' = accounts /\ late' = late /\ handler'.at = "accounts"
    BY <1>1, <1>5, UtxosIs
  <2> QED
    BY <1>2, <2>1 DEF OnlyPeer
<1>6. ASSUME NEW txs, handle_block_message(txs) PROVE PendingInv'
  <2>1. UNCHANGED <<accounts, blocks, made, late>> /\ handler'.at = "utxos"
    BY <1>1, <1>6, BlockMessageIs
  <2> QED
    BY <1>2, <2>1
<1>7. CASE push_pending
  <2> DEFINE a == handler.account
             u == handler.txs[1]
  <2>1. /\ OnlyPeer /\ late' = late /\ handler.at = "tx_push" /\ handler'.at = "tx_check"
        /\ DOMAIN accounts' = DOMAIN accounts
        /\ accounts'[a].pending = Append(accounts[a].pending, u)
        /\ \A i \in DOMAIN accounts \ {a} : accounts'[i] = accounts[i]
    BY <1>1, <1>7, PushPendingIs DEF SameNames
  <2>2. IsList(accounts[a].pending) /\ a \in DOMAIN accounts /\ ~Has(accounts[a].pending, u) /\ (u \in MinedTxs => u \in late)
    BY <1>1, <2>1 DEF PlaceInv, ShapeInv, IsAccount
  <2> HIDE DEF a, u
  <2>3. /\ \A t : Twice(accounts'[a].pending, t) => Twice(accounts[a].pending, t)
        /\ \A t : Has(accounts'[a].pending, t) => Has(accounts[a].pending, t) \/ t = u
    BY <2>1, <2>2, TwiceAppend, HasAppend
  <2>4. MinedTxs' = MinedTxs /\ MadeTwice' = MadeTwice /\ \A k, i : ~Passed(k, i)'
    BY <2>1 DEF MinedTxs, MadeTwice, Passed, OnlyPeer
  <2>5. \A i \in DOMAIN accounts : \A t : Twice(accounts'[i].pending, t) => t \in MadeTwice
    BY <2>1, <2>3, PendingIs
  <2>6. DuplicatesInv'
    BY <2>1, <2>4, <2>5 DEF DuplicatesInv
  <2>7. ASSUME NEW i \in DOMAIN accounts, NEW t, Has(accounts'[i].pending, t), t \in MinedTxs
        PROVE  t \in late \cup MadeTwice
    <3>1. Has(accounts[i].pending, t) \/ t = u
      BY <2>1, <2>3, <2>7
    <3>2. Gone(t, i)
      BY <2>7 DEF Gone
    <3> QED
      BY <2>2, <2>7, <3>1, <3>2, PendingIs
  <2>8. GoneInv'
    <3> SUFFICES ASSUME NEW i \in DOMAIN accounts', NEW t \in Range(accounts'[i].pending), t \in MinedTxs'
                 PROVE  t \in late' \cup MadeTwice'
      BY <2>4 DEF GoneInv, Gone
    <3>1. Has(accounts'[i].pending, t)
      BY DEF Has, Range
    <3> QED
      BY <2>1, <2>4, <2>7, <3>1
  <2> QED
    BY <2>6, <2>8 DEF PendingInv
<1>8. ASSUME NEW b \in 1 .. (headers + 1), handle_headers_message(b) PROVE PendingInv'
  <2>1. WalletInv' /\ UNCHANGED trackVars
    BY <1>1, <1>8, HeaderIs
  <2> QED
    BY <1>8, <2>1, PendingSame
<1> QED
  BY <1>3, <1>4, <1>5, <1>6, <1>7, <1>8 DEF PeerMessage

\* The thread of the peer, when it goes through a block.
LEMMA BlockPending ==
    ASSUME SafeInv, PendingInv,
           update_accounts_utxo_set \/ contains_pending_tx \/ push_confirmed \/ include_new_block
    PROVE  PendingInv'
<1>1. WalletInv /\ PlaceInv /\ ShapeInv
  BY DEF SafeInv, WalletInv
<1>2. DOMAIN accounts \subseteq Nat \ {0} /\ DOMAIN handler.txs \subseteq Nat \ {0} /\ handler.place \in Nat /\ handler.account \in Nat
  <2>1. /\ Len(accounts) \in Nat /\ DOMAIN accounts = 1 .. Len(accounts)
        /\ Len(handler.txs) \in Nat /\ DOMAIN handler.txs = 1 .. Len(handler.txs)
    BY <1>1 DEF ShapeInv, PlaceInv, IsList
  <2>2. \A n \in Nat : 1 .. n \subseteq Nat \ {0}
    OBVIOUS
  <2> QED
    BY <1>1, <2>1, <2>2 DEF PlaceInv
<1>3. CASE update_accounts_utxo_set
  <2>1. /\ OnlyPeer /\ late' = late /\ handler.at = "accounts" /\ handler'.at = "confirm" /\ handler'.txs = handler.txs
        /\ handler'.place = handler.place /\ handler'.account = handler.account
        /\ DOMAIN accounts' = DOMAIN accounts
        /\ \A i \in DOMAIN accounts : accounts'[i].pending = accounts[i].pending
    BY <1>1, <1>3, UpdateIs DEF SameNames
  <2>2. handler.place = 1 /\ handler.account = 1
    BY <1>1, <2>1 DEF PlaceInv
  <2>3. \A k \in DOMAIN handler'.txs, i \in DOMAIN accounts : ~Passed(k, i)'
    BY <1>2, <2>1, <2>2 DEF Passed
  <2>4. MinedTxs' = MinedTxs
    BY <2>1 DEF MinedTxs, OnlyPeer
  <2> QED
    BY <2>1, <2>3, <2>4, PendingKept DEF Gone, OnlyPeer
<1>4. CASE push_confirmed
  <2>1. /\ OnlyPeer /\ late' = late /\ handler.at = "confirm_push" /\ handler'.at = "confirm" /\ handler'.txs = handler.txs
        /\ handler'.place = handler.place /\ handler'.account = handler.account + 1
        /\ DOMAIN accounts' = DOMAIN accounts /\ handler.account \in DOMAIN accounts
        /\ accounts'[handler.account].pending = accounts[handler.account].pending
        /\ \A i \in DOMAIN accounts \ {handler.account} : accounts'[i] = accounts[i]
    BY <1>1, <1>4, PushConfirmedIs DEF SameNames, PlaceInv
  <2>2. \A i \in DOMAIN accounts : accounts'[i].pending = accounts[i].pending
    BY <2>1
  <2>3. \A k \in DOMAIN handler'.txs, i \in DOMAIN accounts : Passed(k, i)' => Passed(k, i)
    BY <1>2, <2>1 DEF Passed
  <2>4. MinedTxs' = MinedTxs
    BY <2>1 DEF MinedTxs, OnlyPeer
  <2> QED
    BY <2>1, <2>2, <2>3, <2>4, PendingKept DEF Gone, OnlyPeer
<1>5. CASE include_new_block
  <2>1. /\ UNCHANGED <<accounts, made, late>> /\ handler.at = "include" /\ handler' = Idle
        /\ DOMAIN blocks' = DOMAIN blocks \cup {headers} /\ headers \notin DOMAIN blocks
        /\ blocks'[headers] = handler.txs /\ \A b \in DOMAIN blocks : blocks'[b] = blocks[b]
    BY <1>1, <1>5, IncludeIs
  <2>2. MinedTxs' = MinedTxs \cup Range(handler.txs)
    BY <2>1, MinedGrows
  <2>3. \A i, t : t \in MinedTxs' => Gone(t, i)
    BY <2>1, <2>2 DEF Gone, Passed, Range
  <2>4. DOMAIN handler'.txs = {}
    BY <2>1, IdleIs
  <2> QED
    BY <2>1, <2>3, <2>4, PendingKept
<1>6. CASE contains_pending_tx
  <2> DEFINE a == handler'.account
             c == handler'.place
             u == handler.txs[c]
  <2>1. /\ OnlyPeer /\ late' = late /\ handler.at = "confirm" /\ handler'.txs = handler.txs
        /\ DOMAIN accounts' = DOMAIN accounts
        /\ \/ /\ handler'.at = "include" /\ accounts' = accounts
              /\ \A k \in DOMAIN handler.txs, i \in DOMAIN accounts :
                    ToGo(k, i) => ~Has(accounts[i].pending, handler.txs[k])
           \/ /\ handler'.at = "confirm_push" /\ c \in DOMAIN handler.txs /\ a \in DOMAIN accounts
              /\ Has(accounts[a].pending, u) /\ accounts'[a].pending = RemoveFirst(accounts[a].pending, u)
              /\ \A i \in DOMAIN accounts \ {a} : accounts'[i] = accounts[i]
              /\ \A k \in DOMAIN handler.txs, i \in DOMAIN accounts :
                    ToGo(k, i) /\ (k < c \/ (k = c /\ i < a)) => ~Has(accounts[i].pending, handler.txs[k])
    BY <1>1, <1>6, ContainsPendingIs DEF SameNames
  <2>2. \A k \in DOMAIN handler.txs, i \in DOMAIN accounts : ~ToGo(k, i) => Passed(k, i)
    BY <1>2, <2>1 DEF ToGo, Passed
  <2>3. MinedTxs' = MinedTxs /\ MadeTwice' = MadeTwice
    BY <2>1 DEF MinedTxs, MadeTwice, OnlyPeer
  <2>4. CASE handler'.at = "include"
    <3>1. /\ accounts' = accounts
          /\ \A k \in DOMAIN handler.txs, i \in DOMAIN accounts :
                ToGo(k, i) => ~Has(accounts[i].pending, handler.txs[k])
      BY <2>1, <2>4
    <3>2. \A i \in DOMAIN accounts : \A t :
             /\ Has(accounts[i].pending, t)
             /\ t \in MinedTxs' \/ \E k \in DOMAIN handler'.txs : handler'.txs[k] = t /\ Passed(k, i)'
             => Gone(t, i)
      BY <2>1, <2>2, <2>3, <3>1 DEF Gone
    <3> QED
      BY <2>1, <3>1, <3>2, PendingKept DEF OnlyPeer
  <2>5. CASE handler'.at = "confirm_push"
    <3>1. /\ c \in DOMAIN handler.txs /\ a \in DOMAIN accounts
          /\ Has(accounts[a].pending, u) /\ accounts'[a].pending = RemoveFirst(accounts[a].pending, u)
          /\ \A i \in DOMAIN accounts \ {a} : accounts'[i] = accounts[i]
          /\ \A k \in DOMAIN handler.txs, i \in DOMAIN accounts :
                ToGo(k, i) /\ (k < c \/ (k = c /\ i < a)) => ~Has(accounts[i].pending, handler.txs[k])
      BY <2>1, <2>5
    <3>2. \A k, i : Passed(k, i)' <=> k < c \/ (k = c /\ i < a) \/ (k = c /\ i = a)
      BY <2>5 DEF Passed
    <3>3. u = handler.txs[c]
      OBVIOUS
    <3>4. IsList(accounts[a].pending)
      BY <1>1, <3>1 DEF ShapeInv, IsAccount
    <3> HIDE DEF a, c, u
    <3>5. /\ \A t : Twice(accounts'[a].pending, t) => Twice(accounts[a].pending, t)
          /\ Has(accounts'[a].pending, u) => Twice(accounts[a].pending, u)
          /\ \A t : Has(accounts'[a].pending, t) => Has(accounts[a].pending, t)
      BY <3>1, <3>4, TwiceRemove, HasRemove
    <3>6. \A i \in DOMAIN accounts : \A t : /\ Twice(accounts'[i].pending, t) => Twice(accounts[i].pending, t)
                                            /\ Has(accounts'[i].pending, t) => Has(accounts[i].pending, t)
      BY <3>1, <3>5
    <3>7. DuplicatesInv'
      BY <2>1, <2>3, <3>6, PendingIs DEF DuplicatesInv
    <3>8. GoneInv'
      <4> SUFFICES ASSUME NEW i \in DOMAIN accounts', NEW t \in Range(accounts'[i].pending),
                          t \in MinedTxs' \/ \E k \in DOMAIN handler'.txs : handler'.txs[k] = t /\ Passed(k, i)'
                   PROVE  t \in late' \cup MadeTwice'
        BY DEF GoneInv, Gone
      <4>1. i \in DOMAIN accounts /\ Has(accounts'[i].pending, t) /\ Has(accounts[i].pending, t)
        BY <2>1, <3>6 DEF Has, Range
      <4>2. CASE t \in MinedTxs'
        BY <2>1, <2>3, <4>1, <4>2, PendingIs DEF Gone
      <4>3. ASSUME NEW k \in DOMAIN handler.txs, handler.txs[k] = t, Passed(k, i)'
            PROVE  t \in late' \cup MadeTwice'
        <5>1. CASE k = c /\ i = a
          <6>1. t = u /\ Has(accounts'[a].pending, u)
            BY <3>3, <4>1, <4>3, <5>1
          <6>2. Twice(accounts[a].pending, u)
            BY <3>5, <6>1
          <6> QED
            BY <2>3, <3>1, <6>1, <6>2, PendingIs
        <5>2. CASE k < c \/ (k = c /\ i < a)
          <6>1. ~ToGo(k, i)
            BY <3>1, <4>1, <4>3, <5>2
          <6>2. Gone(t, i)
            BY <2>2, <4>1, <4>3, <6>1 DEF Gone
          <6> QED
            BY <2>1, <2>3, <4>1, <6>2, PendingIs
        <5> QED
          BY <3>2, <4>3, <5>1, <5>2
      <4> QED
        BY <2>1, <4>2, <4>3
    <3> QED
      BY <3>7, <3>8 DEF PendingInv
  <2> QED
    BY <2>1, <2>4, <2>5
<1> QED
  BY <1>3, <1>4, <1>5, <1>6

\* Every step keeps what is pending right.
LEMMA NextPending == ASSUME SafeInv, PendingInv, Others', [Next]_vars PROVE PendingInv'
<1>1. WalletInv
  BY DEF SafeInv
<1>2. UNCHANGED trackVars => PendingInv'
  BY PendingSame
<1>3. CASE Clicks \/ UIStep
  BY <1>1, <1>2, <1>3, ClicksKeep, UIStepKeeps
<1>4. CASE WalletStep
  <2>1. CASE add_account
    BY <1>1, <1>2, <2>1, AddAccountKeepsAll
  <2>2. CASE push_account
    BY <2>2, PushAccountPending
  <2>3. CASE change_account
    BY <1>1, <1>2, <2>3, ChangeAccountKeepsAll
  <2>4. CASE get_current_account \/ handle_get_transactions
    BY <1>1, <1>2, <2>4, GettersKeep
  <2>5. CASE handle_make_transaction
    BY <2>5, MakePending
  <2>6. CASE handle_search_block \/ handle_search_header \/ handle_poi
    BY <1>1, <1>2, <2>6, SearchesKeep
  <2> QED
    BY <1>4, <2>1, <2>2, <2>3, <2>4, <2>5, <2>6 DEF WalletStep
<1>5. CASE PeerStep \/ PeerMessage
  BY <1>5, PeerPending, BlockPending DEF PeerStep
<1>6. CASE UNCHANGED vars
  BY <1>2, <1>6 DEF vars, trackVars, chainVars, walletVars, netVars, histVars
<1> QED
  BY <1>3, <1>4, <1>5, <1>6 DEF Next

--------------------------------------------------------------------------------
(***************************************************************************)
(* What follows.                                                           *)
(***************************************************************************)
\* A payment is made by the account whose address was shown at the click,
\* although the wallet's thread looks current_account_index up later and logins
\* and changes of the account are on their way.
THEOREM PaidFromShown == Spec => []PaidFromShownAccount
<1>1. SafeInv => PaidFromShownAccount
  <2> SUFFICES ASSUME SafeInv, NEW m \in Range(made)
               PROVE  m.shown \in DOMAIN ui.dropdown /\ accounts[m.account].address = ui.dropdown[m.shown]
    BY DEF PaidFromShownAccount
  <2>1. PICK n \in DOMAIN made : made[n] = m
    BY DEF Range
  <2> QED
    BY <2>1 DEF SafeInv, WalletInv, AccountsInv, MadeInv, NamesInv
<1> QED
  BY <1>1, WalletSafe, PTL

\* The blocks tab has every block that came in, a search for a listed block
\* finds it, and the interface stops for a missing block only while that block
\* is being handled (include_new_block stores before it announces).
THEOREM BlocksTab == Spec => []BlocksTabRight
<1>1. SafeInv => BlocksTabRight
  <2> SUFFICES ASSUME SafeInv PROVE BlocksTabRight
    OBVIOUS
  <2>1. ListedInv /\ SearchInv /\ PanickedInv
    BY DEF SafeInv, WalletInv, BlocksInv
  <2>2. ASSUME AtRest, NEW b \in DOMAIN blocks, b > AMOUNT_TO_SHOW PROVE b \in Range(ui.blocks)
    BY <2>1, <2>2 DEF AtRest, ListedInv, Range
  <2>3. ASSUME NEW e \in Range(toUI)
        PROVE  TrueAnswer(e)
    <3>1. PICK j \in DOMAIN toUI : toUI[j] = e
      BY DEF Range
    <3> QED
      BY <2>1, <3>1 DEF SearchInv
  <2> QED
    BY <2>1, <2>2, <2>3 DEF BlocksTabRight, TrueAnswer, PanickedInv
<1> QED
  BY <1>1, WalletSafe, PTL

\* A transaction the wallet made is pending or confirmed for good, whether or
\* not it was announced, and one whose block was handled is not pending any
\* more, with the exceptions that TransactionsTracked names.
THEOREM Tracked == Spec /\ []Others => []TransactionsTracked
<1>1. Init => SafeInv /\ PendingInv
  <2> SUFFICES ASSUME Init PROVE SafeInv /\ PendingInv
    OBVIOUS
  <2>1. accounts = <<>>
    BY DEF Init
  <2> QED
    BY <2>1, InitSafe DEF PendingInv, DuplicatesInv, GoneInv
<1>2. SafeInv /\ PendingInv /\ Others' /\ [Next]_vars => SafeInv' /\ PendingInv'
  BY NextSafe, NextPending
<1>3. SafeInv /\ PendingInv => TransactionsTracked
  <2> SUFFICES ASSUME SafeInv, PendingInv PROVE TransactionsTracked
    OBVIOUS
  <2>1. ShapeInv /\ AccountsInv /\ KeptInv
    BY DEF SafeInv, WalletInv
  <2>2. ASSUME handler.at # "confirm_push", NEW m \in Range(made)
        PROVE  Contains(accounts[m.account].pending \o accounts[m.account].confirmed, m.tx)
    <3>1. PICK n \in DOMAIN made : made[n] = m
      BY DEF Range
    <3>2. m.account \in DOMAIN accounts
      BY <2>1, <3>1 DEF AccountsInv, MadeInv, NamesInv
    <3> DEFINE p == accounts[m.account].pending
               q == accounts[m.account].confirmed
               r == p \o q
    <3>3. Has(p, m.tx) \/ Has(q, m.tx)
      BY <2>1, <2>2, <3>1 DEF KeptInv
    <3>4. IsList(p) /\ IsList(q)
      BY <2>1, <3>2 DEF ShapeInv, IsAccount
    <3>5. IsList(r) /\ Range(r) = Range(p) \cup Range(q)
      BY <3>4, ListConcatRange
    <3> HIDE DEF p, q, r
    <3>6. m.tx \in Range(r)
      BY <3>3, <3>5 DEF Has, Range
    <3>7. DOMAIN r = 1 .. Len(r)
      BY <3>5 DEF IsList
    <3>8. Contains(r, m.tx)
      BY <3>6, <3>7 DEF Contains, Range
    <3> QED
      BY <3>8 DEF p, q, r
  <2>3. ASSUME NEW a \in Range(accounts), NEW t \in Range(a.pending) \cap MinedTxs
        PROVE  t \in late \/ \E i, j \in DOMAIN made : i # j /\ made[i].tx = t /\ made[j].tx = t
    <3>1. PICK i \in DOMAIN accounts : accounts[i] = a
      BY DEF Range
    <3>2. t \in late \cup MadeTwice
      BY <3>1 DEF PendingInv, GoneInv, Gone
    <3> QED
      BY <3>2 DEF MadeTwice
  <2> QED
    BY <2>2, <2>3 DEF TransactionsTracked
<1> QED
  BY <1>1, <1>2, <1>3, PTL DEF Spec

--------------------------------------------------------------------------------
(***************************************************************************)
(* What the interface shows: the balance and the transactions of the       *)
(* account the wallet uses, once the events on their way are handled.      *)
(***************************************************************************)
\* An event of one of these types waits in the queue.
Waits(q, types) == \E j \in DOMAIN q : q[j].type \in types

\* The last event of its type.
Newest(q, type, j) == j \in DOMAIN q /\ q[j].type = type /\ \A l \in DOMAIN q : l > j => q[l].type # type

\* The interface will hear of the balance: the coins of the accounts have
\* changed and the block is yet to be announced, or the account to be asked for.
Refreshing == {"confirm", "confirm_push", "include"}
BalanceAsked == handler.at \in Refreshing \/ Waits(toUI, {"AddBlock"}) \/ Waits(toWallet, {"GetAccountRequest"})

\* Otherwise the balance on its way, or the one that is shown, is right.
CurrentBalance == BalanceOf(SetToSeq(accounts[current].utxo_set))
BalanceInv ==
    current # 0 /\ ~BalanceAsked =>
        /\ \A j : Newest(toUI, "AccountChanged", j) => toUI[j].balance = CurrentBalance
        /\ ~Waits(toUI, {"AccountChanged"}) => ui.balance = CurrentBalance

\* The wallet will be asked for the transactions, or has been.
Asking == {"AccountChanged", "ShowPendingTransaction", "ShowConfirmedTransaction", "NewPendingTx"}
RowsAsked == Waits(toUI, Asking) \/ Waits(toWallet, {"GetTransactionsRequest"})

\* A transaction that is about to be pending has been told of.
TellInv == handler.at = "tx_push" => stale \/ RowsAsked

\* The table has these rows, and the overview the last of them.
Shown(rows) == IF Len(rows) <= RecentRows THEN Len(rows) ELSE RecentRows
Shows(rows) ==
    /\ ui.table = rows
    /\ \A i \in 1 .. RecentRows : i <= Shown(rows) => ui.recent[i] = rows[Len(rows) - Shown(rows) + i]

\* Otherwise the rows on their way, or those that are shown, are right.
Rows == get_transactions(accounts[current])
TableInv ==
    current # 0 /\ ~RowsAsked /\ ~stale /\ handler.at # "confirm_push" /\ Rows.st = "ok" =>
        /\ \A j : Newest(toUI, "UpdateTransactions", j) => toUI[j].rows = Rows.val
        /\ ~Waits(toUI, {"UpdateTransactions"}) => Shows(Rows.val)

\* The transactions of the account, with one that is on its way from those
\* pending to those confirmed.
Moving == IF handler.at = "confirm_push" /\ handler.account = current THEN 1 ELSE 0
Count == Len(accounts[current].pending) + Len(accounts[current].confirmed) + Moving

\* There are no more rows than transactions, in the overview and on their way.
CountInv ==
    /\ ui.recent = [i \in 1 .. RecentRows |-> ui.recent[i]]
    /\ \A j \in DOMAIN toUI : toUI[j].type = "UpdateTransactions" => Len(toUI[j].rows) \in Nat
    /\ current = 0 => /\ ~Waits(toUI, {"UpdateTransactions", "AccountChanged"})
                      /\ \A i \in 1 .. RecentRows : ui.recent[i] = NoRow
    /\ current # 0 =>
          /\ \A j \in DOMAIN toUI :
                /\ toUI[j].type = "UpdateTransactions"
                /\ \A l \in DOMAIN toUI : l > j => toUI[l].type # "AccountChanged"
                => Len(toUI[j].rows) <= Count
          /\ ~Waits(toUI, {"AccountChanged"}) => \A i \in 1 .. RecentRows : ui.recent[i] # NoRow => i <= Count

ScreenInv == BalanceInv /\ TellInv /\ TableInv /\ CountInv

--------------------------------------------------------------------------------
(***************************************************************************)
(* The queues.                                                             *)
(***************************************************************************)
\* An event that waits has waited before or is new.
LEMMA WaitsOld ==
    ASSUME NEW q, NEW r, NEW d, NEW E, Moved(q, r, d, E), NEW T, Waits(r, T), \A e \in E : e.type \notin T
    PROVE  Waits(q, T)
BY OldEvents DEF Waits

\* An event that waits still waits unless it is taken.
LEMMA WaitsStill ==
    ASSUME NEW q, NEW r, NEW d, NEW E, Moved(q, r, d, E), NEW T, Waits(q, T),
           d = 0 \/ (d = 1 /\ q[1].type \notin T)
    PROVE  Waits(r, T)
<1>1. PICK j \in DOMAIN q : q[j].type \in T
  BY DEF Waits
<1>2. j \in 1 .. Len(q) /\ Len(q) \in Nat
  BY DEF Moved
<1>3. j > d
  BY <1>1, <1>2
<1>4. j - d \in DOMAIN r /\ r[j - d] = q[j]
  BY <1>3, OldEvents
<1> QED
  BY <1>1, <1>4 DEF Waits

\* The last event of a type stays the last of it.
LEMMA NewestKept ==
    ASSUME NEW q, NEW r, NEW d, NEW E, Moved(q, r, d, E), NEW type, \A e \in E : e.type # type,
           NEW j, Newest(r, type, j)
    PROVE  Newest(q, type, j + d) /\ r[j] = q[j + d]
<1>1. j \in DOMAIN r /\ r[j].type = type /\ \A l \in DOMAIN r : l > j => r[l].type # type
  BY DEF Newest
<1>2. j \in Nat /\ j + d \in DOMAIN q /\ r[j] = q[j + d] /\ d \in Nat
  BY <1>1, OldEvents
<1>3. ASSUME NEW l \in DOMAIN q, l > j + d PROVE q[l].type # type
  <2>1. l \in Nat /\ (l > d => l - d \in DOMAIN r /\ r[l - d] = q[l])
    BY OldEvents
  <2>2. l > d /\ l - d > j
    BY <1>2, <1>3, <2>1
  <2> QED
    BY <1>1, <2>1, <2>2
<1> QED
  BY <1>1, <1>2, <1>3 DEF Newest

\* The event that is taken is the last of its type.
LEMMA NewestTaken ==
    ASSUME NEW q, NEW r, NEW E, Moved(q, r, 1, E), 1 \in DOMAIN q, ~Waits(r, {q[1].type})
    PROVE  Newest(q, q[1].type, 1)
<1>1. ASSUME NEW l \in DOMAIN q, l > 1 PROVE q[l].type # q[1].type
  <2>1. l - 1 \in DOMAIN r /\ r[l - 1] = q[l]
    BY <1>1, OldEvents
  <2> QED
    BY <2>1 DEF Waits
<1> QED
  BY <1>1 DEF Newest

\* An event that is sent is the last of its type.
LEMMA NewestSent ==
    ASSUME NEW q, IsList(q), NEW e
    PROVE  /\ \A j : Newest(Append(q, e), e.type, j) => Append(q, e)[j] = e
           /\ \A T : e.type \in T => Waits(Append(q, e), T)
<1> DEFINE r == Append(q, e)
<1>1. Len(q) \in Nat /\ DOMAIN r = 1 .. (Len(q) + 1) /\ r[Len(q) + 1] = e
  BY ListAppend
<1>2. PICK n \in Nat : n = Len(q)
  BY <1>1
<1> HIDE DEF r
<1>3. n + 1 \in DOMAIN r /\ r[n + 1] = e
  BY <1>1, <1>2
<1>4. ASSUME NEW j, Newest(r, e.type, j) PROVE r[j] = e
  <2>1. j \in 1 .. (n + 1) /\ ~(n + 1 > j)
    BY <1>1, <1>2, <1>3, <1>4 DEF Newest
  <2>2. j = n + 1
    BY <2>1
  <2> QED
    BY <1>3, <2>2
<1>5. \A T : e.type \in T => Waits(r, T)
  BY <1>3 DEF Waits
<1> QED
  BY <1>4, <1>5 DEF r

--------------------------------------------------------------------------------
(***************************************************************************)
(* Steps that leave a part of the invariant alone.                         *)
(***************************************************************************)
\* The balance is still to be told if it was.
LEMMA BalanceAskedKept ==
    ASSUME BalanceAsked, handler.at \in Refreshing => handler'.at \in Refreshing,
           NEW d, NEW E, Moved(toUI, toUI', d, E), d = 0 \/ (d = 1 /\ toUI[1].type # "AddBlock"),
           NEW c, NEW F, Moved(toWallet, toWallet', c, F), c = 0 \/ (c = 1 /\ toWallet[1].type # "GetAccountRequest")
    PROVE  BalanceAsked'
<1>1. CASE handler.at \in Refreshing
  BY <1>1 DEF BalanceAsked
<1>2. CASE Waits(toUI, {"AddBlock"})
  <2>1. Waits(toUI', {"AddBlock"})
    BY <1>2, WaitsStill
  <2> QED
    BY <2>1 DEF BalanceAsked
<1>3. CASE Waits(toWallet, {"GetAccountRequest"})
  <2>1. Waits(toWallet', {"GetAccountRequest"})
    BY <1>3, WaitsStill
  <2> QED
    BY <2>1 DEF BalanceAsked
<1> QED
  BY <1>1, <1>2, <1>3 DEF BalanceAsked

\* The transactions are still to be asked for if they were.
LEMMA RowsAskedKept ==
    ASSUME RowsAsked,
           NEW d, NEW E, Moved(toUI, toUI', d, E), d = 0 \/ (d = 1 /\ toUI[1].type \notin Asking),
           NEW c, NEW F, Moved(toWallet, toWallet', c, F), c = 0 \/ (c = 1 /\ toWallet[1].type # "GetTransactionsRequest")
    PROVE  RowsAsked'
<1>1. CASE Waits(toUI, Asking)
  <2>1. Waits(toUI', Asking)
    BY <1>1, WaitsStill
  <2> QED
    BY <2>1 DEF RowsAsked
<1>2. CASE Waits(toWallet, {"GetTransactionsRequest"})
  <2>1. Waits(toWallet', {"GetTransactionsRequest"})
    BY <1>2, WaitsStill
  <2> QED
    BY <2>1 DEF RowsAsked
<1> QED
  BY <1>1, <1>2 DEF RowsAsked

\* The balance of the account and what the interface shows of it stay.
LEMMA BalanceKept ==
    ASSUME BalanceInv, current' = current, current # 0 => CurrentBalance' = CurrentBalance,
           BalanceAsked => BalanceAsked', ui'.balance = ui.balance,
           NEW d, NEW E, Moved(toUI, toUI', d, E), \A e \in E : e.type # "AccountChanged",
           d = 0 \/ (d = 1 /\ toUI[1].type # "AccountChanged")
    PROVE  BalanceInv'
<1> SUFFICES ASSUME current' # 0, ~BalanceAsked'
             PROVE  /\ \A j : Newest(toUI', "AccountChanged", j) => toUI'[j].balance = CurrentBalance'
                    /\ ~Waits(toUI', {"AccountChanged"}) => ui'.balance = CurrentBalance'
  BY DEF BalanceInv
<1>1. /\ \A j : Newest(toUI, "AccountChanged", j) => toUI[j].balance = CurrentBalance'
      /\ ~Waits(toUI, {"AccountChanged"}) => ui.balance = CurrentBalance'
  BY DEF BalanceInv
<1>2. \A j : Newest(toUI', "AccountChanged", j) => toUI'[j].balance = CurrentBalance'
  BY <1>1, NewestKept
<1>3. ~Waits(toUI', {"AccountChanged"}) => ~Waits(toUI, {"AccountChanged"})
  BY WaitsStill
<1> QED
  BY <1>1, <1>2, <1>3

\* The rows of the account and those the interface shows stay.
LEMMA TableKept ==
    ASSUME TableInv, current' = current, current # 0 => Rows' = Rows, RowsAsked => RowsAsked', stale => stale',
           handler.at = "confirm_push" => handler'.at = "confirm_push",
           ui'.table = ui.table, ui'.recent = ui.recent,
           NEW d, NEW E, Moved(toUI, toUI', d, E), \A e \in E : e.type # "UpdateTransactions",
           d = 0 \/ (d = 1 /\ toUI[1].type # "UpdateTransactions")
    PROVE  TableInv'
<1> SUFFICES ASSUME current' # 0, ~RowsAsked', ~stale', handler'.at # "confirm_push", Rows'.st = "ok"
             PROVE  /\ \A j : Newest(toUI', "UpdateTransactions", j) => toUI'[j].rows = Rows'.val
                    /\ ~Waits(toUI', {"UpdateTransactions"}) => Shows(Rows.val)'
  BY DEF TableInv
<1>1. /\ \A j : Newest(toUI, "UpdateTransactions", j) => toUI[j].rows = Rows.val
      /\ ~Waits(toUI, {"UpdateTransactions"}) => Shows(Rows.val)
  BY DEF TableInv
<1>2. \A j : Newest(toUI', "UpdateTransactions", j) => toUI'[j].rows = Rows'.val
  BY <1>1, NewestKept
<1>3. ~Waits(toUI', {"UpdateTransactions"}) => ~Waits(toUI, {"UpdateTransactions"})
  BY WaitsStill
<1>4. Shows(Rows.val) => Shows(Rows.val)'
  <2> DEFINE v == Rows.val
  <2>1. v' = v
    OBVIOUS
  <2> HIDE DEF v
  <2>2. Shows(v) => Shows(v)'
    BY <2>1 DEF Shows, Shown
  <2> QED
    BY <2>1, <2>2 DEF v
<1> QED
  BY <1>1, <1>2, <1>3, <1>4

\* There are no fewer transactions and no more rows.
LEMMA CountKept ==
    ASSUME CountInv, current' = current, current # 0 => Count \in Nat /\ Count' \in Nat /\ Count <= Count',
           ui'.recent = ui.recent,
           NEW d, NEW E, Moved(toUI, toUI', d, E), \A e \in E : e.type \notin {"UpdateTransactions", "AccountChanged"},
           d = 0 \/ (d = 1 /\ toUI[1].type \notin {"UpdateTransactions", "AccountChanged"})
    PROVE  CountInv'
<1>1. /\ \A j \in DOMAIN toUI' : j \in Nat /\ (toUI'[j] \in E \/ (j + d \in DOMAIN toUI /\ toUI'[j] = toUI[j + d]))
      /\ \A j \in DOMAIN toUI : j \in Nat /\ (j > d => j - d \in DOMAIN toUI' /\ toUI'[j - d] = toUI[j])
      /\ d \in Nat
  BY OldEvents
<1>2. Waits(toUI', {"UpdateTransactions", "AccountChanged"}) => Waits(toUI, {"UpdateTransactions", "AccountChanged"})
  BY WaitsOld
<1>3. Waits(toUI, {"AccountChanged"}) => Waits(toUI', {"AccountChanged"})
  BY WaitsStill
<1>4. ASSUME NEW j \in DOMAIN toUI', toUI'[j].type = "UpdateTransactions"
      PROVE  j + d \in DOMAIN toUI /\ toUI'[j] = toUI[j + d]
  BY <1>1, <1>4
<1>5. ASSUME NEW j \in DOMAIN toUI', toUI'[j].type = "UpdateTransactions",
             \A l \in DOMAIN toUI' : l > j => toUI'[l].type # "AccountChanged",
             NEW l \in DOMAIN toUI, l > j + d
      PROVE  toUI[l].type # "AccountChanged"
  <2>1. l > d /\ l - d > j
    BY <1>1, <1>5
  <2> QED
    BY <1>1, <1>5, <2>1
<1>6. ASSUME current # 0, NEW j \in DOMAIN toUI', toUI'[j].type = "UpdateTransactions",
             \A l \in DOMAIN toUI' : l > j => toUI'[l].type # "AccountChanged"
      PROVE  Len(toUI'[j].rows) <= Count'
  <2>1. Len(toUI'[j].rows) <= Count /\ Len(toUI'[j].rows) \in Nat
    BY <1>4, <1>5, <1>6 DEF CountInv
  <2> DEFINE x == Len(toUI'[j].rows)
             m == Count
             n == Count'
  <2>2. x \in Nat /\ m \in Nat /\ n \in Nat /\ x <= m /\ m <= n
    BY <1>6, <2>1
  <2> HIDE DEF x, m, n
  <2>3. x <= n
    BY <2>2
  <2> QED
    BY <2>3 DEF x, n
<1>7. ASSUME current # 0, ~Waits(toUI', {"AccountChanged"}), NEW i \in 1 .. RecentRows, ui.recent[i] # NoRow
      PROVE  i <= Count'
  <2>1. i <= Count
    BY <1>3, <1>7 DEF CountInv
  <2> DEFINE m == Count
             n == Count'
  <2>2. i \in Int /\ m \in Nat /\ n \in Nat /\ i <= m /\ m <= n
    BY <1>7, <2>1
  <2> HIDE DEF m, n
  <2>3. i <= n
    BY <2>2
  <2> QED
    BY <2>3 DEF n
<1>8. \A j \in DOMAIN toUI' : toUI'[j].type = "UpdateTransactions" => Len(toUI'[j].rows) \in Nat
  BY <1>4 DEF CountInv
<1>9. current' = 0 => /\ ~Waits(toUI', {"UpdateTransactions", "AccountChanged"})
                      /\ \A i \in 1 .. RecentRows : ui'.recent[i] = NoRow
  BY <1>2 DEF CountInv
<1>10. ui'.recent = [i \in 1 .. RecentRows |-> ui'.recent[i]]
  BY DEF CountInv
<1> HIDE DEF Count
<1> QED
  BY <1>6, <1>7, <1>8, <1>9, <1>10 DEF CountInv

--------------------------------------------------------------------------------
(***************************************************************************)
(* Steps that leave the screen alone.                                      *)
(***************************************************************************)
\* The number of transactions is a number.
LEMMA CountIs ==
    ASSUME WalletInv, current # 0
    PROVE  /\ current \in DOMAIN accounts /\ IsList(accounts[current].pending) /\ IsList(accounts[current].confirmed)
           /\ Len(accounts[current].pending) \in Nat /\ Len(accounts[current].confirmed) \in Nat
           /\ Moving \in {0, 1} /\ Count \in Nat
<1>1. current \in DOMAIN accounts
  BY DEF WalletInv, AccountsInv, SelectInv, NamesInv
<1>2. IsList(accounts[current].pending) /\ IsList(accounts[current].confirmed)
  BY <1>1 DEF WalletInv, ShapeInv, IsAccount
<1>3. Len(accounts[current].pending) \in Nat /\ Len(accounts[current].confirmed) \in Nat
  BY <1>2 DEF IsList
<1>4. Moving \in {0, 1}
  BY DEF Moving
<1>5. \A a, b \in Nat : \A m \in {0, 1} : a + b + m \in Nat
  OBVIOUS
<1> HIDE DEF Moving
<1>6. Count \in Nat
  BY <1>3, <1>4, <1>5 DEF Count
<1> QED
  BY <1>1, <1>2, <1>3, <1>4, <1>6

\* Where the peer's thread is when it does nothing the screen is about.
OffScreen == {"idle", "tx_check", "utxos", "accounts"}
SameScreen == ui'.balance = ui.balance /\ ui'.table = ui.table /\ ui'.recent = ui.recent

LEMMA QuietKeeps ==
    ASSUME ScreenInv, WalletInv, current' = current, current # 0 => accounts'[current] = accounts[current],
           handler' = handler \/ (handler.at \in OffScreen /\ handler'.at \in OffScreen),
           stale' = stale, SameScreen,
           NEW d, NEW E, Moved(toUI, toUI', d, E), \A e \in E : e.type \notin {"AccountChanged", "UpdateTransactions"},
           d = 0 \/ (d = 1 /\ toUI[1].type \notin Asking \cup {"UpdateTransactions", "AddBlock"}),
           NEW c, NEW F, Moved(toWallet, toWallet', c, F),
           c = 0 \/ (c = 1 /\ toWallet[1].type \notin {"GetAccountRequest", "GetTransactionsRequest"})
    PROVE  ScreenInv'
<1>1. BalanceInv /\ TellInv /\ TableInv /\ CountInv
  BY DEF ScreenInv
<1>2. /\ ui'.balance = ui.balance /\ ui'.table = ui.table /\ ui'.recent = ui.recent
  BY DEF SameScreen
<1>3. /\ \A e \in E : e.type # "AccountChanged" /\ e.type # "UpdateTransactions"
      /\ d = 0 \/ (d = 1 /\ toUI[1].type # "AddBlock")
      /\ d = 0 \/ (d = 1 /\ toUI[1].type \notin Asking)
      /\ d = 0 \/ (d = 1 /\ toUI[1].type # "AccountChanged")
      /\ d = 0 \/ (d = 1 /\ toUI[1].type # "UpdateTransactions")
      /\ d = 0 \/ (d = 1 /\ toUI[1].type \notin {"UpdateTransactions", "AccountChanged"})
      /\ c = 0 \/ (c = 1 /\ toWallet[1].type # "GetAccountRequest")
      /\ c = 0 \/ (c = 1 /\ toWallet[1].type # "GetTransactionsRequest")
  BY DEF Asking
<1>4. /\ handler.at \in Refreshing => handler'.at \in Refreshing
      /\ handler.at = "confirm_push" <=> handler'.at = "confirm_push"
      /\ handler'.at = "tx_push" => handler.at = "tx_push"
  BY DEF OffScreen, Refreshing
<1>5. BalanceAsked => BalanceAsked'
  BY <1>3, <1>4, BalanceAskedKept
<1>6. RowsAsked => RowsAsked'
  BY <1>3, RowsAskedKept
<1>7. TellInv'
  BY <1>1, <1>4, <1>6 DEF TellInv
<1>8. BalanceInv'
  <2>1. current # 0 => CurrentBalance' = CurrentBalance
    BY DEF CurrentBalance
  <2> QED
    BY <1>1, <1>2, <1>3, <1>5, <2>1, BalanceKept
<1>9. TableInv'
  <2>1. current # 0 => Rows' = Rows
    BY DEF Rows
  <2> QED
    BY <1>1, <1>2, <1>3, <1>4, <1>6, <2>1, TableKept
<1>10. CountInv'
  <2>1. current # 0 => Count' = Count
    <3>1. Moving' = Moving
      BY <1>4 DEF Moving, OffScreen
    <3> QED
      BY <3>1 DEF Count
  <2>2. ASSUME current # 0 PROVE Count \in Nat /\ Count' \in Nat /\ Count <= Count'
    <3>1. Count \in Nat /\ Count' = Count
      BY <2>1, <2>2, CountIs
    <3> HIDE DEF Count
    <3> QED
      BY <3>1
  <2> QED
    BY <1>1, <1>2, <1>3, <2>2, CountKept
<1> QED
  BY <1>7, <1>8, <1>9, <1>10 DEF ScreenInv

\* A click.
LEMMA ClicksScreen == ASSUME ScreenInv, WalletInv, Clicks PROVE ScreenInv'
<1>1. IsList(toUI) /\ IsList(toWallet) /\ DOMAIN ui = UIFields
  BY DEF WalletInv, ShapeInv
<1>2. ASSUME NEW button, NEW bound, Click(button, bound), NEW e, Request(e), SameScreen PROVE ScreenInv'
  <2>1. UNCHANGED <<toUI, handler, accounts, current, stale>> /\ toWallet' = Append(toWallet, e)
    BY <1>2 DEF Click, Request, walletVars, histVars
  <2>2. Moved(toUI, toUI', 0, {}) /\ Moved(toWallet, toWallet', 0, {e})
    BY <1>1, <2>1, MovedNot, MovedAppend
  <2> QED
    BY <1>2, <2>1, <2>2, QuietKeeps
<1>3. ASSUME ui' = ui PROVE SameScreen
  BY <1>3 DEF SameScreen
<1>4. ASSUME NEW l \in Logins, login_button_clicked(l) PROVE ScreenInv'
  <2>1. ui' = [ui EXCEPT !.sensitive = FALSE]
    BY <1>4 DEF login_button_clicked, disable_buttons_and_entries
  <2>2. SameScreen
    BY <1>1, <2>1 DEF SameScreen, UIFields
  <2> QED
    BY <1>2, <1>4, <2>2 DEF login_button_clicked
<1>5. ASSUME NEW p \in Payments, send_button_clicked(p) PROVE ScreenInv'
  BY <1>2, <1>3, <1>5 DEF send_button_clicked
<1>6. ASSUME NEW i, dropdown_accounts_changed(i) PROVE ScreenInv'
  <2>1. ui' = [ui EXCEPT !.selected = i]
    BY <1>6 DEF dropdown_accounts_changed
  <2>2. SameScreen
    BY <1>1, <2>1 DEF SameScreen, UIFields
  <2> QED
    BY <1>2, <1>6, <2>2 DEF dropdown_accounts_changed
<1>7. ASSUME search_blocks_button_clicked(headers) PROVE ScreenInv'
  BY <1>2, <1>3, <1>7 DEF search_blocks_button_clicked
<1>8. ASSUME search_headers_button_clicked(headers) PROVE ScreenInv'
  BY <1>2, <1>3, <1>8 DEF search_headers_button_clicked
<1>9. ASSUME NEW tx \in Incoming, search_tx_poi_button_clicked(headers, tx) PROVE ScreenInv'
  BY <1>2, <1>3, <1>9 DEF search_tx_poi_button_clicked
<1> QED
  BY <1>4, <1>5, <1>6, <1>7, <1>8, <1>9 DEF Clicks
--------------------------------------------------------------------------------
(***************************************************************************)
(* The events of the interface.                                            *)
(***************************************************************************)
\* What taking an event changes.
LEMMA TakesScreen ==
    ASSUME WalletInv, NEW types, OnUIEvent(types)
    PROVE  /\ Moved(toUI, toUI', 1, {}) /\ 1 \in DOMAIN toUI /\ Head(toUI) = toUI[1] /\ toUI[1].type \in types
           /\ UNCHANGED <<handler, accounts, current, stale>>
           /\ DOMAIN ui = UIFields /\ IsList(toWallet) /\ Moved(toWallet, toWallet, 0, {})
<1>1. ShapeInv
  BY DEF WalletInv
<1>2. stale' = stale
  BY DEF OnUIEvent, histVars
<1> QED
  BY <1>1, <1>2, UITakes, MovedNot DEF ShapeInv

\* The wallet is asked for something.
LEMMA RequestScreen ==
    ASSUME WalletInv, NEW type, Request(Event(type))
    PROVE  \E F : Moved(toWallet, toWallet', 0, F) /\ Waits(toWallet', {type})
<1> DEFINE e == Event(type)
<1>1. e.type = type
  BY DEF Event
<1> HIDE DEF e
<1>2. IsList(toWallet) /\ toWallet' = Append(toWallet, e)
  BY DEF WalletInv, ShapeInv, Request, e
<1>3. Moved(toWallet, toWallet', 0, {e})
  BY <1>2, MovedAppend
<1>4. Waits(toWallet', {type})
  BY <1>1, <1>2, NewestSent
<1> QED
  BY <1>3, <1>4

\* An event that changes nothing of what the screen shows of the account.
LEMMA QuietEvents ==
    ASSUME ScreenInv, WalletInv, render_main_window \/ account_tab \/ show_dialog_message_pop_up
    PROVE  ScreenInv'
<1>1. ASSUME NEW types, OnUIEvent(types), toWallet' = toWallet, SameScreen,
             types \cap (Asking \cup {"UpdateTransactions", "AddBlock"}) = {}
      PROVE  ScreenInv'
  <2>1. /\ Moved(toUI, toUI', 1, {}) /\ toUI[1].type \in types /\ Moved(toWallet, toWallet', 0, {})
        /\ UNCHANGED <<handler, accounts, current, stale>>
    BY <1>1, TakesScreen
  <2>2. toUI[1].type \notin Asking \cup {"UpdateTransactions", "AddBlock"}
    BY <1>1, <2>1
  <2> QED
    BY <1>1, <2>1, <2>2, QuietKeeps
<1>2. DOMAIN ui = UIFields
  BY DEF WalletInv, ShapeInv
<1>3. CASE render_main_window
  <2>1. SameScreen
    BY <1>2, <1>3 DEF render_main_window, initialize_blocks_tab, SameScreen, UIFields
  <2> QED
    BY <1>1, <1>3, <2>1 DEF render_main_window, Asking
<1>4. CASE account_tab
  <2> DEFINE names == IF Head(toUI).type = "AddAccountError" THEN ui.dropdown ELSE Append(ui.dropdown, Head(toUI).address)
  <2>1. ui' = [[ui EXCEPT !.sensitive = TRUE] EXCEPT !.dropdown = names]
    BY <1>2, <1>4 DEF account_tab, enable_buttons_and_entries, UIFields
  <2> HIDE DEF names
  <2>2. SameScreen
    BY <1>2, <2>1 DEF SameScreen, UIFields
  <2> QED
    BY <1>1, <1>4, <2>2 DEF account_tab, Asking
<1>5. CASE show_dialog_message_pop_up
  <2>1. SameScreen
    BY <1>5 DEF show_dialog_message_pop_up, SameScreen
  <2> QED
    BY <1>1, <1>5, <2>1 DEF show_dialog_message_pop_up, Asking
<1> QED
  BY <1>3, <1>4, <1>5

\* The balance is shown, and the rows of the overview are hidden.
LEMMA AccountChangedScreen == ASSUME ScreenInv, WalletInv, account_changed PROVE ScreenInv'
<1>1. BalanceInv /\ TellInv /\ TableInv /\ CountInv
  BY DEF ScreenInv
<1>2. /\ Moved(toUI, toUI', 1, {}) /\ 1 \in DOMAIN toUI /\ Head(toUI) = toUI[1] /\ toUI[1].type = "AccountChanged"
      /\ UNCHANGED <<handler, accounts, current, stale>> /\ DOMAIN ui = UIFields
  BY TakesScreen DEF account_changed
<1>3. PICK F : Moved(toWallet, toWallet', 0, F) /\ Waits(toWallet', {"GetTransactionsRequest"})
  BY RequestScreen DEF account_changed
<1>4. /\ ui'.balance = toUI[1].balance /\ ui'.recent = [i \in 1 .. RecentRows |-> NoRow]
  BY <1>2 DEF account_changed, update_overview, UIFields
<1>5. RowsAsked'
  BY <1>3 DEF RowsAsked
<1>6. TellInv' /\ TableInv'
  BY <1>5 DEF TellInv, TableInv
<1>7. BalanceInv'
  <2> SUFFICES ASSUME current' # 0, ~BalanceAsked'
               PROVE  /\ \A j : Newest(toUI', "AccountChanged", j) => toUI'[j].balance = CurrentBalance'
                      /\ ~Waits(toUI', {"AccountChanged"}) => ui'.balance = CurrentBalance'
    BY DEF BalanceInv
  <2>1. ~BalanceAsked
    <3>1. toUI[1].type # "AddBlock" /\ handler' = handler
      BY <1>2
    <3> QED
      BY <1>2, <1>3, <3>1, BalanceAskedKept
  <2>2. CurrentBalance' = CurrentBalance
    BY <1>2 DEF CurrentBalance
  <2>3. \A j : Newest(toUI, "AccountChanged", j) => toUI[j].balance = CurrentBalance
    BY <1>1, <1>2, <2>1 DEF BalanceInv
  <2>4. \A j : Newest(toUI', "AccountChanged", j) => toUI'[j].balance = CurrentBalance
    BY <1>2, <2>3, NewestKept
  <2>5. ~Waits(toUI', {"AccountChanged"}) => Newest(toUI, "AccountChanged", 1)
    BY <1>2, NewestTaken
  <2> QED
    BY <1>4, <2>2, <2>3, <2>4, <2>5
<1>8. CountInv'
  <2>1. current # 0
    BY <1>1, <1>2 DEF CountInv, Waits
  <2>2. Count' = Count
    BY <1>2 DEF Count, Moving
  <2>3. /\ \A j \in DOMAIN toUI' : j \in Nat /\ j + 1 \in DOMAIN toUI /\ toUI'[j] = toUI[j + 1]
        /\ \A j \in DOMAIN toUI : j \in Nat /\ (j > 1 => j - 1 \in DOMAIN toUI' /\ toUI'[j - 1] = toUI[j])
    BY <1>2, OldEvents
  <2>4. ASSUME NEW j \in DOMAIN toUI', toUI'[j].type = "UpdateTransactions",
               \A l \in DOMAIN toUI' : l > j => toUI'[l].type # "AccountChanged"
        PROVE  Len(toUI'[j].rows) <= Count
    <3>1. ASSUME NEW l \in DOMAIN toUI, l > j + 1 PROVE toUI[l].type # "AccountChanged"
      <4>1. l \in Nat /\ j \in Nat
        BY <2>3
      <4>2. l > 1 /\ l - 1 > j
        BY <3>1, <4>1
      <4> QED
        BY <2>3, <2>4, <4>2
    <3> QED
      BY <1>1, <2>1, <2>3, <2>4, <3>1 DEF CountInv
  <2>5. \A j \in DOMAIN toUI' : toUI'[j].type = "UpdateTransactions" => Len(toUI'[j].rows) \in Nat
    BY <1>1, <2>3 DEF CountInv
  <2>6. \A i \in 1 .. RecentRows : ui'.recent[i] = NoRow
    BY <1>4
  <2>7. ui'.recent = [i \in 1 .. RecentRows |-> ui'.recent[i]]
    BY <1>4
  <2>8. current' # 0
    BY <1>2, <2>1
  <2> HIDE DEF Count
  <2> QED
    BY <2>2, <2>4, <2>5, <2>6, <2>7, <2>8 DEF CountInv
<1> QED
  BY <1>6, <1>7, <1>8 DEF ScreenInv

\* The transactions are shown.
LEMMA RenderScreen == ASSUME ScreenInv, WalletInv, render_transactions PROVE ScreenInv'
<1> DEFINE rows == toUI[1].rows
<1>1. BalanceInv /\ TellInv /\ TableInv /\ CountInv
  BY DEF ScreenInv
<1>2. /\ Moved(toUI, toUI', 1, {}) /\ 1 \in DOMAIN toUI /\ Head(toUI) = toUI[1] /\ toUI[1].type = "UpdateTransactions"
      /\ UNCHANGED <<handler, accounts, current, stale>> /\ DOMAIN ui = UIFields
      /\ Moved(toWallet, toWallet', 0, {}) /\ toWallet' = toWallet
  BY TakesScreen DEF render_transactions
<1>3. Len(rows) \in Nat
  BY <1>1, <1>2 DEF CountInv
<1>4. PICK n \in Nat : n = Len(rows)
  BY <1>3
<1>5. PICK R \in Nat : R = RecentRows
  BY WalletAssumption
<1>6. /\ ui'.balance = ui.balance /\ ui'.table = rows
      /\ ui'.recent = render_recent_transactions(rows, ui.recent)
  BY <1>2 DEF render_transactions, UIFields
<1> HIDE DEF rows
<1>7. /\ ui'.recent = [i \in 1 .. R |-> ui'.recent[i]]
      /\ \A i \in 1 .. R : ui'.recent[i] = IF (IF n <= R THEN 0 ELSE n - R) + i <= n
                                           THEN rows[(IF n <= R THEN 0 ELSE n - R) + i] ELSE ui.recent[i]
  BY <1>4, <1>5, <1>6 DEF render_recent_transactions
<1>8. \A i \in 1 .. R : i <= (IF n <= R THEN n ELSE R) => ui'.recent[i] = rows[n - (IF n <= R THEN n ELSE R) + i]
  <2> SUFFICES ASSUME NEW i \in 1 .. R, i <= (IF n <= R THEN n ELSE R)
               PROVE  ui'.recent[i] = rows[n - (IF n <= R THEN n ELSE R) + i]
    OBVIOUS
  <2>1. CASE n <= R
    <3>1. 0 + i = i /\ n - n + i = i /\ i <= n
      BY <2>1
    <3> QED
      BY <1>7, <2>1, <3>1
  <2>2. CASE ~(n <= R)
    <3>1. n - R + i <= n
      BY <2>2
    <3> QED
      BY <1>7, <2>2, <3>1
  <2> QED
    BY <2>1, <2>2
<1>9. ASSUME Rows'.val = rows PROVE Shows(Rows.val)'
  <2>1. Rows'.val = rows /\ Len(rows) = n /\ Shown(Rows.val)' = IF n <= R THEN n ELSE R
    BY <1>4, <1>5, <1>9 DEF Shown
  <2> QED
    BY <1>5, <1>6, <1>8, <2>1 DEF Shows
<1>10. BalanceInv'
  <2>1. BalanceAsked => BalanceAsked'
    <3>1. toUI[1].type # "AddBlock" /\ handler' = handler
      BY <1>2
    <3> QED
      BY <1>2, <3>1, BalanceAskedKept
  <2>2. CurrentBalance' = CurrentBalance
    BY <1>2 DEF CurrentBalance
  <2>3. toUI[1].type # "AccountChanged"
    BY <1>2
  <2> QED
    BY <1>1, <1>2, <1>6, <2>1, <2>2, <2>3, BalanceKept
<1>11. RowsAsked => RowsAsked'
  <2>1. toUI[1].type \notin Asking
    BY <1>2 DEF Asking
  <2> QED
    BY <1>2, <2>1, RowsAskedKept
<1>12. TellInv'
  BY <1>1, <1>2, <1>11 DEF TellInv
<1>13. TableInv'
  <2> SUFFICES ASSUME current' # 0, ~RowsAsked', ~stale', handler'.at # "confirm_push", Rows'.st = "ok"
               PROVE  /\ \A j : Newest(toUI', "UpdateTransactions", j) => toUI'[j].rows = Rows'.val
                      /\ ~Waits(toUI', {"UpdateTransactions"}) => Shows(Rows.val)'
    BY DEF TableInv
  <2>1. Rows' = Rows
    BY <1>2 DEF Rows
  <2>2. \A j : Newest(toUI, "UpdateTransactions", j) => toUI[j].rows = Rows.val
    BY <1>1, <1>2, <1>11, <2>1 DEF TableInv
  <2>3. \A j : Newest(toUI', "UpdateTransactions", j) => toUI'[j].rows = Rows.val
    BY <1>2, <2>2, NewestKept
  <2>4. ASSUME ~Waits(toUI', {"UpdateTransactions"}) PROVE Shows(Rows.val)'
    <3>1. Newest(toUI, "UpdateTransactions", 1)
      BY <1>2, <2>4, NewestTaken
    <3>2. Rows'.val = rows
      BY <2>1, <2>2, <3>1 DEF rows
    <3> QED
      BY <1>9, <3>2
  <2> QED
    BY <2>1, <2>3, <2>4
<1>14. CountInv'
  <2>1. Count' = Count
    BY <1>2 DEF Count, Moving
  <2>2. /\ \A j \in DOMAIN toUI' : j \in Nat /\ j + 1 \in DOMAIN toUI /\ toUI'[j] = toUI[j + 1]
        /\ \A j \in DOMAIN toUI : j \in Nat /\ (j > 1 => j - 1 \in DOMAIN toUI' /\ toUI'[j - 1] = toUI[j])
    BY <1>2, OldEvents
  <2>3. current # 0
    BY <1>1, <1>2 DEF CountInv, Waits
  <2>4. Count \in Nat
    BY <2>3, CountIs
  <2>5. ASSUME NEW j \in DOMAIN toUI', toUI'[j].type = "UpdateTransactions",
               \A l \in DOMAIN toUI' : l > j => toUI'[l].type # "AccountChanged"
        PROVE  Len(toUI'[j].rows) <= Count
    <3>1. ASSUME NEW l \in DOMAIN toUI, l > j + 1 PROVE toUI[l].type # "AccountChanged"
      <4>1. l \in Nat /\ j \in Nat
        BY <2>2
      <4>2. l > 1 /\ l - 1 > j
        BY <3>1, <4>1
      <4> QED
        BY <2>2, <2>5, <4>2
    <3> QED
      BY <1>1, <2>2, <2>3, <2>5, <3>1 DEF CountInv
  <2>6. ASSUME ~Waits(toUI', {"AccountChanged"}), NEW i \in 1 .. RecentRows, ui'.recent[i] # NoRow PROVE i <= Count
    <3>1. ~Waits(toUI, {"AccountChanged"})
      <4>1. toUI[1].type \notin {"AccountChanged"}
        BY <1>2
      <4> QED
        BY <1>2, <2>6, <4>1, WaitsStill
    <3>2. Len(rows) <= Count
      BY <1>1, <1>2, <2>3, <3>1 DEF CountInv, Waits, rows
    <3> DEFINE m == Count
    <3>3. m \in Nat /\ n <= m
      BY <1>4, <2>4, <3>2
    <3>4. ui.recent[i] # NoRow => i <= m
      BY <1>1, <2>3, <3>1 DEF CountInv
    <3> HIDE DEF m
    <3>5. CASE ui'.recent[i] = ui.recent[i]
      BY <2>6, <3>4, <3>5 DEF m
    <3>6. CASE (IF n <= R THEN 0 ELSE n - R) + i <= n
      <4>1. i <= n
        BY <1>5, <3>6
      <4>2. i <= m
        BY <3>3, <4>1
      <4> QED
        BY <4>2 DEF m
    <3> QED
      BY <1>5, <1>7, <3>5, <3>6
  <2>7. \A j \in DOMAIN toUI' : toUI'[j].type = "UpdateTransactions" => Len(toUI'[j].rows) \in Nat
    BY <1>1, <2>2 DEF CountInv
  <2>8. ui'.recent = [i \in 1 .. RecentRows |-> ui'.recent[i]] /\ current' # 0
    BY <1>2, <1>5, <1>7, <2>3
  <2> HIDE DEF Count
  <2> QED
    BY <2>1, <2>5, <2>6, <2>7, <2>8 DEF CountInv
<1> QED
  BY <1>10, <1>12, <1>13, <1>14 DEF ScreenInv

\* The account or its transactions are asked for.
LEMMA AsksScreen == ASSUME ScreenInv, WalletInv, handle_add_block \/ transactions_changed PROVE ScreenInv'
<1>1. BalanceInv /\ TellInv /\ TableInv /\ CountInv
  BY DEF ScreenInv
<1>2. ASSUME NEW types, OnUIEvent(types), NEW type, Request(Event(type)), SameScreen,
             types \cap {"UpdateTransactions", "AccountChanged"} = {},
             BalanceAsked => BalanceAsked', RowsAsked => RowsAsked'
      PROVE  ScreenInv'
  <2>1. /\ Moved(toUI, toUI', 1, {}) /\ toUI[1].type \in types
        /\ UNCHANGED <<handler, accounts, current, stale>>
    BY <1>2, TakesScreen
  <2>2. /\ toUI[1].type # "AccountChanged" /\ toUI[1].type # "UpdateTransactions"
        /\ toUI[1].type \notin {"UpdateTransactions", "AccountChanged"}
    BY <1>2, <2>1
  <2>3. ui'.balance = ui.balance /\ ui'.table = ui.table /\ ui'.recent = ui.recent
    BY <1>2 DEF SameScreen
  <2>4. CurrentBalance' = CurrentBalance /\ Rows' = Rows /\ Count' = Count
    BY <2>1 DEF CurrentBalance, Rows, Count, Moving
  <2>5. BalanceInv'
    BY <1>1, <1>2, <2>1, <2>2, <2>3, <2>4, BalanceKept
  <2>6. TableInv'
    BY <1>1, <1>2, <2>1, <2>2, <2>3, <2>4, TableKept
  <2>7. ASSUME current # 0 PROVE Count \in Nat /\ Count' \in Nat /\ Count <= Count'
    <3>1. Count \in Nat /\ Count' = Count
      BY <2>4, <2>7, CountIs
    <3> HIDE DEF Count
    <3> QED
      BY <3>1
  <2>8. CountInv'
    BY <1>1, <2>1, <2>2, <2>3, <2>7, CountKept
  <2> QED
    BY <1>1, <1>2, <2>1, <2>5, <2>6, <2>8 DEF ScreenInv, TellInv
<1>3. DOMAIN ui = UIFields
  BY DEF WalletInv, ShapeInv
<1>4. CASE handle_add_block
  <2> DEFINE bs == <<Head(toUI).block>> \o ui.blocks
  <2>1. ui' = [ui EXCEPT !.blocks = bs] /\ OnUIEvent({"AddBlock"}) /\ Request(Event("GetAccountRequest"))
    BY <1>4 DEF handle_add_block
  <2> HIDE DEF bs
  <2>2. SameScreen
    BY <1>3, <2>1 DEF SameScreen, UIFields
  <2>3. PICK F : Moved(toWallet, toWallet', 0, F) /\ Waits(toWallet', {"GetAccountRequest"})
    BY <2>1, RequestScreen
  <2>4. Moved(toUI, toUI', 1, {}) /\ toUI[1].type = "AddBlock"
    BY <2>1, TakesScreen
  <2>5. BalanceAsked'
    BY <2>3 DEF BalanceAsked
  <2>6. RowsAsked => RowsAsked'
    <3>1. toUI[1].type \notin Asking
      BY <2>4 DEF Asking
    <3> QED
      BY <2>3, <2>4, <3>1, RowsAskedKept
  <2> QED
    BY <1>2, <2>1, <2>2, <2>5, <2>6
<1>5. CASE transactions_changed
  <2> DEFINE types == {"ShowPendingTransaction", "ShowConfirmedTransaction", "NewPendingTx"}
  <2>1. OnUIEvent(types) /\ Request(Event("GetTransactionsRequest")) /\ SameScreen
    BY <1>5 DEF transactions_changed, SameScreen
  <2>2. PICK F : Moved(toWallet, toWallet', 0, F) /\ Waits(toWallet', {"GetTransactionsRequest"})
    BY <2>1, RequestScreen
  <2>3. Moved(toUI, toUI', 1, {}) /\ toUI[1].type \in types /\ handler' = handler
    BY <2>1, TakesScreen
  <2>4. RowsAsked'
    BY <2>2 DEF RowsAsked
  <2>5. BalanceAsked => BalanceAsked'
    <3>1. toUI[1].type # "AddBlock"
      BY <2>3
    <3> QED
      BY <2>2, <2>3, <3>1, BalanceAskedKept
  <2>6. types \cap {"UpdateTransactions", "AccountChanged"} = {}
    OBVIOUS
  <2> QED
    BY <1>2, <2>1, <2>4, <2>5, <2>6
<1> QED
  BY <1>4, <1>5
--------------------------------------------------------------------------------
(***************************************************************************)
(* The thread of the wallet.                                               *)
(***************************************************************************)
\* One event is sent, or none.
LEMMA ConcatOne == ASSUME NEW q, IsList(q), NEW e PROVE q \o <<e>> = Append(q, e) /\ q \o <<>> = q
<1> DEFINE S == Range(q) \cup {e}
<1>1. q \in Seq(Range(q))
  BY DEF IsList
<1>2. q \in Seq(S) /\ e \in S
  <2>1. Range(q) \subseteq S
    OBVIOUS
  <2> HIDE DEF S
  <2> QED
    BY <1>1, <2>1 DEF S
<1> HIDE DEF S
<1> QED
  BY <1>2

\* What taking a request changes.
LEMMA RequestTaken ==
    ASSUME WalletInv, NEW type, OnWalletEvent(type)
    PROVE  /\ Moved(toWallet, toWallet', 1, {}) /\ Head(toWallet) = toWallet[1] /\ 1 \in DOMAIN toWallet
           /\ toWallet[1].type = type /\ handler' = handler /\ SameScreen /\ ui' = ui /\ IsList(toUI)
<1>1. ShapeInv
  BY DEF WalletInv
<1>2. ui' = ui /\ handler' = handler
  BY DEF OnWalletEvent, uiVars
<1> QED
  BY <1>1, <1>2, WalletTakes DEF SameScreen, ShapeInv

\* An answer that changes nothing of what the screen shows of the account.
LEMMA QuietAnswer ==
    ASSUME ScreenInv, WalletInv, NEW type, OnWalletEvent(type), UNCHANGED <<accounts, current, stale>>,
           type \notin {"GetAccountRequest", "GetTransactionsRequest"},
           NEW e, toUI' = toUI \/ (Show(<<e>>) /\ e.type \notin {"AccountChanged", "UpdateTransactions"})
    PROVE  ScreenInv'
<1>1. /\ Moved(toWallet, toWallet', 1, {}) /\ toWallet[1].type = type /\ handler' = handler /\ SameScreen /\ IsList(toUI)
  BY RequestTaken
<1>2. CASE toUI' = toUI
  <2>1. Moved(toUI, toUI', 0, {})
    BY <1>1, <1>2, MovedNot
  <2> QED
    BY <1>1, <2>1, QuietKeeps
<1>3. CASE Show(<<e>>) /\ e.type \notin {"AccountChanged", "UpdateTransactions"}
  <2>1. toUI' = Append(toUI, e)
    BY <1>1, <1>3, ConcatOne DEF Show
  <2>2. Moved(toUI, toUI', 0, {e})
    BY <1>1, <2>1, MovedAppend
  <2>3. \A x \in {e} : x.type \notin {"AccountChanged", "UpdateTransactions"}
    BY <1>3
  <2> QED
    BY <1>1, <2>2, <2>3, QuietKeeps
<1> QED
  BY <1>2, <1>3

\* The keys of a login, and searches.
LEMMA QuietRequests ==
    ASSUME ScreenInv, WalletInv, add_account \/ handle_search_block \/ handle_search_header \/ handle_poi
    PROVE  ScreenInv'
<1>1. CASE add_account
  <2> DEFINE e == Event("AddAccountError")
  <2>1. OnWalletEvent("AddAccountRequest") /\ UNCHANGED <<accounts, current, stale>> /\ (toUI' = toUI \/ Show(<<e>>))
    BY <1>1 DEF add_account, histVars
  <2>2. e.type \notin {"AccountChanged", "UpdateTransactions"}
    BY DEF Event
  <2> HIDE DEF e
  <2> QED
    BY <2>1, <2>2, QuietAnswer
<1>2. CASE handle_search_block
  <2> DEFINE e == IF search_block(Head(toWallet).hash) THEN Event("BlockFound")
                  ELSE [type |-> "NotFound", request |-> Head(toWallet)]
  <2>1. OnWalletEvent("SearchBlock") /\ UNCHANGED <<accounts, current, stale>> /\ Show(<<e>>)
    BY <1>2 DEF handle_search_block, histVars, walletVars
  <2>2. e.type \notin {"AccountChanged", "UpdateTransactions"}
    BY DEF Event
  <2> HIDE DEF e
  <2> QED
    BY <2>1, <2>2, QuietAnswer
<1>3. CASE handle_search_header
  <2> DEFINE found == search_header(Head(toWallet).hash)
             e == IF found # 0 THEN [type |-> "HeaderFound", request |-> Head(toWallet), header |-> found]
                  ELSE [type |-> "NotFound", request |-> Head(toWallet)]
  <2>1. OnWalletEvent("SearchHeader") /\ UNCHANGED <<accounts, current, stale>> /\ Show(<<e>>)
    BY <1>3 DEF handle_search_header, histVars, walletVars
  <2>2. e.type \notin {"AccountChanged", "UpdateTransactions"}
    <3> HIDE DEF found
    <3> QED
      OBVIOUS
  <2> HIDE DEF e
  <2> QED
    BY <2>1, <2>2, QuietAnswer
<1>4. CASE handle_poi
  <2> DEFINE b == Head(toWallet).hash
             e == [type |-> "POIResult", listed |-> Head(toWallet).listed, found |-> search_block(b),
                   included |-> search_block(b) /\ Contains(blocks[b], Head(toWallet).tx)]
  <2>1. OnWalletEvent("PoiOfTransactionRequest") /\ UNCHANGED <<accounts, current, stale>> /\ Show(<<e>>)
    BY <1>4 DEF handle_poi, histVars, walletVars
  <2>2. e.type \notin {"AccountChanged", "UpdateTransactions"}
    OBVIOUS
  <2> HIDE DEF e
  <2> QED
    BY <2>1, <2>2, QuietAnswer
<1> QED
  BY <1>1, <1>2, <1>3, <1>4

\* An account is added: it is not the one that is used.
LEMMA PushAccountScreen == ASSUME ScreenInv, WalletInv, push_account PROVE ScreenInv'
<1> DEFINE e == [type |-> "AccountAddedSuccesfully", address |-> wallet.account.address]
           a == wallet.account
<1>1. /\ accounts' = Append(accounts, a) /\ Show(<<e>>) /\ UNCHANGED <<current, toWallet, handler, ui, stale>>
  BY DEF push_account, uiVars, histVars
<1>2. IsList(toUI) /\ IsList(toWallet) /\ IsList(accounts)
  BY DEF WalletInv, ShapeInv
<1>3. e.type \notin {"AccountChanged", "UpdateTransactions"}
  OBVIOUS
<1> HIDE DEF e, a
<1>4. toUI' = Append(toUI, e)
  BY <1>1, <1>2, ConcatOne DEF Show
<1>5. Moved(toUI, toUI', 0, {e}) /\ Moved(toWallet, toWallet', 0, {})
  BY <1>1, <1>2, <1>4, MovedAppend, MovedNot
<1>6. \A x \in {e} : x.type \notin {"AccountChanged", "UpdateTransactions"}
  BY <1>3
<1>7. current # 0 => accounts'[current] = accounts[current]
  <2>1. \A i \in DOMAIN accounts : accounts'[i] = accounts[i]
    BY <1>1, <1>2, ListAppend
  <2> QED
    BY <2>1, CountIs
<1>8. SameScreen
  BY <1>1 DEF SameScreen
<1> QED
  BY <1>1, <1>5, <1>6, <1>7, <1>8, QuietKeeps

\* The balance of the account the wallet uses from now on is sent.
LEMMA AccountSent ==
    ASSUME ScreenInv, WalletInv, UNCHANGED <<accounts, handler, ui>>,
           current' # 0, Show(<<AccountChanged(current)'>>)
    PROVE  ScreenInv'
<1> DEFINE e == AccountChanged(current)'
<1>1. BalanceInv /\ TellInv /\ TableInv /\ CountInv
  BY DEF ScreenInv
<1>2. IsList(toUI)
  BY DEF WalletInv, ShapeInv
<1>3. e.type = "AccountChanged" /\ e.balance = CurrentBalance'
  BY DEF AccountChanged, CurrentBalance
<1>4. toUI' = Append(toUI, e)
  BY <1>2, ConcatOne DEF Show
<1> HIDE DEF e
<1>5. /\ \A j : Newest(toUI', "AccountChanged", j) => toUI'[j] = e
      /\ \A T : "AccountChanged" \in T => Waits(toUI', T)
  BY <1>2, <1>3, <1>4, NewestSent
<1>6. BalanceInv'
  BY <1>3, <1>5 DEF BalanceInv
<1>7. RowsAsked'
  BY <1>5 DEF RowsAsked, Asking
<1>8. TellInv' /\ TableInv'
  BY <1>7 DEF TellInv, TableInv
<1>9. CountInv'
  <2>1. /\ Len(toUI) \in Nat /\ DOMAIN toUI = 1 .. Len(toUI) /\ DOMAIN toUI' = 1 .. (Len(toUI) + 1)
        /\ \A i \in 1 .. Len(toUI) : toUI'[i] = toUI[i]
        /\ toUI'[Len(toUI) + 1] = e
    BY <1>2, <1>4, ListAppend
  <2>2. PICK n \in Nat : n = Len(toUI)
    BY <2>1
  <2>3. ASSUME NEW j \in DOMAIN toUI', toUI'[j].type = "UpdateTransactions"
        PROVE  j \in DOMAIN toUI /\ toUI'[j] = toUI[j] /\ n + 1 > j /\ n + 1 \in DOMAIN toUI'
    <3>1. j \in 1 .. (n + 1) /\ j # n + 1
      BY <1>3, <2>1, <2>2, <2>3
    <3>2. j \in 1 .. n /\ n + 1 > j
      BY <3>1
    <3> QED
      BY <2>1, <2>2, <3>2
  <2>4. \A j \in DOMAIN toUI' : toUI'[j].type = "UpdateTransactions" => Len(toUI'[j].rows) \in Nat
    BY <1>1, <2>3 DEF CountInv
  <2>5. \A j \in DOMAIN toUI' : toUI'[j].type = "UpdateTransactions" =>
           \E l \in DOMAIN toUI' : l > j /\ toUI'[l].type = "AccountChanged"
    BY <1>3, <2>1, <2>2, <2>3
  <2>6. Waits(toUI', {"AccountChanged"})
    BY <1>5
  <2>7. ui'.recent = [i \in 1 .. RecentRows |-> ui'.recent[i]]
    BY <1>1 DEF CountInv
  <2> QED
    BY <2>4, <2>5, <2>6, <2>7 DEF CountInv
<1> QED
  BY <1>6, <1>8, <1>9 DEF ScreenInv

\* The account is changed, or asked for.
LEMMA AccountScreen == ASSUME ScreenInv, WalletInv, change_account \/ get_current_account PROVE ScreenInv'
<1>1. CASE change_account
  <2>1. /\ OnWalletEvent("ChangeAccount") /\ UNCHANGED <<accounts, stale>>
        /\ \/ Show(<<Event("ChangeAccountError")>>) /\ UNCHANGED current
           \/ current' = Head(toWallet).index /\ Show(<<AccountChanged(Head(toWallet).index)>>)
    BY <1>1 DEF change_account, histVars
  <2>2. CASE Show(<<Event("ChangeAccountError")>>) /\ UNCHANGED current
    <3> DEFINE e == Event("ChangeAccountError")
    <3>1. e.type \notin {"AccountChanged", "UpdateTransactions"}
      BY DEF Event
    <3> HIDE DEF e
    <3> QED
      BY <2>1, <2>2, <3>1, QuietAnswer DEF e
  <2>3. CASE current' = Head(toWallet).index /\ Show(<<AccountChanged(Head(toWallet).index)>>)
    <3>1. /\ Head(toWallet) = toWallet[1] /\ 1 \in DOMAIN toWallet /\ Change(toWallet[1])
          /\ UNCHANGED <<handler, ui>>
      BY <2>1, RequestTaken DEF Change
    <3>2. current' # 0
      <4>1. current' \in DOMAIN ui.dropdown /\ IsList(ui.dropdown)
        BY <2>3, <3>1 DEF WalletInv, AccountsInv, SelectInv, ShapeInv
      <4>2. DOMAIN ui.dropdown = 1 .. Len(ui.dropdown)
        BY <4>1 DEF IsList
      <4> QED
        BY <4>1, <4>2
    <3>3. AccountChanged(current)' = AccountChanged(Head(toWallet).index)
      BY <2>1, <2>3 DEF AccountChanged
    <3> QED
      BY <2>1, <2>3, <3>1, <3>2, <3>3, AccountSent
  <2> QED
    BY <2>1, <2>2, <2>3
<1>2. CASE get_current_account
  <2>1. /\ OnWalletEvent("GetAccountRequest") /\ UNCHANGED <<accounts, current, stale>>
        /\ Show(IF current = 0 THEN <<>> ELSE <<AccountChanged(current)>>)
    BY <1>2 DEF get_current_account, histVars, walletVars
  <2>2. /\ Moved(toWallet, toWallet', 1, {}) /\ toWallet[1].type = "GetAccountRequest"
        /\ UNCHANGED <<handler, ui>> /\ IsList(toUI)
    BY <2>1, RequestTaken
  <2>3. CASE current = 0
    <3>1. toUI' = toUI
      BY <2>1, <2>2, <2>3, ConcatOne DEF Show
    <3>2. Moved(toUI, toUI', 0, {})
      BY <2>2, <3>1, MovedNot
    <3>3. RowsAsked => RowsAsked'
      BY <2>2, <3>2, RowsAskedKept
    <3>4. TellInv'
      BY <2>1, <2>2, <3>3 DEF ScreenInv, TellInv
    <3>5. BalanceInv' /\ TableInv'
      BY <2>1, <2>3 DEF BalanceInv, TableInv
    <3>6. CountInv'
      BY <2>1, <2>2, <2>3, <3>2, CountKept DEF ScreenInv
    <3> QED
      BY <3>4, <3>5, <3>6 DEF ScreenInv
  <2>4. CASE current # 0
    <3>1. AccountChanged(current)' = AccountChanged(current)
      BY <2>1 DEF AccountChanged
    <3> QED
      BY <2>1, <2>2, <2>4, <3>1, AccountSent
  <2> QED
    BY <2>3, <2>4
<1> QED
  BY <1>1, <1>2

\* The rows of the history: one for each transaction.
LEMMA RowsAre ==
    ASSUME NEW a, IsList(a.pending), IsList(a.confirmed), get_transactions(a).st = "ok"
    PROVE  Len(get_transactions(a).val) = Len(a.pending) + Len(a.confirmed) /\ IsList(get_transactions(a).val)
<1> DEFINE Row(state, tx) == [state |-> state, tx |-> tx, amount |-> amount_spent_by_account(tx, a.address)]
           p == [i \in DOMAIN a.pending |-> Row("Pending", a.pending[i])]
           c == [i \in DOMAIN a.confirmed |-> Row("Confirmed", a.confirmed[i])]
<1>1. get_transactions(a) = IF \E i \in DOMAIN (p \o c) : (p \o c)[i].amount.st # "ok" THEN Error ELSE Ok(p \o c)
  BY DEF get_transactions
<1>2. DOMAIN a.pending = 1 .. Len(a.pending) /\ Len(a.pending) \in Nat
  BY DEF IsList
<1>3. DOMAIN a.confirmed = 1 .. Len(a.confirmed) /\ Len(a.confirmed) \in Nat
  BY DEF IsList
<1>4. p = [i \in 1 .. Len(a.pending) |-> p[i]] /\ c = [i \in 1 .. Len(a.confirmed) |-> c[i]]
  BY <1>2, <1>3
<1> HIDE DEF p, c
<1>5. get_transactions(a).val = p \o c
  BY <1>1 DEF Error, Ok
<1>6. IsList(p) /\ Len(p) = Len(a.pending)
  BY <1>2, <1>4, ListOf
<1>7. IsList(c) /\ Len(c) = Len(a.confirmed)
  BY <1>3, <1>4, ListOf
<1>8. IsList(p \o c) /\ Len(p \o c) = Len(p) + Len(c)
  BY <1>6, <1>7, ListConcat
<1> QED
  BY <1>5, <1>6, <1>7, <1>8, Zenon

\* The transactions are sent.
LEMMA GetTransactionsScreen == ASSUME ScreenInv, WalletInv, handle_get_transactions PROVE ScreenInv'
<1> DEFINE e == [type |-> "UpdateTransactions", rows |-> Rows.val]
<1>1. BalanceInv /\ TellInv /\ TableInv /\ CountInv
  BY DEF ScreenInv
<1>2. /\ OnWalletEvent("GetTransactionsRequest") /\ UNCHANGED <<accounts, current>>
      /\ stale' = (handler.at = "tx_push")
      /\ Show(IF current = 0 \/ Rows.st # "ok" THEN <<>> ELSE <<e>>)
  BY DEF handle_get_transactions, walletVars, Rows
<1>3. /\ Moved(toWallet, toWallet', 1, {}) /\ toWallet[1].type = "GetTransactionsRequest" /\ handler' = handler
      /\ ui' = ui /\ IsList(toUI)
  BY <1>2, RequestTaken
<1>4. e.type = "UpdateTransactions" /\ e.rows = Rows.val
  OBVIOUS
<1> HIDE DEF e
<1>5. toUI' = toUI \/ (current # 0 /\ Rows.st = "ok" /\ toUI' = Append(toUI, e))
  BY <1>2, <1>3, ConcatOne DEF Show
<1>6. \E E : Moved(toUI, toUI', 0, E) /\ \A x \in E : x.type # "AccountChanged"
  <2>1. CASE toUI' = toUI
    <3>1. Moved(toUI, toUI', 0, {})
      BY <1>3, <2>1, MovedNot
    <3> QED
      BY <3>1
  <2>2. CASE toUI' = Append(toUI, e)
    <3>1. Moved(toUI, toUI', 0, {e})
      BY <1>3, <2>2, MovedAppend
    <3>2. \A x \in {e} : x.type # "AccountChanged"
      BY <1>4
    <3> QED
      BY <3>1, <3>2
  <2> QED
    BY <1>5, <2>1, <2>2
<1>7. TellInv'
  BY <1>2, <1>3 DEF TellInv
<1>8. BalanceInv'
  <2>1. toWallet[1].type # "GetAccountRequest"
    BY <1>3
  <2>2. BalanceAsked => BalanceAsked'
    BY <1>3, <1>6, <2>1, BalanceAskedKept
  <2>3. CurrentBalance' = CurrentBalance
    BY <1>2 DEF CurrentBalance
  <2> QED
    BY <1>1, <1>2, <1>3, <1>6, <2>2, <2>3, BalanceKept
<1>9. Rows' = Rows /\ Count' = Count
  BY <1>2, <1>3 DEF Rows, Count, Moving
<1>10. CASE toUI' = toUI
  <2>1. CASE current = 0 \/ Rows.st # "ok"
    <3>1. TableInv'
      BY <1>2, <1>9, <2>1 DEF TableInv
    <3>2. Moved(toUI, toUI', 0, {})
      BY <1>3, <1>10, MovedNot
    <3>3. ASSUME current # 0 PROVE Count \in Nat /\ Count' \in Nat /\ Count <= Count'
      <4>1. Count \in Nat /\ Count' = Count
        BY <1>9, <3>3, CountIs
      <4> HIDE DEF Count
      <4> QED
        BY <4>1
    <3>4. CountInv'
      BY <1>1, <1>2, <1>3, <3>2, <3>3, CountKept
    <3> QED
      BY <1>7, <1>8, <3>1, <3>4 DEF ScreenInv
  <2>2. CASE ~(current = 0 \/ Rows.st # "ok")
    <3>1. toUI' = Append(toUI, e) /\ Len(toUI) \in Nat
      BY <1>2, <1>3, <2>2, ConcatOne DEF Show, IsList
    <3>2. Len(Append(toUI, e)) = Len(toUI) + 1
      BY <1>3, ListAppend
    <3> QED
      BY <1>10, <3>1, <3>2
  <2> QED
    BY <2>1, <2>2
<1>11. CASE current # 0 /\ Rows.st = "ok" /\ toUI' = Append(toUI, e)
  <2>1. /\ \A j : Newest(toUI', "UpdateTransactions", j) => toUI'[j] = e
        /\ \A T : "UpdateTransactions" \in T => Waits(toUI', T)
    <3>1. /\ \A j : Newest(Append(toUI, e), e.type, j) => Append(toUI, e)[j] = e
          /\ \A T : e.type \in T => Waits(Append(toUI, e), T)
      BY <1>3, NewestSent
    <3> QED
      BY <1>4, <1>11, <3>1
  <2>2. TableInv'
    BY <1>4, <1>9, <2>1 DEF TableInv
  <2>3. Len(Rows.val) = Len(accounts[current].pending) + Len(accounts[current].confirmed) /\ Len(Rows.val) \in Nat
    <3>1. IsList(accounts[current].pending) /\ IsList(accounts[current].confirmed)
      BY <1>11, CountIs
    <3>2. IsList(Rows.val) /\ Len(Rows.val) = Len(accounts[current].pending) + Len(accounts[current].confirmed)
      BY <1>11, <3>1, RowsAre DEF Rows
    <3>3. \A v : IsList(v) => Len(v) \in Nat
      BY DEF IsList
    <3> QED
      BY <3>2, <3>3
  <2>4. Len(Rows.val) <= Count
    <3> DEFINE p == Len(accounts[current].pending)
               c == Len(accounts[current].confirmed)
               m == Moving
    <3>1. p \in Nat /\ c \in Nat /\ m \in {0, 1} /\ Len(Rows.val) = p + c /\ Count = p + c + m
      BY <1>11, <2>3, CountIs DEF Count
    <3> HIDE DEF p, c, m
    <3>2. p + c <= p + c + m
      BY <3>1
    <3> QED
      BY <3>1, <3>2
  <2>5. /\ Len(toUI) \in Nat /\ DOMAIN toUI = 1 .. Len(toUI) /\ DOMAIN toUI' = 1 .. (Len(toUI) + 1)
        /\ \A i \in 1 .. Len(toUI) : toUI'[i] = toUI[i]
        /\ toUI'[Len(toUI) + 1] = e
    BY <1>3, <1>11, ListAppend
  <2>6. PICK n \in Nat : n = Len(toUI)
    BY <2>5
  <2>7. /\ DOMAIN toUI = 1 .. n /\ DOMAIN toUI' = 1 .. (n + 1)
        /\ \A i \in 1 .. n : i \in 1 .. (n + 1) /\ toUI'[i] = toUI[i]
        /\ toUI'[n + 1] = e
        /\ \A i \in 1 .. (n + 1) : i \in 1 .. n \/ i = n + 1
    BY <2>5, <2>6
  <2>8. \A j \in DOMAIN toUI' : toUI'[j].type = "UpdateTransactions" => Len(toUI'[j].rows) \in Nat
    BY <1>1, <1>4, <2>3, <2>7 DEF CountInv
  <2>9. ASSUME NEW j \in DOMAIN toUI', toUI'[j].type = "UpdateTransactions",
               \A l \in DOMAIN toUI' : l > j => toUI'[l].type # "AccountChanged"
        PROVE  Len(toUI'[j].rows) <= Count
    <3>1. CASE j = n + 1
      BY <1>4, <2>4, <2>7, <3>1
    <3>2. CASE j \in 1 .. n
      <4>1. \A l \in DOMAIN toUI : l > j => toUI[l].type # "AccountChanged"
        BY <2>7, <2>9
      <4>2. toUI[j].type = "UpdateTransactions" /\ j \in DOMAIN toUI /\ toUI'[j] = toUI[j]
        BY <2>7, <2>9, <3>2
      <4> QED
        BY <1>1, <1>11, <4>1, <4>2 DEF CountInv
    <3> QED
      BY <2>7, <3>1, <3>2
  <2>10. Waits(toUI, {"AccountChanged"}) => Waits(toUI', {"AccountChanged"})
    BY <2>7 DEF Waits
  <2>11. ASSUME ~Waits(toUI', {"AccountChanged"}), NEW i \in 1 .. RecentRows, ui'.recent[i] # NoRow PROVE i <= Count
    BY <1>1, <1>3, <1>11, <2>10, <2>11 DEF CountInv
  <2>12. ui'.recent = [i \in 1 .. RecentRows |-> ui'.recent[i]] /\ current' # 0
    BY <1>1, <1>2, <1>3, <1>11 DEF CountInv
  <2>13. CountInv'
    <3> HIDE DEF Count
    <3> QED
      BY <1>9, <2>8, <2>9, <2>11, <2>12 DEF CountInv
  <2> QED
    BY <1>7, <1>8, <2>2, <2>13 DEF ScreenInv
<1> QED
  BY <1>5, <1>10, <1>11

\* A payment is pending, and told of unless it could not be announced.
LEMMA MakeScreen == ASSUME ScreenInv, WalletInv, handle_make_transaction PROVE ScreenInv'
<1>1. BalanceInv /\ TellInv /\ TableInv /\ CountInv /\ ShapeInv
  BY DEF ScreenInv, WalletInv
<1>2. /\ OnWalletEvent("MakeTransaction") /\ ~AccountsRead /\ UNCHANGED current
  BY DEF handle_make_transaction
<1>3. /\ Moved(toWallet, toWallet', 1, {}) /\ toWallet[1].type = "MakeTransaction" /\ handler' = handler
      /\ ui' = ui /\ IsList(toUI) /\ SameScreen
  BY <1>2, RequestTaken
<1>4. PICK F : Moved(toUI, toUI', 0, F) /\ \A e \in F : e.type \in {"NewPendingTx", "MakeTransactionStatus"}
  BY <1>1, MakeTransactionIs
<1>5. \A e \in F : e.type # "AccountChanged" /\ e.type # "UpdateTransactions" /\ e.type \notin {"UpdateTransactions", "AccountChanged"}
  BY <1>4
<1>6. /\ \/ UNCHANGED <<accounts, stale>>
         \/ stale' \/ Waits(toUI', {"NewPendingTx"})
      /\ stale => stale'
  <2>1. PICK sent, coins : sent \in BOOLEAN /\ make_transaction(coins, sent)
    BY DEF handle_make_transaction
  <2> DEFINE new == Event("NewPendingTx")
             s == Event("MakeTransactionStatus")
  <2>2. \/ UNCHANGED <<accounts, stale>>
        \/ Show(IF sent THEN <<new>> \o <<s>> ELSE <<s>>) /\ stale' = (stale \/ ~sent)
    BY <2>1 DEF make_transaction, histVars
  <2>3. CASE UNCHANGED <<accounts, stale>>
    BY <2>3
  <2>4. CASE Show(IF sent THEN <<new>> \o <<s>> ELSE <<s>>) /\ stale' = (stale \/ ~sent)
    <3>1. CASE ~sent
      BY <2>4, <3>1
    <3>2. CASE sent
      <4>1. new.type = "NewPendingTx"
        BY DEF Event
      <4> HIDE DEF new, s
      <4> DEFINE es == <<new>> \o <<s>>
      <4>2. toUI' = toUI \o es
        BY <2>4, <3>2 DEF Show
      <4>3. IsList(es) /\ 1 \in DOMAIN es /\ es[1] = new
        <5>1. IsList(<<new>>) /\ IsList(<<s>>) /\ Len(<<new>>) = 1 /\ Len(<<s>>) = 1 /\ <<new>>[1] = new
          BY ShortLists
        <5>2. /\ IsList(es) /\ DOMAIN es = 1 .. (Len(<<new>>) + Len(<<s>>))
              /\ \A i \in 1 .. Len(<<new>>) : es[i] = <<new>>[i]
          BY <5>1, ListConcat
        <5> QED
          BY <5>1, <5>2
      <4> HIDE DEF es
      <4>4. /\ Len(toUI) \in Nat /\ DOMAIN es = 1 .. Len(es) /\ Len(es) \in Nat
            /\ DOMAIN (toUI \o es) = 1 .. (Len(toUI) + Len(es))
            /\ \A i \in 1 .. Len(es) : (toUI \o es)[Len(toUI) + i] = es[i]
        BY <1>3, <4>3, ListConcat
      <4>5. Len(toUI) + 1 \in DOMAIN toUI' /\ toUI'[Len(toUI) + 1] = new
        BY <4>2, <4>3, <4>4
      <4> QED
        BY <2>4, <4>1, <4>5 DEF Waits
    <3> QED
      BY <2>1, <3>1, <3>2
  <2> QED
    BY <2>2, <2>3, <2>4
<1>7. BalanceAsked => BalanceAsked'
  <2>1. toWallet[1].type # "GetAccountRequest"
    BY <1>3
  <2> QED
    BY <1>3, <1>4, <2>1, BalanceAskedKept
<1>8. RowsAsked => RowsAsked'
  <2>1. toWallet[1].type # "GetTransactionsRequest"
    BY <1>3
  <2> QED
    BY <1>3, <1>4, <2>1, RowsAskedKept
<1>9. CASE accounts' = accounts
  <2>1. CurrentBalance' = CurrentBalance /\ Rows' = Rows /\ Count' = Count
    BY <1>2, <1>3, <1>9 DEF CurrentBalance, Rows, Count, Moving
  <2>2. BalanceInv'
    BY <1>1, <1>2, <1>3, <1>4, <1>5, <1>7, <2>1, BalanceKept
  <2>3. TellInv'
    BY <1>1, <1>3, <1>6, <1>8 DEF TellInv
  <2>4. TableInv'
    BY <1>1, <1>2, <1>3, <1>4, <1>5, <1>6, <1>8, <2>1, TableKept
  <2>5. ASSUME current # 0 PROVE Count \in Nat /\ Count' \in Nat /\ Count <= Count'
    <3>1. Count \in Nat /\ Count' = Count
      BY <2>1, <2>5, CountIs
    <3> HIDE DEF Count
    <3> QED
      BY <3>1
  <2>6. CountInv'
    BY <1>1, <1>2, <1>3, <1>4, <1>5, <2>5, CountKept
  <2> QED
    BY <2>2, <2>3, <2>4, <2>6 DEF ScreenInv
<1>10. CASE accounts' # accounts
  <2>1. PICK tx : /\ current \in DOMAIN accounts
                  /\ accounts'[current].pending = Append(accounts[current].pending, tx)
                  /\ accounts'[current].confirmed = accounts[current].confirmed
                  /\ SameCoins
    BY <1>10, MadeIs
  <2>2. TellInv'
    BY <1>2, <1>3 DEF AccountsRead, TellInv
  <2>3. stale' \/ RowsAsked'
    <3>1. Waits(toUI', {"NewPendingTx"}) => Waits(toUI', Asking)
      BY DEF Waits, Asking
    <3> QED
      BY <1>6, <1>10, <3>1 DEF RowsAsked
  <2>4. TableInv'
    BY <2>3 DEF TableInv
  <2>5. CurrentBalance' = CurrentBalance
    BY <1>2, <2>1 DEF CurrentBalance, SameCoins
  <2>6. BalanceInv'
    BY <1>1, <1>2, <1>3, <1>4, <1>5, <1>7, <2>5, BalanceKept
  <2>7. ASSUME current # 0 PROVE Count \in Nat /\ Count' \in Nat /\ Count <= Count'
    <3> DEFINE p == Len(accounts[current].pending)
               c == Len(accounts[current].confirmed)
               m == Moving
    <3>1. IsList(accounts[current].pending) /\ p \in Nat /\ c \in Nat /\ m \in {0, 1} /\ Count = p + c + m
      BY <2>7, CountIs DEF Count
    <3>2. Len(accounts'[current].pending) = p + 1
      BY <2>1, <3>1, ListAppend
    <3>3. Count' = p + 1 + c + m
      BY <1>2, <1>3, <2>1, <3>2 DEF Count, Moving
    <3> HIDE DEF p, c, m
    <3>4. p + c + m \in Nat /\ p + 1 + c + m \in Nat /\ p + c + m <= p + 1 + c + m
      BY <3>1
    <3> HIDE DEF Count
    <3> QED
      BY <3>1, <3>3, <3>4
  <2>8. CountInv'
    BY <1>1, <1>2, <1>3, <1>4, <1>5, <2>7, CountKept
  <2> QED
    BY <2>2, <2>4, <2>6, <2>8 DEF ScreenInv
<1> QED
  BY <1>9, <1>10
--------------------------------------------------------------------------------
(***************************************************************************)
(* The thread of the peer.                                                 *)
(***************************************************************************)
\* A step that tells the interface what it has to ask for.
LEMMA PeerScreen ==
    ASSUME ScreenInv, WalletInv, UNCHANGED <<current, toWallet, ui, stale>>,
           NEW E, Moved(toUI, toUI', 0, E), \A e \in E : e.type \notin {"AccountChanged", "UpdateTransactions"},
           BalanceAsked' \/ (handler.at \notin Refreshing /\ (current # 0 => CurrentBalance' = CurrentBalance)),
           handler'.at = "tx_push" => RowsAsked',
           \/ RowsAsked' \/ stale \/ handler'.at = "confirm_push"
           \/ handler.at # "confirm_push" /\ (current # 0 => Rows' = Rows),
           current # 0 => Count' \in Nat /\ Count <= Count'
    PROVE  ScreenInv'
<1>1. BalanceInv /\ TellInv /\ TableInv /\ CountInv /\ IsList(toWallet)
  BY DEF ScreenInv, WalletInv, ShapeInv
<1>2. Moved(toWallet, toWallet', 0, {})
  BY <1>1, MovedNot
<1>3. /\ \A e \in E : e.type # "AccountChanged" /\ e.type # "UpdateTransactions"
      /\ \A e \in E : e.type \notin {"UpdateTransactions", "AccountChanged"}
  OBVIOUS
<1>4. BalanceInv'
  <2>1. CASE BalanceAsked'
    BY <2>1 DEF BalanceInv
  <2>2. CASE handler.at \notin Refreshing /\ (current # 0 => CurrentBalance' = CurrentBalance)
    <3>1. BalanceAsked => BalanceAsked'
      BY <1>2, <2>2, BalanceAskedKept
    <3> QED
      BY <1>1, <1>3, <2>2, <3>1, BalanceKept
  <2> QED
    BY <2>1, <2>2
<1>5. TellInv'
  BY DEF TellInv
<1>6. TableInv'
  <2>1. CASE RowsAsked' \/ stale \/ handler'.at = "confirm_push"
    BY <2>1 DEF TableInv
  <2>2. CASE handler.at # "confirm_push" /\ (current # 0 => Rows' = Rows)
    <3>1. RowsAsked => RowsAsked'
      BY <1>2, RowsAskedKept
    <3> QED
      BY <1>1, <1>3, <2>2, <3>1, TableKept
  <2> QED
    BY <2>1, <2>2
<1>7. CountInv'
  <2>1. current # 0 => Count \in Nat
    BY CountIs
  <2> QED
    BY <1>1, <1>3, <2>1, CountKept
<1> QED
  BY <1>4, <1>5, <1>6, <1>7 DEF ScreenInv

\* The transactions of the account stay, and none is moving.
LEMMA SameCount ==
    ASSUME WalletInv, current' = current, current # 0 => accounts'[current].pending = accounts[current].pending
                                                       /\ accounts'[current].confirmed = accounts[current].confirmed,
           handler.at # "confirm_push", handler'.at # "confirm_push"
    PROVE  current # 0 => Count' \in Nat /\ Count <= Count'
<1> SUFFICES ASSUME current # 0 PROVE Count' \in Nat /\ Count <= Count'
  OBVIOUS
<1>1. Count \in Nat /\ Count' = Count
  BY CountIs DEF Count, Moving
<1> HIDE DEF Count
<1> QED
  BY <1>1

\* The history depends on the transactions of the account and its address.
LEMMA SameRows ==
    ASSUME NEW a, NEW b, a.pending = b.pending, a.confirmed = b.confirmed, a.address = b.address
    PROVE  get_transactions(a) = get_transactions(b)
BY DEF get_transactions

\* Messages of the peer, and the unspent outputs.
LEMMA QuietPeer ==
    ASSUME ScreenInv, WalletInv,
           \/ give_me_utxos \/ (\E tx \in Incoming : handle_tx_message(tx))
           \/ (\E b \in 1 .. (headers + 1) : handle_headers_message(b)) \/ \E txs \in BlockLists : handle_block_message(txs)
    PROVE  ScreenInv'
<1>1. IsList(toUI) /\ IsList(toWallet)
  BY DEF WalletInv, ShapeInv
<1>2. ASSUME UNCHANGED <<accounts, current, toWallet, toUI, ui, stale>>, handler.at \in OffScreen, handler'.at \in OffScreen
      PROVE  ScreenInv'
  <2>1. Moved(toUI, toUI', 0, {}) /\ Moved(toWallet, toWallet', 0, {}) /\ SameScreen
    BY <1>1, <1>2, MovedNot DEF SameScreen
  <2> QED
    BY <1>2, <2>1, QuietKeeps
<1>3. CASE give_me_utxos
  <2>1. OnlyPeer /\ UNCHANGED <<accounts, toUI>> /\ handler.at = "utxos" /\ handler'.at = "accounts"
    BY <1>3, UtxosIs
  <2>2. stale' = stale
    BY <1>3 DEF give_me_utxos
  <2> QED
    BY <1>2, <2>1, <2>2 DEF OnlyPeer, OffScreen
<1>4. ASSUME NEW tx, handle_tx_message(tx) PROVE ScreenInv'
  <2>1. OnlyPeer /\ UNCHANGED <<accounts, toUI>> /\ handler.at = "idle" /\ handler'.at = "tx_check"
    BY <1>4, TxMessageIs
  <2>2. stale' = stale
    BY <1>4 DEF handle_tx_message
  <2> QED
    BY <1>2, <2>1, <2>2 DEF OnlyPeer, OffScreen
<1>5. ASSUME NEW txs, handle_block_message(txs) PROVE ScreenInv'
  <2>1. UNCHANGED <<accounts, toUI, current, toWallet, ui>> /\ handler.at = "idle" /\ handler'.at = "utxos"
    BY <1>5, BlockMessageIs
  <2>2. stale' = stale
    BY <1>5 DEF handle_block_message, histVars
  <2> QED
    BY <1>2, <2>1, <2>2 DEF OffScreen
<1>6. ASSUME NEW b \in 1 .. (headers + 1), handle_headers_message(b) PROVE ScreenInv'
  <2>1. UNCHANGED <<accounts, current, toWallet, toUI, ui, stale, handler>> /\ handler.at = "idle"
    BY <1>6, HeaderIs DEF trackVars, handle_headers_message, OnPeer
  <2> QED
    BY <1>2, <2>1 DEF OffScreen
<1> QED
  BY <1>3, <1>4, <1>5, <1>6

\* One event is told, or none.
LEMMA Tells ==
    ASSUME WalletInv, NEW e, toUI' = toUI \/ (toUI' = Append(toUI, e) /\ e.type \notin {"AccountChanged", "UpdateTransactions"})
    PROVE  \E E : Moved(toUI, toUI', 0, E) /\ \A x \in E : x.type \notin {"AccountChanged", "UpdateTransactions"}
<1>1. IsList(toUI)
  BY DEF WalletInv, ShapeInv
<1>2. CASE toUI' = toUI
  <2>1. Moved(toUI, toUI', 0, {})
    BY <1>1, <1>2, MovedNot
  <2> QED
    BY <2>1
<1>3. CASE toUI' = Append(toUI, e) /\ e.type \notin {"AccountChanged", "UpdateTransactions"}
  <2>1. Moved(toUI, toUI', 0, {e})
    BY <1>1, <1>3, MovedAppend
  <2>2. \A x \in {e} : x.type \notin {"AccountChanged", "UpdateTransactions"}
    BY <1>3
  <2> QED
    BY <2>1, <2>2
<1> QED
  BY <1>2, <1>3

\* A transaction concerns an account: the interface is told before it is pending.
LEMMA InvolvesScreen == ASSUME ScreenInv, WalletInv, PlaceInv, involves_user_account PROVE ScreenInv'
<1> DEFINE e == Event("ShowPendingTransaction")
<1>1. /\ UNCHANGED <<current, toWallet, ui, accounts>> /\ handler.at = "tx_check"
      /\ \/ toUI' = toUI /\ handler' = Idle
         \/ toUI' = Append(toUI, e) /\ handler'.at = "tx_push"
  BY InvolvesIs DEF OnlyPeer
<1>2. stale' = stale
  BY DEF involves_user_account, histVars
<1>3. e.type = "ShowPendingTransaction"
  BY DEF Event
<1> HIDE DEF e
<1>4. PICK E : Moved(toUI, toUI', 0, E) /\ \A x \in E : x.type \notin {"AccountChanged", "UpdateTransactions"}
  <2>1. e.type \notin {"AccountChanged", "UpdateTransactions"}
    BY <1>3
  <2> QED
    BY <1>1, <2>1, Tells
<1>5. handler'.at = "tx_push" => RowsAsked'
  <2>1. ASSUME toUI' = Append(toUI, e) PROVE RowsAsked'
    <3>1. IsList(toUI)
      BY DEF WalletInv, ShapeInv
    <3>2. \A T : e.type \in T => Waits(Append(toUI, e), T)
      BY <3>1, NewestSent
    <3>3. e.type \in Asking
      BY <1>3 DEF Asking
    <3> QED
      BY <2>1, <3>2, <3>3 DEF RowsAsked
  <2> QED
    BY <1>1, <2>1, IdleIs
<1>6. handler'.at \in {"idle", "tx_push"}
  BY <1>1, IdleIs
<1>7. CurrentBalance' = CurrentBalance /\ Rows' = Rows /\ handler.at \notin Refreshing
  BY <1>1 DEF CurrentBalance, Rows, Refreshing
<1>8. current # 0 => Count' \in Nat /\ Count <= Count'
  <2>1. handler.at # "confirm_push" /\ handler'.at # "confirm_push"
    BY <1>1, <1>6
  <2> QED
    BY <1>1, <2>1, SameCount
<1> QED
  BY <1>1, <1>2, <1>4, <1>5, <1>7, <1>8, PeerScreen

\* The transaction is pending.
LEMMA PushPendingScreen == ASSUME ScreenInv, WalletInv, PlaceInv, push_pending PROVE ScreenInv'
<1> DEFINE k == handler.account
           t == handler.txs[1]
<1>1. /\ UNCHANGED <<current, toWallet, ui, toUI>> /\ handler.at = "tx_push" /\ handler'.at = "tx_check"
      /\ SameNames /\ SameCoins /\ accounts'[k].pending = Append(accounts[k].pending, t)
      /\ accounts'[k].confirmed = accounts[k].confirmed
      /\ \A i \in DOMAIN accounts \ {k} : accounts'[i] = accounts[i]
  BY PushPendingIs DEF OnlyPeer
<1>2. stale' = stale
  BY DEF push_pending, histVars
<1> HIDE DEF k, t
<1>3. PICK E : Moved(toUI, toUI', 0, E) /\ \A x \in E : x.type \notin {"AccountChanged", "UpdateTransactions"}
  BY <1>1, Tells
<1>4. current # 0 => CurrentBalance' = CurrentBalance
  BY <1>1, CountIs DEF CurrentBalance, SameCoins
<1>5. stale \/ RowsAsked'
  BY <1>1 DEF ScreenInv, TellInv, RowsAsked
<1>6. ASSUME current # 0 PROVE Count' \in Nat /\ Count <= Count'
  <2> DEFINE p == Len(accounts[current].pending)
             c == Len(accounts[current].confirmed)
  <2>1. /\ current \in DOMAIN accounts /\ IsList(accounts[current].pending) /\ p \in Nat /\ c \in Nat
    BY <1>6, CountIs
  <2>2. Count = p + c + 0 /\ Count' = Len(accounts'[current].pending) + Len(accounts'[current].confirmed) + 0
    BY <1>1 DEF Count, Moving
  <2>3. accounts'[current].confirmed = accounts[current].confirmed
    BY <1>1, <2>1
  <2>4. Len(accounts'[current].pending) \in {p, p + 1}
    <3>1. CASE current = k
      BY <1>1, <2>1, <3>1, ListAppend
    <3>2. CASE current # k
      BY <1>1, <2>1, <3>2
    <3> QED
      BY <3>1, <3>2
  <2> DEFINE q == Len(accounts'[current].pending)
             m == Count
             n == Count'
  <2>5. p \in Nat /\ c \in Nat /\ q \in {p, p + 1} /\ m = p + c + 0 /\ n = q + c + 0
    BY <2>1, <2>2, <2>3, <2>4
  <2> HIDE DEF p, c, q, m, n
  <2>6. n \in Nat /\ m <= n
    BY <2>5
  <2> QED
    BY <2>6 DEF m, n
<1>7. handler.at \notin Refreshing
  BY <1>1 DEF Refreshing
<1>8. handler'.at = "tx_push" => RowsAsked'
  BY <1>1
<1> QED
  BY <1>1, <1>2, <1>3, <1>4, <1>5, <1>6, <1>7, <1>8, PeerScreen

\* The coins of the accounts have changed; the block is yet to be announced.
LEMMA UpdateScreen == ASSUME ScreenInv, WalletInv, update_accounts_utxo_set PROVE ScreenInv'
<1>1. /\ UNCHANGED <<current, toWallet, ui, toUI>> /\ handler.at = "accounts" /\ handler'.at = "confirm" /\ SameNames
      /\ \A i \in DOMAIN accounts : /\ accounts'[i].pending = accounts[i].pending
                                    /\ accounts'[i].confirmed = accounts[i].confirmed
  BY UpdateIs DEF OnlyPeer
<1>2. stale' = stale
  BY DEF update_accounts_utxo_set
<1>3. PICK E : Moved(toUI, toUI', 0, E) /\ \A x \in E : x.type \notin {"AccountChanged", "UpdateTransactions"}
  BY <1>1, Tells
<1>4. BalanceAsked'
  BY <1>1 DEF BalanceAsked, Refreshing
<1>5. current # 0 => /\ accounts'[current].pending = accounts[current].pending
                     /\ accounts'[current].confirmed = accounts[current].confirmed
                     /\ accounts'[current].address = accounts[current].address
  BY <1>1, CountIs DEF SameNames
<1>6. current # 0 => Rows' = Rows
  BY <1>1, <1>5, SameRows DEF Rows
<1>7. current # 0 => Count' \in Nat /\ Count <= Count'
  <2>1. handler.at # "confirm_push" /\ handler'.at # "confirm_push"
    BY <1>1
  <2> QED
    BY <1>1, <1>5, <2>1, SameCount
<1>8. handler.at # "confirm_push" /\ (handler'.at = "tx_push" => RowsAsked')
  BY <1>1
<1> QED
  BY <1>1, <1>2, <1>3, <1>4, <1>6, <1>7, <1>8, PeerScreen

\* A transaction of the block that was pending is taken from the list.
LEMMA ContainsScreen == ASSUME ScreenInv, WalletInv, PlaceInv, contains_pending_tx PROVE ScreenInv'
<1> DEFINE k == handler'.account
           t == handler.txs[handler'.place]
<1>1. /\ UNCHANGED <<current, toWallet, ui, toUI>> /\ handler.at = "confirm" /\ SameNames /\ SameCoins
      /\ \/ handler'.at = "include" /\ accounts' = accounts
         \/ /\ handler'.at = "confirm_push" /\ k \in DOMAIN accounts
            /\ Has(accounts[k].pending, t) /\ accounts'[k].pending = RemoveFirst(accounts[k].pending, t)
            /\ accounts'[k].confirmed = accounts[k].confirmed
            /\ \A i \in DOMAIN accounts \ {k} : accounts'[i] = accounts[i]
  BY ContainsPendingIs DEF OnlyPeer
<1>2. stale' = stale
  BY DEF contains_pending_tx, histVars
<1> HIDE DEF t
<1>3. PICK E : Moved(toUI, toUI', 0, E) /\ \A x \in E : x.type \notin {"AccountChanged", "UpdateTransactions"}
  BY <1>1, Tells
<1>4. BalanceAsked'
  BY <1>1 DEF BalanceAsked, Refreshing
<1>5. handler'.at # "tx_push" /\ handler.at # "confirm_push"
  BY <1>1
<1>6. handler'.at = "confirm_push" \/ Rows' = Rows
  BY <1>1 DEF Rows
<1>7. ASSUME current # 0 PROVE Count' \in Nat /\ Count <= Count'
  <2>1. CASE handler'.at = "include"
    <3>1. handler'.at # "confirm_push" /\ accounts' = accounts
      BY <1>1, <2>1
    <3> QED
      BY <1>1, <1>5, <1>7, <3>1, SameCount
  <2>2. CASE handler'.at = "confirm_push"
    <3> DEFINE p == Len(accounts[current].pending)
               c == Len(accounts[current].confirmed)
               q == Len(accounts'[current].pending)
               m == Count
               n == Count'
    <3>1. /\ current \in DOMAIN accounts /\ IsList(accounts[current].pending) /\ p \in Nat /\ c \in Nat
      BY <1>7, CountIs
    <3>2. accounts'[current].confirmed = accounts[current].confirmed
      BY <1>1, <2>2, <3>1
    <3>3. m = p + c + 0 /\ n = q + c + (IF k = current THEN 1 ELSE 0)
      BY <1>1, <2>2, <3>2 DEF Count, Moving
    <3>4. CASE k = current
      <4> DEFINE l == accounts[current].pending
                 r == RemoveFirst(l, t)
      <4>1. \E i \in DOMAIN l : l[i] = t
        BY <1>1, <2>2, <3>4 DEF Has
      <4>2. IsList(l) /\ accounts'[current].pending = r /\ p = Len(l)
        BY <1>1, <2>2, <3>1, <3>4
      <4> HIDE DEF l
      <4>3. Len(l) \in Nat \ {0} /\ IsList(r) /\ DOMAIN r = 1 .. (Len(l) - 1)
        BY <4>1, <4>2, ListRemoveFirst
      <4> HIDE DEF r
      <4>4. Len(r) = Len(l) - 1
        BY <4>3 DEF IsList
      <4>5. p \in Nat \ {0} /\ q = p - 1 /\ n = q + c + 1
        BY <3>3, <3>4, <4>2, <4>3, <4>4
      <4> HIDE DEF p, c, q, m, n
      <4>6. n \in Nat /\ m <= n
        BY <3>1, <3>3, <4>5
      <4> QED
        BY <4>6 DEF m, n
    <3>5. CASE k # current
      <4>1. q = p /\ n = q + c + 0
        BY <1>1, <2>2, <3>1, <3>3, <3>5
      <4> HIDE DEF p, c, q, m, n
      <4>2. n \in Nat /\ m <= n
        BY <3>1, <3>3, <4>1
      <4> QED
        BY <4>2 DEF m, n
    <3> QED
      BY <3>4, <3>5
  <2> QED
    BY <1>1, <2>1, <2>2
<1> QED
  BY <1>1, <1>2, <1>3, <1>4, <1>5, <1>6, <1>7, PeerScreen

\* The transaction is confirmed, and the interface is told.
LEMMA PushConfirmedScreen == ASSUME ScreenInv, WalletInv, PlaceInv, push_confirmed PROVE ScreenInv'
<1> DEFINE e == Event("ShowConfirmedTransaction")
           k == handler.account
           t == handler.txs[handler.place]
<1>1. /\ UNCHANGED <<current, toWallet, ui>> /\ toUI' = Append(toUI, e)
      /\ handler.at = "confirm_push" /\ handler'.at = "confirm"
      /\ accounts'[k].confirmed = Append(accounts[k].confirmed, t)
      /\ accounts'[k].pending = accounts[k].pending
      /\ \A i \in DOMAIN accounts \ {k} : accounts'[i] = accounts[i]
  BY PushConfirmedIs DEF OnlyPeer
<1>2. stale' = stale
  BY DEF push_confirmed, histVars
<1>3. e.type = "ShowConfirmedTransaction"
  BY DEF Event
<1> HIDE DEF e, t
<1>4. PICK E : Moved(toUI, toUI', 0, E) /\ \A x \in E : x.type \notin {"AccountChanged", "UpdateTransactions"}
  <2>1. e.type \notin {"AccountChanged", "UpdateTransactions"}
    BY <1>3
  <2> QED
    BY <1>1, <2>1, Tells
<1>5. BalanceAsked'
  BY <1>1 DEF BalanceAsked, Refreshing
<1>6. RowsAsked'
  <2>1. IsList(toUI)
    BY DEF WalletInv, ShapeInv
  <2>2. \A T : e.type \in T => Waits(Append(toUI, e), T)
    BY <2>1, NewestSent
  <2>3. e.type \in Asking
    BY <1>3 DEF Asking
  <2> QED
    BY <1>1, <2>2, <2>3 DEF RowsAsked
<1>7. ASSUME current # 0 PROVE Count' \in Nat /\ Count <= Count'
  <2> DEFINE p == Len(accounts[current].pending)
             c == Len(accounts[current].confirmed)
             d == Len(accounts'[current].confirmed)
             m == Count
             n == Count'
  <2>1. current \in DOMAIN accounts /\ IsList(accounts[current].confirmed) /\ p \in Nat /\ c \in Nat
    BY <1>7, CountIs
  <2>2. accounts'[current].pending = accounts[current].pending
    BY <1>1, <2>1
  <2>3. m = p + c + (IF k = current THEN 1 ELSE 0) /\ n = p + d + 0
    BY <1>1, <2>2 DEF Count, Moving
  <2>4. d = c + (IF k = current THEN 1 ELSE 0)
    <3>1. CASE k = current
      BY <1>1, <2>1, <3>1, ListAppend
    <3>2. CASE k # current
      <4>1. d = c
        BY <1>1, <2>1, <3>2
      <4> HIDE DEF d, c
      <4> QED
        BY <2>1, <3>2, <4>1
    <3> QED
      BY <3>1, <3>2
  <2> HIDE DEF p, c, d, m, n, k
  <2>5. n \in Nat /\ m <= n
    BY <2>1, <2>3, <2>4
  <2> QED
    BY <2>5 DEF m, n
<1>8. handler'.at # "tx_push"
  BY <1>1
<1> QED
  BY <1>1, <1>2, <1>4, <1>5, <1>6, <1>7, <1>8, PeerScreen

\* The block is announced.
LEMMA IncludeScreen == ASSUME ScreenInv, WalletInv, include_new_block PROVE ScreenInv'
<1> DEFINE e == [type |-> "AddBlock", block |-> handler.block]
<1>1. UNCHANGED <<accounts, current, toWallet, ui>> /\ handler.at = "include" /\ handler' = Idle
  BY IncludeIs
<1>2. toUI' = Append(toUI, e) /\ stale' = stale
  BY DEF include_new_block, histVars
<1>3. e.type = "AddBlock"
  OBVIOUS
<1> HIDE DEF e
<1>4. PICK E : Moved(toUI, toUI', 0, E) /\ \A x \in E : x.type \notin {"AccountChanged", "UpdateTransactions"}
  <2>1. e.type \notin {"AccountChanged", "UpdateTransactions"}
    BY <1>3
  <2> QED
    BY <1>2, <2>1, Tells
<1>5. BalanceAsked'
  <2>1. IsList(toUI)
    BY DEF WalletInv, ShapeInv
  <2>2. \A T : e.type \in T => Waits(Append(toUI, e), T)
    BY <2>1, NewestSent
  <2> QED
    BY <1>2, <1>3, <2>2 DEF BalanceAsked
<1>6. handler'.at = "idle"
  BY <1>1, IdleIs
<1>7. Rows' = Rows /\ handler.at # "confirm_push" /\ handler'.at # "confirm_push" /\ handler'.at # "tx_push"
  BY <1>1, <1>6 DEF Rows
<1>8. current # 0 => Count' \in Nat /\ Count <= Count'
  BY <1>1, <1>7, SameCount
<1> QED
  BY <1>1, <1>2, <1>4, <1>5, <1>7, <1>8, PeerScreen

--------------------------------------------------------------------------------
(***************************************************************************)
(* What follows.                                                           *)
(***************************************************************************)
\* Every step keeps the screen right.
LEMMA NextScreen == ASSUME ScreenInv, SafeInv, [Next]_vars PROVE ScreenInv'
<1>1. WalletInv /\ PlaceInv
  BY DEF SafeInv
<1>2. CASE Clicks
  BY <1>1, <1>2, ClicksScreen
<1>3. CASE UIStep
  BY <1>1, <1>3, QuietEvents, AccountChangedScreen, RenderScreen, AsksScreen DEF UIStep
<1>4. CASE WalletStep
  BY <1>1, <1>4, QuietRequests, PushAccountScreen, AccountScreen, GetTransactionsScreen, MakeScreen DEF WalletStep
<1>5. CASE PeerStep
  BY <1>1, <1>5, InvolvesScreen, PushPendingScreen, QuietPeer, UpdateScreen, ContainsScreen, PushConfirmedScreen,
     IncludeScreen DEF PeerStep
<1>6. CASE PeerMessage
  BY <1>1, <1>6, QuietPeer DEF PeerMessage, BlockLists
<1>7. CASE UNCHANGED vars
  <2>1. UNCHANGED <<accounts, current, toWallet, toUI, handler, ui, stale>>
    BY <1>7 DEF vars, walletVars, uiVars, histVars
  <2>2. IsList(toUI) /\ IsList(toWallet)
    BY <1>1 DEF WalletInv, ShapeInv
  <2>3. Moved(toUI, toUI', 0, {}) /\ Moved(toWallet, toWallet', 0, {}) /\ SameScreen
    BY <2>1, <2>2, MovedNot DEF SameScreen
  <2> QED
    BY <1>1, <2>1, <2>3, QuietKeeps
<1> QED
  BY <1>2, <1>3, <1>4, <1>5, <1>6, <1>7 DEF Next

\* At first no account is used.
LEMMA InitScreen == ASSUME Init PROVE ScreenInv
<1>1. /\ current = 0 /\ toWallet = <<>> /\ toUI = <<Event("InitializeUITabs")>> /\ handler = Idle /\ stale = FALSE
      /\ ui.recent = [i \in 1 .. RecentRows |-> NoRow]
  BY DEF Init
<1>2. DOMAIN toUI = {1} /\ toUI[1].type = "InitializeUITabs"
  BY <1>1 DEF Event
<1>3. BalanceInv /\ TableInv
  BY <1>1 DEF BalanceInv, TableInv
<1>4. TellInv
  BY <1>1, IdleIs DEF TellInv
<1>5. CountInv
  BY <1>1, <1>2 DEF CountInv, Waits
<1> QED
  BY <1>3, <1>4, <1>5 DEF ScreenInv

\* When every event has been handled, the interface shows the balance and the
\* transactions of the account the wallet uses, with the exceptions that
\* ShownIsCurrent names.
THEOREM ScreenRight == Spec => []ShownIsCurrent
<1>1. Init => ScreenInv
  BY InitScreen
<1>2. ScreenInv /\ SafeInv /\ [Next]_vars => ScreenInv'
  BY NextScreen
<1>3. ScreenInv /\ SafeInv => ShownIsCurrent
  <2> SUFFICES ASSUME ScreenInv, SafeInv, AtRest, current # 0
               PROVE  /\ ui.balance = CurrentBalance
                      /\ Rows.st = "ok" /\ ~stale =>
                            /\ ui.table = Rows.val
                            /\ ui.recent = [i \in 1 .. RecentRows |->
                                  IF i <= Shown(Rows.val) THEN Rows.val[Len(Rows.val) - Shown(Rows.val) + i] ELSE NoRow]
    BY DEF ShownIsCurrent, CurrentBalance, Rows, Shown
  <2>1. toUI = <<>> /\ toWallet = <<>> /\ handler.at = "idle"
    BY DEF AtRest
  <2>2. \A T : ~Waits(toUI, T) /\ ~Waits(toWallet, T)
    BY <2>1 DEF Waits
  <2>3. ui.balance = CurrentBalance
    BY <2>1, <2>2 DEF ScreenInv, BalanceInv, BalanceAsked, Refreshing
  <2>4. ASSUME Rows.st = "ok", ~stale
        PROVE  /\ ui.table = Rows.val
               /\ ui.recent = [i \in 1 .. RecentRows |->
                     IF i <= Shown(Rows.val) THEN Rows.val[Len(Rows.val) - Shown(Rows.val) + i] ELSE NoRow]
    <3>1. Shows(Rows.val)
      BY <2>1, <2>2, <2>4 DEF ScreenInv, TableInv, RowsAsked
    <3>2. /\ ui.recent = [i \in 1 .. RecentRows |-> ui.recent[i]]
          /\ \A i \in 1 .. RecentRows : ui.recent[i] # NoRow => i <= Count
      BY <2>2 DEF ScreenInv, CountInv
    <3>3. Count = Len(Rows.val) /\ Len(Rows.val) \in Nat
      <4>1. IsList(accounts[current].pending) /\ IsList(accounts[current].confirmed) /\ Count \in Nat
        BY CountIs DEF SafeInv
      <4>2. Len(Rows.val) = Len(accounts[current].pending) + Len(accounts[current].confirmed)
        BY <2>4, <4>1, RowsAre DEF Rows
      <4>3. /\ Len(accounts[current].pending) \in Nat /\ Len(accounts[current].confirmed) \in Nat
        BY <4>1 DEF IsList
      <4>4. Moving = 0
        BY <2>1 DEF Moving
      <4> DEFINE p == Len(accounts[current].pending)
                 c == Len(accounts[current].confirmed)
                 r == Len(Rows.val)
                 m == Moving
      <4>5. p \in Nat /\ c \in Nat /\ m = 0 /\ r = p + c /\ Count = p + c + m
        BY <4>2, <4>3, <4>4 DEF Count
      <4> HIDE DEF p, c, r, m
      <4>6. Count = r /\ r \in Nat
        BY <4>5
      <4> QED
        BY <4>6 DEF r
    <3>4. ASSUME NEW i \in 1 .. RecentRows, ~(i <= Shown(Rows.val)) PROVE ui.recent[i] = NoRow
      <4>1. PICK n \in Nat : n = Len(Rows.val)
        BY <3>3
      <4>2. i \in Int /\ RecentRows \in Int /\ i <= RecentRows
        BY WalletAssumption
      <4>3. ~(i <= n)
        BY <3>4, <4>1, <4>2 DEF Shown
      <4> QED
        BY <3>2, <3>3, <4>1, <4>3
    <3>5. \A i \in 1 .. RecentRows : i <= Shown(Rows.val) => ui.recent[i] = Rows.val[Len(Rows.val) - Shown(Rows.val) + i]
      BY <3>1 DEF Shows
    <3>6. ui.table = Rows.val
      BY <3>1 DEF Shows
    <3> HIDE DEF Rows, Shown
    <3> QED
      BY <3>2, <3>4, <3>5, <3>6
  <2> QED
    BY <2>3, <2>4
<1> QED
  BY <1>1, <1>2, <1>3, WalletSafe, PTL DEF Spec
===============================================================================
