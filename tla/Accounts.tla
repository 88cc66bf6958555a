------------------------------ MODULE Accounts ------------------------------
(***************************************************************************)
(* The coins of an account and the transactions made from them:            *)
(* utxo_tuple.rs, account.rs and the second half of transaction.rs.        *)
(*                                                                         *)
(* The hash of a transaction is the transaction itself, so different ones  *)
(* have different hashes.  Amounts are far below 2^63.                     *)
(*   TxOut     [value, script]                                             *)
(*   TxIn      [hash, index, script], the output it spends and its script  *)
(*   UtxoTuple [hash, utxo_set], utxo_set a sequence of [out, index]       *)
(***************************************************************************)
EXTENDS Scripts, FiniteSets

SumOf(s) ==
    LET sum[n \in 0 .. Len(s)] == IF n = 0 THEN 0 ELSE sum[n - 1] + s[n]
    IN sum[Len(s)]

\* The elements of a list that are in S.
Keep(s, S) == FlattenSeq([i \in DOMAIN s |-> IF s[i] \in S THEN <<s[i]>> ELSE <<>>])

get_address(out) == Pubkey_generate_address(out.script)

(***************************************************************************)
(* UtxoTuple.                                                              *)
(***************************************************************************)
balance(tuple) == SumOf([i \in DOMAIN tuple.utxo_set |-> tuple.utxo_set[i].out.value])
PrefixOf(tuple, n) == [tuple EXCEPT !.utxo_set = SubSeq(@, 1, n)]

referenced_utxos(tuple, address) ==
    [tuple EXCEPT !.utxo_set = Keep(@, {u \in Range(@) : get_address(u.out) = Ok(address)})]

\* Outputs up to the first one that makes the sum exceed the value.
utxos_to_spend(tuple, value, partial) ==
    LET Exceeds(n) == partial + balance(PrefixOf(tuple, n)) > value
        all == Len(tuple.utxo_set)
        n == CHOOSE n \in 1 .. all : /\ Exceeds(n) \/ n = all
                                     /\ \A k \in 1 .. (n - 1) : ~Exceeds(k)
    IN PrefixOf(tuple, n)

\* remove_utxo for each of the indices.
remove_utxo(tuple, indices) == [tuple EXCEPT !.utxo_set = Keep(@, {u \in Range(@) : u.index \notin indices})]

\* The script of an output, none if it is not among those of the tuple.
find(tuple, hash, index) ==
    IF tuple.hash = hash THEN {u.out.script : u \in {v \in Range(tuple.utxo_set) : v.index = index}}
    ELSE {}

(***************************************************************************)
(* The set of unspent outputs.                                             *)
(***************************************************************************)
IndicesSpent(tx, hash) == {in.index : in \in {i \in Range(tx.ins) : i.hash = hash}}

\* Mutant: outputs counted from 0 instead of 1.
remove_next_utxos(utxo_set, tx) ==
    {remove_utxo(tuple, {n + 1 : n \in IndicesSpent(tx, tuple.hash)}) : tuple \in utxo_set}

remove_utxos(utxo_set, tx) == {remove_utxo(tuple, IndicesSpent(tx, tuple.hash)) : tuple \in utxo_set}

load_utxos(utxo_set, tx) ==
    LET tuple == [hash |-> tx, utxo_set |-> [i \in DOMAIN tx.outs |-> [out |-> tx.outs[i], index |-> i]]]
    IN {t \in utxo_set : t.hash # tx} \cup {tuple}

utxos_referenced_to_account(utxo_set, address) ==
    {t \in {referenced_utxos(u, address) : u \in utxo_set} : t.utxo_set # <<>>}

(***************************************************************************)
(* Account.  coins are its tuples in the order of the HashMap they come    *)
(* from.                                                                   *)
(***************************************************************************)
BalanceOf(coins) == SumOf([i \in DOMAIN coins |-> balance(coins[i])])

has_balance(coins, value) == BalanceOf(coins) > value

\* Whole tuples as long as they sum up to less than the value, then outputs
\* of the next one.
get_utxos_for_amount(coins, value) ==
    LET Reached(k) == BalanceOf(SubSeq(coins, 1, k)) >= value
        ks == {k \in DOMAIN coins : Reached(k) /\ \A j \in 1 .. (k - 1) : ~Reached(j)}
    IN IF ks = {} THEN coins
       ELSE LET k == CHOOSE k \in ks : TRUE
                whole == SubSeq(coins, 1, k - 1)
            IN Append(whole, utxos_to_spend(coins[k], value, BalanceOf(whole)))

\* The outputs of a list of tuples, one after the other.
OutputsOf(tuple) == [i \in DOMAIN tuple.utxo_set |->
                        [hash |-> tuple.hash, index |-> tuple.utxo_set[i].index, out |-> tuple.utxo_set[i].out]]
Outputs(coins) == FlattenSeq([k \in DOMAIN coins |-> OutputsOf(coins[k])])

incomplete_txin(output) == [hash |-> output.hash, index |-> output.index, script |-> <<>>]

generate_unsigned_transaction(address_receiver, change_address, value, fee, spend) ==
    LET to == generate_pubkey_script(address_receiver)
        change == generate_pubkey_script(change_address)
    IN IF to.st # "ok" \/ change.st # "ok" THEN Error
       ELSE Ok([ins |-> [i \in DOMAIN Outputs(spend) |-> incomplete_txin(Outputs(spend)[i])],
                outs |-> <<[value |-> value, script |-> to.val],
                           [value |-> BalanceOf(spend) - (value + fee), script |-> change.val]>>])

\* What the signature of input i covers: the transaction with the script of
\* the output it spends in that input.
generate_message_to_sign(tx, i, spend) ==
    LET scripts == UNION {find(spend[k], tx.ins[i].hash, tx.ins[i].index) : k \in DOMAIN spend}
    IN [tx EXCEPT !.ins[i].script = CHOOSE s \in scripts : TRUE]

\* Mutant: an input is signed when those before it have their signature.
sign_in_place(tx, private_key, spend) ==
    FoldFunction(LAMBDA i, t : [t EXCEPT !.ins[i].script =
                                    generate_sig_script(generate_message_to_sign(t, i, spend), private_key)],
                 tx, [i \in DOMAIN tx.ins |-> i])

\* All the messages are those of the transaction without any signature.
sign(tx, private_key, spend) ==
    [tx EXCEPT !.ins = [i \in DOMAIN @ |->
        [@[i] EXCEPT !.script = generate_sig_script(generate_message_to_sign(tx, i, spend), private_key)]]]

validate(tx, spend) ==
    \A i \in DOMAIN tx.ins : p2pkh_validate(Outputs(spend)[i].out.script, tx.ins[i].script) = Ok(TRUE)

Account_make_transaction(account, coins, address_receiver, amount, fee) ==
    LET spend == get_utxos_for_amount(coins, amount + fee)
        unsigned == generate_unsigned_transaction(address_receiver, account.address, amount, fee, spend)
        signed == sign(unsigned.val, decode_wif_private_key(account.private_key).val, spend)
    IN IF \/ ~validate_address(address_receiver)
          \/ ~has_balance(coins, amount + fee)
          \/ unsigned.st # "ok"
          \/ ~validate(signed, spend)
       THEN Error ELSE Ok(signed)

\* What the outputs that do not pay the account sum up to; an error if one
\* of them has no address.
amount_spent_by_account(tx, address) ==
    IF \E i \in DOMAIN tx.outs : get_address(tx.outs[i]).st # "ok" THEN Error
    ELSE Ok(SumOf([i \in DOMAIN tx.outs |->
                      IF get_address(tx.outs[i]) = Ok(address) THEN 0 ELSE tx.outs[i].value]))

\* The rows of the history: the pending transactions, then the confirmed.
get_transactions(account) ==
    LET Row(state, tx) == [state |-> state, tx |-> tx, amount |-> amount_spent_by_account(tx, account.address)]
        rows == [i \in DOMAIN account.pending |-> Row("Pending", account.pending[i])]
                \o [i \in DOMAIN account.confirmed |-> Row("Confirmed", account.confirmed[i])]
    IN IF \E i \in DOMAIN rows : rows[i].amount.st # "ok" THEN Error ELSE Ok(rows)

\* Account::new.
new_account(wif_private_key, address) ==
    LET key == decode_wif_private_key(wif_private_key)
    IN IF key.st # "ok" \/ ~validate_address_private_key(key.val, address) THEN Error
       ELSE Ok([address |-> address, private_key |-> wif_private_key, utxo_set |-> {},
                pending |-> <<>>, confirmed |-> <<>>])
=============================================================================
