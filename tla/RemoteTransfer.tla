--------------------------- MODULE RemoteTransfer ---------------------------
(***************************************************************************)
(* The interchain account of a lease and the ICS-20 transfers it sends     *)
(* back to the lease (packages/platform: ica.rs, bank_ibc/remote.rs).      *)
(*                                                                         *)
(* The lease opens its account on the remote host (register_account); the *)
(* host's open acknowledgement carries the account's address, which       *)
(* parse_register_response turns into a HostAccount, refusing an empty     *)
(* one. A transfer-in then builds one MsgTransfer per coin of the task,    *)
(* from the host account to the lease over the dex's ICS-20 channel        *)
(* (Sender::send, into_ibc_msgs), and submits them as one transaction of   *)
(* the account (submit_transaction). A coin whose currency has no          *)
(* denomination on the dex fails its conversion, and the whole handler    *)
(* with it. The callers (the lease's opening and TransferInInit) are not  *)
(* under src/ and follow the spec.                                         *)
(***************************************************************************)
EXTENDS Integers, Sequences

CONSTANTS
    Coins,      \* the coins a task may hold
    OnDex,      \* the coins whose currency has a denomination on the dex
    Addrs,      \* non-empty addresses a host may open the account at
    Lease,      \* the lease's own address
    MaxCoins,   \* the most coins of a task
    MaxTrx      \* bound on the transactions submitted

ASSUME /\ OnDex \subseteq Coins /\ Lease \notin Addrs
       /\ MaxCoins \in Nat \ {0} /\ MaxTrx \in Nat

NoAddr == ""            \* an open ack with an empty address
Malformed == "Malformed" \* an open ack that does not deserialize
NoAccount == "None"
Pending == "Pending"

VARIABLES
    account,    \* the lease's host account: None, Pending or its address
    task,       \* the coins of the transfer-in, in order
    submitted,  \* the transactions submitted through the account
    outcome     \* what the last handler returned: None, Ok, Err

vars == <<account, task, submitted, outcome>>

Tasks == UNION {[1..k -> Coins] : k \in 1..MaxCoins}

-----------------------------------------------------------------------------
\* Mutant: the host address taken as it comes, empty or not.
HostAccountUnchecked(addr) == [ok |-> TRUE, account |-> addr]

\* TryFrom<String> for HostAccount: an empty address is refused.
HostAccount(addr) ==
    IF addr = NoAddr THEN [ok |-> FALSE, account |-> NoAddr]
    ELSE [ok |-> TRUE, account |-> addr]

(* parse_register_response: the open ack is deserialized as OpenAckVersion *)
(* and its address converted to a HostAccount.                             *)
ParseRegisterResponse(resp) ==
    IF resp = Malformed THEN [ok |-> FALSE, account |-> NoAddr]
    ELSE HostAccount(resp)

(* new_msg: a MsgTransfer on the dex's ICS-20 port and channel, of one     *)
(* coin, from the host account to the receiver, with the Sender's timeout *)
(* (port, channel and timeout are the same for every message).            *)
NewMsg(sender, receiver, coin) ==
    [sender |-> sender, receiver |-> receiver, token |-> coin]

(* Sender::send of every coin of the task, then into_ibc_msgs and the     *)
(* Transaction: one message per coin, in order. A coin that has no dex    *)
(* denomination (to_cosmwasm_on_network) fails the sends.                  *)
TransferMsgs(host, coins) ==
    IF \A i \in 1..Len(coins) : coins[i] \in OnDex
    THEN [ok |-> TRUE,
          msgs |-> [i \in 1..Len(coins) |-> NewMsg(host, Lease, coins[i])]]
    ELSE [ok |-> FALSE, msgs |-> <<>>]

-----------------------------------------------------------------------------
\* A lease that has not opened its account, with a task of 1..MaxCoins coins.
Init ==
    /\ account = NoAccount
    /\ task \in Tasks
    /\ submitted = <<>>
    /\ outcome = "None"

\* register_account: the registration message is sent to the host.
Register ==
    /\ account = NoAccount
    /\ account' = Pending
    /\ outcome' = "Ok"
    /\ UNCHANGED <<task, submitted>>

(* The host's open ack reaches the lease: the account's address is saved, *)
(* or the handler fails and the lease keeps waiting.                      *)
OpenAck(resp) ==
    /\ account = Pending
    /\ LET r == ParseRegisterResponse(resp) IN
       \/ r.ok /\ account' = r.account /\ outcome' = "Ok"
       \/ ~r.ok /\ outcome' = "Err" /\ UNCHANGED account
    /\ UNCHANGED <<task, submitted>>

(* The transfer-in: the task's coins are sent back to the lease in one    *)
(* transaction of the account (submit_transaction), or the handler fails. *)
TransferIn ==
    /\ account \notin {NoAccount, Pending}
    /\ Len(submitted) < MaxTrx
    /\ LET t == TransferMsgs(account, task) IN
       \/ /\ t.ok
          /\ submitted' = Append(submitted, [account |-> account, msgs |-> t.msgs])
          /\ outcome' = "Ok"
       \/ /\ ~t.ok
          /\ outcome' = "Err"
          /\ UNCHANGED submitted
    /\ UNCHANGED <<account, task>>

\* No more transactions within the bound.
Done ==
    /\ Len(submitted) = MaxTrx
    /\ UNCHANGED vars

Next ==
    \/ Register
    \/ \E resp \in Addrs \cup {NoAddr, Malformed} : OpenAck(resp)
    \/ TransferIn
    \/ Done

Spec == Init /\ [][Next]_vars

-----------------------------------------------------------------------------
TypeOK ==
    /\ account \in {NoAccount, Pending} \cup Addrs
    /\ task \in Tasks
    /\ Len(submitted) <= MaxTrx
    /\ outcome \in {"None", "Ok", "Err"}

(* Every transaction is submitted through an account the host opened at a *)
(* real address: never before the open ack, and never with the empty      *)
(* address of a bad acknowledgement.                                       *)
SubmittedFromHostAccount ==
    \A i \in 1..Len(submitted) : submitted[i].account \in Addrs

=============================================================================
