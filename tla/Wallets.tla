------------------------------ MODULE Wallets ------------------------------
(***************************************************************************)
(* crypto_payments/wallets: the wallet service behind /v1/crypto/wallets,  *)
(* all of it in the memory of one process.  A handler is a coroutine that  *)
(* is suspended while it waits for a provider or for monero-wallet-rpc     *)
(* (both external).  The RPC numbers the subaddresses it creates; the      *)
(* adapter keeps a counter of its own, read before the call and written    *)
(* after it.                                                               *)
(***************************************************************************)
EXTENDS Naturals, FiniteSets

CONSTANTS WalletIds, Callers,
          NoWallet,
          MaxDeposits      \* bound: deposit addresses generated

ASSUME WalletsAssumption == NoWallet \notin WalletIds /\ MaxDeposits \in Nat

WTypes == {"monero", "provider", "self_hosted"}
NotMade == [type |-> "none", adapter |-> FALSE, address |-> 0]
Rest == [at |-> "idle", wallet |-> NoWallet, index |-> 0]

VARIABLES wallets,    \* _wallets with _monero_adapters and _provider_adapters
          caller,     \* handler -> [at, wallet, index]
          deposits,   \* _addresses: set of [n, wallet, type, index, given]
          counted,    \* _subaddress_counter of each wallet
          rpcNext,    \* monero-wallet-rpc: subaddresses created so far
          checkedOk   \* wallets whose health check has passed

wvars == <<wallets, caller, deposits, counted, rpcNext, checkedOk>>

WalletsTypeOK ==
    /\ wallets \in [WalletIds -> [type : WTypes \cup {"none"}, adapter : BOOLEAN, address : 0..1]]
    /\ caller \in [Callers -> [at : {"idle", "health", "rpc"}, wallet : WalletIds \cup {NoWallet},
                               index : 0..MaxDeposits]]
    /\ \A d \in deposits : d.wallet \in WalletIds /\ d.n \in 1..MaxDeposits
    /\ counted \in [WalletIds -> 0..MaxDeposits]
    /\ rpcNext \in [WalletIds -> 0..(2 * MaxDeposits)]
    /\ checkedOk \subseteq WalletIds

WalletsInit ==
    /\ wallets = [w \in WalletIds |-> NotMade]
    /\ caller = [c \in Callers |-> Rest]
    /\ deposits = {}
    /\ counted = [w \in WalletIds |-> 0]
    /\ rpcNext = [w \in WalletIds |-> 0]
    /\ checkedOk = {}

\* create_wallet: HOT mode and Monero without its config are refused.  The
\* wallet is stored BEFORE the health check; a self-hosted one has none.
CreateWallet(c, w) ==
    /\ caller[c].at = "idle" /\ wallets[w] = NotMade
    /\ \E t \in WTypes :
          /\ wallets' = [wallets EXCEPT ![w].type = t]
          /\ caller' = IF t = "self_hosted" THEN caller
                       ELSE [caller EXCEPT ![c] = [at |-> "health", wallet |-> w, index |-> 0]]
    /\ UNCHANGED <<deposits, counted, rpcNext, checkedOk>>

\* The health check answers; a failure (or an unknown provider) is an error
\* to the caller, and the wallet stays without an adapter.
HealthCheck(c) ==
    LET w == caller[c].wallet IN
    /\ caller[c].at = "health"
    /\ caller' = [caller EXCEPT ![c] = Rest]
    /\ \/ /\ wallets' = [wallets EXCEPT ![w].adapter = TRUE]
          /\ checkedOk' = checkedOk \cup {w}
       \/ UNCHANGED <<wallets, checkedOk>>
    /\ UNCHANGED <<deposits, counted, rpcNext>>

Deposit(w, index, given) ==
    deposits' = deposits \cup {[n |-> Cardinality(deposits) + 1, wallet |-> w,
                                type |-> wallets[w].type, index |-> index, given |-> given]}

\* generate_address of a wallet that needs no call: a provider's address is
\* put together from names, a self-hosted wallet's is its public address.
\* Without its adapter a provider's wallet answers 502.
HasAdapter(w) == wallets[w].adapter
GenerateAtOnce(c, w) ==
    /\ caller[c].at = "idle"
    /\ Cardinality(deposits) < MaxDeposits
    /\ \/ wallets[w].type = "provider" /\ HasAdapter(w)
       \/ wallets[w].type = "self_hosted"
    /\ Deposit(w, 0, FALSE)
    /\ UNCHANGED <<wallets, caller, counted, rpcNext, checkedOk>>

\* generate_monero_subaddress and generate_address of a Monero wallet: the
\* counter is read, then the RPC is called.
AskRpc(c, w) ==
    /\ caller[c].at = "idle"
    /\ wallets[w].type = "monero" /\ HasAdapter(w)
    /\ caller' = [caller EXCEPT ![c] = [at |-> "rpc", wallet |-> w, index |-> counted[w]]]
    /\ UNCHANGED <<wallets, deposits, counted, rpcNext, checkedOk>>

\* The index of the new address: the RPC's, and the one read from the counter
\* only when the answer has none.
IndexOf(read, rpc, given) == IF given THEN rpc ELSE read

\* The answer: with a result, without one (a JSON-RPC error: the deposit is
\* stored with no address), or an HTTP error, which nobody handles.
RpcAnswers(c) ==
    LET w == caller[c].wallet IN
    /\ caller[c].at = "rpc"
    /\ caller' = [caller EXCEPT ![c] = Rest]
    /\ \/ \E given \in BOOLEAN :
             /\ Cardinality(deposits) < MaxDeposits
             /\ rpcNext' = [rpcNext EXCEPT ![w] = IF given THEN @ + 1 ELSE @]
             /\ counted' = [counted EXCEPT ![w] = caller[c].index + 1]
             /\ Deposit(w, IndexOf(caller[c].index, rpcNext[w], given), given)
       \/ UNCHANGED <<deposits, counted, rpcNext>>
    /\ UNCHANGED <<wallets, checkedOk>>

\* rotate_wallet has no await: the status passes through ROTATING unseen.
RotateWallet(w) ==
    /\ wallets[w] # NotMade
    /\ wallets' = [wallets EXCEPT ![w].address = 1]
    /\ UNCHANGED <<caller, deposits, counted, rpcNext, checkedOk>>

WalletsNext ==
    \/ \E c \in Callers : HealthCheck(c) \/ RpcAnswers(c)
    \/ \E c \in Callers, w \in WalletIds :
          CreateWallet(c, w) \/ GenerateAtOnce(c, w) \/ AskRpc(c, w)
    \/ \E w \in WalletIds : RotateWallet(w)

\* No two deposits of a wallet share a subaddress the RPC gave out, however
\* the calls overlap: the adapter's counter alone would repeat itself.
SubaddressesDiffer ==
    \A d, e \in deposits :
       d # e /\ d.wallet = e.wallet /\ d.given /\ e.given => d.index # e.index

\* An address comes only from a wallet whose health check has passed, though
\* the wallet is visible before it.
AddressesAreBacked == \A d \in deposits : d.type # "self_hosted" => d.wallet \in checkedOk

\* The counter runs behind the answers when calls overlap, never ahead.
CounterIsBehind ==
    \A w \in WalletIds : counted[w] <= Cardinality({d \in deposits : d.wallet = w})

(* Deposit addresses of the wallet service (wallets/service.py,            *)
(* monero_adapter.py:36-60).                                               *)
WalletsInv == SubaddressesDiffer /\ AddressesAreBacked /\ CounterIsBehind

=============================================================================
