------------------------------ MODULE CoinBlock ------------------------------
(***************************************************************************)
(* The executor of module BlkExecutor on a block whose transactions deploy *)
(* JuriaCoin and call it: any block of them, of any number of accounts.    *)
(***************************************************************************)
EXTENDS BlkExecutor, CodeRegistry, Functions

CONSTANT Block  \* the transactions

ASSUME CoinAssumption ==
  /\ IsFiniteSet(Account) /\ Account \cap {"minter", "total", "code"} = {}  \* names of keys
  /\ Modulus \in Nat /\ Modulus > 2  \* 2^64
  /\ \A k \in Keys : Id(k) \in Int

ASSUME BlockAssumption ==
  /\ Key = RegistryKeys /\ Value = Stored
  /\ Block \in [Tx -> Calls \cup Deployments]
  /\ \A t \in Tx, s \in State :
       /\ Outcome(t, s) = executeChaincode(Block[t], s)
       /\ \A K \in SUBSET Key :
            LET v == ReadOf(s, K)
            IN /\ Asks(t, v) = TxAsks(Block[t], v)
               /\ Asks(t, v) = {} => Outcome(t, v) = executeChaincode(Block[t], v)

\* By how much more than the total a call raises the balances.  A transfer of an account
\* to itself reads the balance once and creates what it sends; what is sent to or minted
\* for "minter" or "total" is on no account, and the total counts it as its own.
Drift(c) ==
  CASE c.method = "transfer" /\ c.dest = c.sender -> c.value
    [] c.method = "transfer" /\ c.dest = "minter" -> 0 - c.value
    [] c.method = "transfer" /\ c.dest = "total" -> 0 - 2 * c.value
    [] c.method = "mint" /\ c.dest \in {"minter", "total"} -> 0 - c.value
    [] OTHER -> 0

Merged == 1 .. mergeIdx \ errors

\* invokeMint adds a value to the total and to a balance, and invokeTransfer takes
\* what it adds: after every merge the balances have grown, modulo the width, by as
\* much as the total, but for what calls with a destination of their own account, or of
\* the keys of the code, create or lose.  Nothing checks the destination.
SupplyIsTotal ==
  LET Balances(s) == SumFunctionOnSet(s, Account)
      Drifted == SumFunction([t \in Merged |-> Drift(Block[t])])
  IN (Balances(current) + base["total"]) % Modulus
       = (Balances(base) + current["total"] + Drifted) % Modulus

=============================================================================
