---------------------------- MODULE CodeRegistry ----------------------------
(***************************************************************************)
(* A transaction of a block, as execution/tx_executer.go runs it: it       *)
(* deploys a chaincode or calls a deployed one, which it looks up in the   *)
(* registry (execution/code_registry.go, execution/native_driver.go).  The *)
(* registry is a part of the state, under a key of its own.                *)
(***************************************************************************)
EXTENDS JuriaCoin

\* CodeInfo under the address of the code: none, JuriaCoin, or a code that no
\* driver knows.
NoCode == 0
JuriaCoinCode == 1
UnknownCode == 2

RegistryKeys == Keys \cup {"code"}

\* getDriver and GetInstance of its driver.
GetInstance(code) == code = JuriaCoinCode

Deployments == [method : {"deploy"}, sender : Account, code : {JuriaCoinCode, UnknownCode}]

\* executeInvoke reads the registry first; executeDeployment reads nothing.
TxAsks(c, v) ==
  IF c.method = "deploy" THEN {}
  ELSE IF "code" \notin DOMAIN v THEN {"code"}
  ELSE IF GetInstance(v["code"]) THEN CoinAsks(c, v)
  ELSE {}

\* Both trackers, of the registry and of the code, are merged when Init is done.
executeDeployment(c) ==
  IF GetInstance(c.code)
  THEN Sets([k \in {"code", "minter"} |-> IF k = "code" THEN c.code ELSE InitCoin(c).changes[k]])
  ELSE Failed

executeInvoke(c, v) == IF GetInstance(v["code"]) THEN CoinOutcome(c, v) ELSE Failed

executeChaincode(c, v) == IF c.method = "deploy" THEN executeDeployment(c) ELSE executeInvoke(c, v)

=============================================================================
