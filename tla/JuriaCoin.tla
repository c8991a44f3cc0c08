------------------------------ MODULE JuriaCoin ------------------------------
(***************************************************************************)
(* The native chaincode of chaincodes/juriacoin/juria_coin.go: what its    *)
(* three methods read, in which order, and what they set.  A missing value *)
(* reads as 0; int64 arithmetic wraps, here at Modulus.                    *)
(*                                                                         *)
(* A destination is any bytes, also the key of the minter or of the total. *)
(* A number below Modulus stands for a value of eight bytes; another one   *)
(* for the bytes of an address, of which the first eight are the rest      *)
(* modulo Modulus, or which are fewer than eight if it is negative.        *)
(***************************************************************************)
EXTENDS Integers

CONSTANTS
  Account,      \* the addresses but the two that are keys of the code, as strings
  Id(_),        \* the number that stands for the bytes of an address
  Modulus

Keys == Account \cup {"minter", "total"}
Values == 0 .. (Modulus - 1)
Stored == Values \cup {Id(k) : k \in Keys}

\* A call: the method, ctx.Sender(), input.Dest and input.Value.
Calls == [method : {"setMinter", "mint", "transfer"}, sender : Account,
          dest : Keys, value : Values]

\* The balance that decodeBalance returns for a stored value, ...
decodeBalance(x) == LET u == x % Modulus IN IF u >= Modulus \div 2 THEN u - Modulus ELSE u

\* ... unless Uint64 panics, which executeChaincode turns into an error.
Decodes(x) == x >= 0

encodeBalance(x) == x % Modulus

\* The key among the given ones, in order, that was not read yet.
FirstUnread(first, second, v) == IF first \notin DOMAIN v THEN {first} ELSE {second} \ DOMAIN v

IsMinter(c, v) == v["minter"] = Id(c.sender)
Covered(c, v) == decodeBalance(v[c.sender]) >= decodeBalance(c.value)

\* The key call c reads next when it has read v; none when it ends.  A key that the code
\* reads again is not asked for again: if it has changed, the call is executed again.
CoinAsks(c, v) ==
  CASE c.method = "setMinter" -> {"minter"} \ DOMAIN v
    [] c.method = "mint" ->
         IF "minter" \notin DOMAIN v THEN {"minter"}
         ELSE IF IsMinter(c, v) THEN FirstUnread("total", c.dest, v) ELSE {}
    [] c.method = "transfer" ->
         IF c.sender \in DOMAIN v /\ ~Covered(c, v) THEN {} ELSE FirstUnread(c.sender, c.dest, v)

Failed == [error |-> TRUE, changes |-> [k \in {} |-> 0]]
Sets(changes) == [error |-> FALSE, changes |-> changes]

\* JuriaCoin.Init.
InitCoin(c) == Sets([k \in {"minter"} |-> Id(c.sender)])

invokeSetMinter(c, v) ==
  IF IsMinter(c, v) THEN Sets([k \in {"minter"} |-> Id(c.dest)]) ELSE Failed

\* Mutant: the total is not raised.
invokeMintNoTotal(c, v) ==
  IF IsMinter(c, v) /\ Decodes(v[c.dest])
  THEN Sets([k \in {c.dest} |-> encodeBalance(v[k] + c.value)])
  ELSE Failed

invokeMint(c, v) ==
  IF IsMinter(c, v) /\ Decodes(v[c.dest])
  THEN Sets([k \in {"total", c.dest} |-> encodeBalance(v[k] + c.value)])
  ELSE Failed

\* Both balances were read before either is set, and dest is set last.
invokeTransfer(c, v) ==
  IF Covered(c, v) /\ Decodes(v[c.dest])
  THEN Sets([k \in {c.sender, c.dest} |->
               IF k = c.dest THEN encodeBalance(v[k] + c.value) ELSE encodeBalance(v[k] - c.value)])
  ELSE Failed

CoinOutcome(c, v) ==
  CASE c.method = "setMinter" -> invokeSetMinter(c, v)
    [] c.method = "mint" -> invokeMint(c, v)
    [] c.method = "transfer" -> invokeTransfer(c, v)

=============================================================================
