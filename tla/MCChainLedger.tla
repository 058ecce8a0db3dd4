---------------------------- MODULE MCChainLedger ----------------------------
(* A small instance of ChainLedger and RewardPages: two accounts, an       *)
(* emission that reaches its rounded-down end, and transactions that       *)
(* compete for a nonce, pay their own sender, pay two outputs, or carry no *)
(* valid signature.                                                        *)
EXTENDS RewardPages

CONSTANTS a, b

MCAddr == {a, b}

Pay(toA, toB) == [x \in MCAddr |-> IF x = a THEN toA ELSE toB]

Tx(from, outs, fee, nonce, signed) ==
  [from |-> from, outs |-> outs, fee |-> fee, nonce |-> nonce, size |-> 1,
   signed |-> signed]

MCTxs == { Tx(a, Pay(0, 2), 1, 1, TRUE),
           Tx(a, Pay(1, 1), 2, 1, TRUE),
           Tx(a, Pay(3, 0), 0, 2, TRUE),
           Tx(b, Pay(1, 0), 1, 1, TRUE),
           Tx(b, Pay(1, 0), 1, 1, FALSE) }

=============================================================================
