------------------------ MODULE MCMicroTransactions ------------------------
(* Instances of MicroTransactions for TLC: a transaction in another currency *)
(* at each replica that counts, and one in US dollars that does not.         *)
EXTENDS MicroTransactions

CONSTANTS euro, yen, usd

MCHome == [b \in Batch |-> IF b = euro THEN 0 ELSE N - 1]
MCMicro == {euro, yen}
MCDomestic == {usd}
=============================================================================
