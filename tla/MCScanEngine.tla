----------------------------- MODULE MCScanEngine -----------------------------
(* Two chains that can be set up, one of them with an attributed account      *)
(* besides the root, one chain with no RPC URL and one disabled; a protocol   *)
(* with presence probes on both chains, a deployment outside its              *)
(* availability window, and the wallet.                                       *)
EXTENDS ScanEngine

CONSTANTS eth, bsc, bare, off, pendle, aave, walletID

On(protocol, chain) == [protocol |-> protocol, chain |-> chain]

MCAdapters == <<On(pendle, eth), On(pendle, bsc), On(aave, eth)>>
WalletOnOne == {On(walletID, eth)}
LateDeployment == {On(aave, eth)}
TwoOnEth == [c \in Asked |-> IF c = eth THEN 2 ELSE 1]
=============================================================================
