-------------------------- MODULE MCChainSwitcher --------------------------
EXTENDS ChainSwitcher
MCChainNameMap == [BTC |-> "btc", BCH |-> "bcc"]
MCLatency == [updateChain |-> 1, failSafe |-> 1, readResponse |-> 0]
MCAnswers == {<<"LTC", "BCH", "BTC">>}
=============================================================================
