----------------------------- MODULE MCForwarder -----------------------------
(* Forwarder with chains as the documentation configures them, and a few    *)
(* that drop every connection.                                              *)
EXTENDS Forwarder

CONSTANTS b1, b2, b3, lobby

MCChains ==
  { <<"logsni", "ratelimit-global", "sni-router", "forwarder">>,
    <<"sni-router", "simple-router", "terminator", "example", "forwarder">>,
    <<"terminator", "forwarder">>,
    <<"forwarder">>,
    <<"simple-router">> }
MCRoutes == [n \in {lobby} |-> <<b1, b2>>]
MCBackends == <<b3>>
MCNames == {lobby, NoSNI}
=============================================================================
