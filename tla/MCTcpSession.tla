---------------------------- MODULE MCTcpSession ----------------------------
EXTENDS TcpSession

Session_kind == <<"LivePlay", "Publish", "LivePlay">>
Session_prog == <<"a", "b", "a">>
=============================================================================
