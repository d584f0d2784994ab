----------------------------- MODULE MCTcpProxy -----------------------------
(* TcpProxy for TLC: one connection.  Connections share only the metrics.  *)
EXTENDS TcpProxy
=============================================================================
