---------------------------- MODULE MCConnectProxy ----------------------------
(* ConnectProxy for TLC.                                                    *)
EXTENDS ConnectProxy
=============================================================================
