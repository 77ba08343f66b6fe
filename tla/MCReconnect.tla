---------------------------- MODULE MCReconnect ----------------------------
(* Two threads that share a wrapper: see Reconnect.cfg.                        *)
EXTENDS ReconnectProperties
============================================================================
