---------------------------- MODULE Connections ----------------------------
(* The connections of the web interface, each with a request at a time.    *)
CONSTANT Conns
=============================================================================
