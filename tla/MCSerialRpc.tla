---------------------------- MODULE MCSerialRpc ----------------------------
(***************************************************************************)
(* Instances of SerialRpc for TLC.                                         *)
(***************************************************************************)
EXTENDS SerialRpc

\* Requests of one fragment, and a last one of two (that fills r.data).
MCFrags == [m \in 1..NumReq |-> IF m = 3 THEN 2 ELSE 1]

\* Requests of two fragments (that fill r.data), and a last one of one.
MCFullFrags == [m \in 1..NumReq |-> IF m = 3 THEN 1 ELSE 2]

\* The handlers post no event of their own.
MCNoPosts == [m \in 1..NumReq |-> 0]

\* The second request is a start of the Wi-Fi driver in STA and AP mode.
MCPosts == [m \in 1..NumReq |-> IF m = 2 THEN 2 ELSE 0]
=============================================================================
