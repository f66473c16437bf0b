--------------------------- MODULE MCWifiControl ---------------------------
(***************************************************************************)
(* Instances of WifiControl for TLC.                                       *)
(***************************************************************************)
EXTENDS WifiControl

\* One network on two channels, and on any with other thresholds: the last
\* counts as the same as either of the first two, which differ.
MCStaCfgs == {[net |-> "home", channel |-> 1, rest |-> "open"],
              [net |-> "home", channel |-> 6, rest |-> "open"],
              [net |-> "home", channel |-> 0, rest |-> "wpa3"]}

\* One station configuration.
MCOneStaCfg == {[net |-> "home", channel |-> 1, rest |-> "open"]}
=============================================================================
