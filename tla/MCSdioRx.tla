------------------------------ MODULE MCSdioRx ------------------------------
(***************************************************************************)
(* Instances of SdioRx for TLC.                                            *)
(***************************************************************************)
EXTENDS SdioRx

\* Throttling starts above 60 per cent of the buffers and ends below 40.
MCOneConfig == {<<60, 40>>}

\* The same with two buffers, where one packet waiting is 50 per cent; and a host
\* that sets the low threshold to 0.
MCTwoBufConfigs == {<<40, 40>>, <<40, 0>>}
=============================================================================
