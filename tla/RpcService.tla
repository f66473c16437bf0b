----------------------------- MODULE RpcService -----------------------------
(***************************************************************************)
(* What the control path promises to a host that waits for each answer     *)
(* before it sends the next request: requests are executed whole and in    *)
(* the order they were sent, an answer follows the execution, each restart *)
(* of the host costs at most one request, and only such a restart can make *)
(* one, of the host's former life, be executed again.                      *)
(***************************************************************************)
EXTENDS Integers, Sequences

CONSTANTS NumReq, MaxRestarts  \* bounds

VARIABLES
  sent,      \* requests 1..sent have been sent
  closed,    \* requests 1..closed were sent before the host's last restart
  executed,  \* the requests executed, in order
  answered,  \* the requests answered
  slack      \* requests that may still get lost

absVars == <<sent, closed, executed, answered, slack>>

LastOf(s) == IF s = <<>> THEN 0 ELSE s[Len(s)]

AbsInit == sent = 0 /\ closed = 0 /\ executed = <<>> /\ answered = {} /\ slack = 0

Send ==
  /\ sent < NumReq
  /\ sent' = sent + 1
  /\ UNCHANGED <<closed, executed, answered, slack>>

\* The restart of a host may cost the request it was about to send.
Restart ==
  /\ slack < MaxRestarts
  /\ slack' = slack + 1
  /\ closed' = sent
  /\ UNCHANGED <<sent, executed, answered>>

Execute ==
  \E m \in (LastOf(executed) + 1)..sent :
    /\ executed' = Append(executed, m)
    /\ slack' = slack - (m - LastOf(executed) - 1)
    /\ slack' >= 0
    /\ UNCHANGED <<sent, closed, answered>>

\* The last request of the host's former life instead of the first of the new.
Repeat ==
  /\ executed # <<>>
  /\ LastOf(executed) <= closed
  /\ slack > 0
  /\ executed' = Append(executed, LastOf(executed))
  /\ UNCHANGED <<sent, closed, answered, slack>>

Answer ==
  /\ executed # <<>>
  /\ answered' = answered \union {LastOf(executed)}
  /\ UNCHANGED <<sent, closed, executed, slack>>

AbsNext == Send \/ Restart \/ Execute \/ Repeat \/ Answer

AbsSpec == AbsInit /\ [][AbsNext]_absVars
=============================================================================
