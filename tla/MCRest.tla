------------------------------- MODULE MCRest -------------------------------
(* Instances of RestRequest for TLC: a main thread and a worker, two route *)
(* keys, and as many request objects as the cfg names.                     *)
EXTENDS RestRequest

CONSTANTS r1, r2, k1, k2, main, worker

MCOneRequest == {r1}
MCTwoRequests == {r1, r2}
MCOneKey == {k1}
MCKeys == {k1, k2}
MCOneCaller == {main}
MCCallers == {main, worker}
MCAsync == {FALSE}
MCBoth == {FALSE, TRUE}
MCServerErrors == {"answered", "server_error"}
MCThrottles == {"answered", "throttled"}

\* Request objects and keys are interchangeable.
MCSymmetry == Permutations(Requests) \cup Permutations(Keys)
=============================================================================
