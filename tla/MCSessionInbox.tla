--------------------------- MODULE MCSessionInbox ---------------------------
EXTENDS SessionInbox

CONSTANTS r1, r2    \* the two retry keys

\* Retry keys are interchangeable: of two behaviours that differ only in their names
\* one is explored.
RetryKeysInOrder == \A r \in retries' : r.key = r2 => \E s \in retries' : s.key = r1
=============================================================================
