---------------------------- MODULE DeletionRetry ----------------------------
(***************************************************************************)
(* The backoff of the deletion executor (service/sandbox_deletion.go) on   *)
(* machine integers.  SandboxDeletion keeps of a row's retry time whether  *)
(* it is due; here it is a number, computed by a shift and a product that  *)
(* wrap around, for one sandbox whose deletion does not get on.            *)
(***************************************************************************)
EXTENDS Integers

CONSTANTS IntWidth,      \* bits of int and of time.Duration
          RetryInterval, \* defaultDeletionRetryInterval
          MaxRetry,      \* maxDeletionRetryInterval
          MaxAttempts    \* bound on the attempts explored

\* The powers of two, as a function that can be reasoned about.
Pow2[n \in Nat] == IF n = 0 THEN 1 ELSE 2 * Pow2[n - 1]

ASSUME RetryAssumption ==
    /\ {IntWidth, RetryInterval, MaxRetry, MaxAttempts} \subseteq Nat /\ IntWidth > 0
    /\ 0 < RetryInterval /\ RetryInterval < MaxRetry /\ MaxRetry < Pow2[IntWidth - 1]

VARIABLES
    attempts,  \* deletion_attempts
    retryIn,   \* deletion_next_retry_at, from now; below 0 it has passed
    inPass     \* processSandbox is at work on the row

retryVars == <<attempts, retryIn, inPass>>

RetryInit == attempts = 0 /\ retryIn = 0 /\ inPass = FALSE

\* Two's complement.
Wrap(n) == ((n + Pow2[IntWidth - 1]) % Pow2[IntWidth]) - Pow2[IntWidth - 1]

\* 1 << n; Go shifts every bit out when n is the width or more.
Shift(n) == IF n >= IntWidth THEN 0 ELSE Wrap(Pow2[n])

\* The product is returned as it is.
Uncapped(n) == Wrap(RetryInterval * Shift(n))

computeDeletionRetry(n) ==
    LET delay == Wrap(RetryInterval * Shift(n))
    IN  IF delay > MaxRetry THEN MaxRetry ELSE delay

\* ListDueDeletions returns the row, and its attempt is recorded.
RecordAttempt ==
    /\ ~inPass /\ retryIn <= 0 /\ attempts < MaxAttempts
    /\ retryIn' = computeDeletionRetry(attempts)
    /\ attempts' = attempts + 1
    /\ inPass' = TRUE

\* The pass issues a deletion, advances the phase or raises the force level.
MarkReadyForImmediateRetry == inPass /\ retryIn' = 0 /\ UNCHANGED <<attempts, inPass>>

\* It ends, with an error or because there is something to wait for.
PassOver == inPass /\ inPass' = FALSE /\ UNCHANGED <<attempts, retryIn>>

TimePasses == ~inPass /\ retryIn > 0 /\ retryIn' = retryIn - 1 /\ UNCHANGED <<attempts, inPass>>

RetryNext == RecordAttempt \/ MarkReadyForImmediateRetry \/ PassOver \/ TimePasses

RetrySpec == RetryInit /\ [][RetryNext]_retryVars

RetryTypeOK ==
    /\ attempts \in 0..MaxAttempts /\ inPass \in BOOLEAN
    /\ retryIn \in -Pow2[IntWidth - 1]..(Pow2[IntWidth - 1] - 1)

\* However often a deletion has been attempted, and however the computation of
\* its backoff wraps around, the next attempt is never further away than the
\* longest interval; and as long as it does not wrap around, never nearer than
\* the shortest one unless the pass has asked for it.
RetryStaysNear ==
    /\ retryIn <= MaxRetry
    /\ \A n \in 0..MaxAttempts :
           RetryInterval * Pow2[n] < Pow2[IntWidth - 1] => computeDeletionRetry(n) >= RetryInterval

=============================================================================
