------------------------------- MODULE Domain -------------------------------
(***************************************************************************)
(* The vocabulary of the notification service (package domain) and the one *)
(* decision the delivery package takes about a failed attempt.             *)
(***************************************************************************)
EXTENDS Naturals

Priority == {"high", "normal", "low"}

\* The position of a priority's stream in the argument list of XREADGROUP.
Rank(p) == CASE p = "high" -> 1 [] p = "normal" -> 2 [] p = "low" -> 3

Status == {"pending", "scheduled", "queued", "processing",
           "delivered", "failed", "cancelled"}

\* The statuses for which the dispatcher acknowledges a message unprocessed.
SkippedStatus == {"delivered", "cancelled", "failed"}

\* The statuses named by the WHERE clause of the Cancel statement.
CancellableStatus == {"pending", "scheduled", "queued"}

\* A slip for KeepsPromise: one attempt too many.
ShouldRetryInclusive(attemptCount, maxRetries) == attemptCount <= maxRetries

\* A slip for NoEarlyBurial: the failed attempt is counted twice.
ShouldRetryTooFew(attemptCount, maxRetries) == attemptCount + 1 < maxRetries

\* attemptCount counts the attempt that has just failed.
ShouldRetry(attemptCount, maxRetries) == attemptCount < maxRetries

=============================================================================
