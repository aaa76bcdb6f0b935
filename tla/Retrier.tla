------------------------------- MODULE Retrier -------------------------------
(* Retrying a fallible operation (nativelink-util/src/retry.rs), as functions *)
(* of the configuration, the number of the attempt and what it came to. The   *)
(* stores and the connection manager act on the verdict.                      *)
EXTENDS Naturals

Permanent == {"InvalidArgument", "FailedPrecondition", "OutOfRange", "Unimplemented",
              "NotFound", "AlreadyExists", "PermissionDenied", "Unauthenticated"}

\* The codes a configuration can name; every other code is Unknown to it.
ToErrorCode(code) ==
    IF code \in Permanent \cup {"Cancelled", "DeadlineExceeded", "ResourceExhausted", "Aborted",
                                "Internal", "Unavailable", "DataLoss"}
    THEN code ELSE "Unknown"

\* config.retry_on_errors is a set in a singleton, or {} when it is not given.
ShouldRetry(config, code) ==
    /\ code # "Ok"
    /\ IF config.retry_on_errors # {}
       THEN \E codes \in config.retry_on_errors : ToErrorCode(code) \in codes
       ELSE code \notin Permanent

\* ExponentialBackoff doubles before its first use, and there are max_retries
\* delays: the operation runs at most max_retries + 1 times.
Delay(config, attempt) == config.delay * 2 ^ attempt

RetryOk == [kind |-> "ok", code |-> "Ok"]
RetryErr(code) == [kind |-> "err", code |-> code]
RetryAgain(code) == [kind |-> "retry", code |-> code]

\* Retrier::retry(): what becomes of the call after its attempt number attempt.
Verdict(config, attempt, result) ==
    CASE result.kind = "ok" -> "ok"
      [] result.kind = "err" -> "failed"
      [] result.kind = "retry" ->
           IF ShouldRetry(config, result.code) /\ attempt <= config.max_retries
           THEN "again" ELSE "failed"
=============================================================================
