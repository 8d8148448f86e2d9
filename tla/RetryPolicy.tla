----------------------------- MODULE RetryPolicy -----------------------------
(***************************************************************************)
(* The errors of the domain and ExponentialBackoffRetryPolicy's decision   *)
(* about them.  Only the database's errors, wrapped by wrapDatabaseError,  *)
(* reach the policy.  An error's chain is what hasRetryableCause walks:    *)
(* for each object the set of its `code` and `originalCode`, from the      *)
(* cause of a DomainError.                                                 *)
(*                                                                         *)
(* Left out: the length of the delays (nothing waits for them but the      *)
(* attempt itself), messages, contexts and the status codes of the API.    *)
(***************************************************************************)
EXTENDS Naturals, Sequences

CONSTANT MAX_ATTEMPTS

ASSUME RetryAssumption == MAX_ATTEMPTS \in Nat \ {0}

RETRYABLE_PG_CODES ==
    {"08000", "08003", "08006", "08001", "08004", "40001", "40P01", "53300",
     "57P01", "57P02", "57P03", "55P03"}

RETRYABLE_NODE_CODES ==
    {"ECONNRESET", "ECONNREFUSED", "ETIMEDOUT", "EPIPE", "EHOSTUNREACH", "ENETUNREACH"}

RetryableCodes == RETRYABLE_PG_CODES \cup RETRYABLE_NODE_CODES

\* depth > 5 gives up: no more than six objects of a chain are looked at.
LINKS_INSPECTED == 6

DomainError(category, retryable, chain) ==
    [category |-> category, retryable |-> retryable, chain |-> chain]

\* Whatever the database said, the wrapper says it can be retried.
WrapDatabaseError(chain) == DomainError("INFRASTRUCTURE", TRUE, chain)

HasRetryableCause(chain) ==
    \E depth \in 1..Len(chain) :
        depth <= LINKS_INSPECTED /\ chain[depth] \cap RetryableCodes # {}

IsRetryable(err) ==
    /\ err.category # "CANCELLATION"
    /\ err.retryable \/ HasRetryableCause(err.chain)

\* Mutant: the loop ends an attempt early.
RetriesOneFewer(err, attempt) == IsRetryable(err) /\ attempt + 1 < MAX_ATTEMPTS

\* The catch of execute: whether `attempt` is followed by another.
Retries(err, attempt) == IsRetryable(err) /\ attempt # MAX_ATTEMPTS
=============================================================================
