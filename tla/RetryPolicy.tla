----------------------------- MODULE RetryPolicy -----------------------------
(***************************************************************************)
(* The two retry loops of controller.py.  fetch_configmap and             *)
(* get_user_password call themselves again with retry_count + 1 after an  *)
(* ApiException other than 404, sleeping RETRY_BACKOFF_BASE ^ retry_count *)
(* first; DatabaseClient._initialize_pool loops over range(MAX_RETRIES),   *)
(* sleeping after every failed attempt.  The recursions are RECURSIVE      *)
(* operators over the sequence of responses the attempts get; a call is   *)
(* one step, so that every response sequence and every configured         *)
(* MAX_RETRIES is a behaviour TLC checks.                                  *)
(***************************************************************************)
EXTENDS Naturals, Sequences
LOCAL INSTANCE SequencesExt

CONSTANTS
    RetrySettings,       \* the values of Config.MAX_RETRIES considered
    RETRY_BACKOFF_BASE   \* Config.RETRY_BACKOFF_BASE (2.0), as an integer

ASSUME RetrySettings \subseteq Nat /\ RETRY_BACKOFF_BASE \in Nat \ {0, 1}

\* What one read_namespaced_config_map / read_namespaced_secret gets:
\* the object, ApiException 404, ApiException with another status (500,
\* 503, 429), or another exception (a urllib3 connection error).
K8sResponses == {"ok", "notFound", "apiError", "otherError"}

\* What one SimpleConnectionPool(...) gets: a pool, or psycopg2.Error.
DbResponses == {"ok", "dbError"}

\* Enough responses for the largest setting: MAX_RETRIES + 1 attempts.
Attempts == 1 .. (CHOOSE m \in RetrySettings :
                      \A n \in RetrySettings : n <= m) + 1

\* The result of a call: a value, None, or an exception raised to the
\* caller; the attempts made and the seconds slept in backoff.
Pending == [outcome |-> "pending", attempts |-> 0, slept |-> 0]

\* How the attempt that ends the recursion ends the call.
Outcome(r) == CASE r = "ok"       -> "value"
                [] r = "notFound" -> "none"
                [] OTHER          -> "raise"

-----------------------------------------------------------------------------
(* The code.                                                                *)

\* Mutant: the backoff exponent is the number of the next attempt.
RECURSIVE FetchBackoffShifted(_, _, _)
FetchBackoffShifted(resp, retry_count, max) ==
    LET r == resp[retry_count + 1] IN
    IF r = "apiError" /\ retry_count < max
    THEN LET rest == FetchBackoffShifted(resp, retry_count + 1, max)
         IN [rest EXCEPT !.slept = @ + RETRY_BACKOFF_BASE ^ (retry_count + 1)]
    ELSE [outcome |-> Outcome(r), attempts |-> retry_count + 1, slept |-> 0]

\* fetch_configmap(name, namespace, retry_count): 404 returns None, another
\* ApiException is retried while retry_count < MAX_RETRIES and re-raised
\* after that, any other exception escapes at once.
RECURSIVE Fetch(_, _, _)
Fetch(resp, retry_count, max) ==
    LET r == resp[retry_count + 1] IN
    IF r = "apiError" /\ retry_count < max
    THEN LET rest == Fetch(resp, retry_count + 1, max)
         IN [rest EXCEPT !.slept = @ + RETRY_BACKOFF_BASE ^ retry_count]
    ELSE [outcome |-> Outcome(r), attempts |-> retry_count + 1, slept |-> 0]

\* get_user_password has the same retry recursion (its Secret without a
\* password field is a returned None, like a 404).
GetUserPassword(resp, max) == Fetch(resp, 0, max)

\* Mutant: the RuntimeError after the loop is missing, so the function
\* falls off its end and returns None.
RECURSIVE InitPoolNoRaise(_, _, _)
InitPoolNoRaise(resp, attempt, max) ==
    IF attempt >= max
    THEN [outcome |-> "none", attempts |-> attempt, slept |-> 0]
    ELSE IF resp[attempt + 1] = "ok"
         THEN [outcome |-> "value", attempts |-> attempt + 1, slept |-> 0]
         ELSE LET rest == InitPoolNoRaise(resp, attempt + 1, max)
              IN [rest EXCEPT !.slept = @ + RETRY_BACKOFF_BASE ^ attempt]

\* _initialize_pool: for attempt in range(MAX_RETRIES), sleeping after each
\* psycopg2.Error, the last one included; RuntimeError when the loop ends.
RECURSIVE InitPool(_, _, _)
InitPool(resp, attempt, max) ==
    IF attempt >= max
    THEN [outcome |-> "raise", attempts |-> attempt, slept |-> 0]
    ELSE IF resp[attempt + 1] = "ok"
         THEN [outcome |-> "value", attempts |-> attempt + 1, slept |-> 0]
         ELSE LET rest == InitPool(resp, attempt + 1, max)
              IN [rest EXCEPT !.slept = @ + RETRY_BACKOFF_BASE ^ attempt]

-----------------------------------------------------------------------------
VARIABLES
    max_retries,  \* Config.MAX_RETRIES of this process
    k8s_resp,     \* the responses successive API reads get
    db_resp,      \* the responses successive pool connections get
    fetched,      \* the result of fetch_configmap
    pool          \* the result of _initialize_pool

vars == <<max_retries, k8s_resp, db_resp, fetched, pool>>

Init ==
    /\ max_retries \in RetrySettings
    /\ k8s_resp \in [Attempts -> K8sResponses]
    /\ db_resp \in [Attempts -> DbResponses]
    /\ fetched = Pending
    /\ pool = Pending

CallFetch ==
    /\ fetched = Pending
    /\ fetched' = Fetch(k8s_resp, 0, max_retries)
    /\ UNCHANGED <<max_retries, k8s_resp, db_resp, pool>>

CallInitPool ==
    /\ pool = Pending
    /\ pool' = InitPool(db_resp, 0, max_retries)
    /\ UNCHANGED <<max_retries, k8s_resp, db_resp, fetched>>

Next == CallFetch \/ CallInitPool

Spec == Init /\ [][Next]_vars

-----------------------------------------------------------------------------
(* Properties.                                                              *)

TypeOK ==
    /\ max_retries \in RetrySettings
    /\ k8s_resp \in [Attempts -> K8sResponses]
    /\ db_resp \in [Attempts -> DbResponses]
    /\ fetched \in [outcome : {"pending", "value", "none", "raise"},
                    attempts : Nat, slept : Nat]
    /\ pool \in [outcome : {"pending", "value", "raise"},
                 attempts : Nat, slept : Nat]

\* The seconds slept before retry n + 1 in total: BASE^0 + ... + BASE^(n-1).
Backoff(n) == (RETRY_BACKOFF_BASE ^ n - 1) \div (RETRY_BACKOFF_BASE - 1)

\* The policy of spec.md 4.1 read with MAX_RETRIES retries after the first
\* attempt: the first response that is not a retryable ApiException decides
\* the call, unless more than MAX_RETRIES of them come first; the backoff
\* doubles before each retry.
FetchReference(resp, max) ==
    LET k == SelectInSeq(resp, LAMBDA r : r # "apiError")
        failed == IF k = 0 THEN Len(resp) ELSE k - 1
    IN IF failed > max
       THEN [outcome |-> "raise", attempts |-> max + 1, slept |-> Backoff(max)]
       ELSE [outcome |-> Outcome(resp[failed + 1]), attempts |-> failed + 1,
             slept |-> Backoff(failed)]

\* The recursion of fetch_configmap (and get_user_password) implements that
\* policy for every response sequence and every MAX_RETRIES, 0 included:
\* the outcome, the number of attempts and the total backoff all agree.
FetchMatchesReference ==
    fetched # Pending => fetched = FetchReference(k8s_resp, max_retries)

\* spec.md 4.1 and 5: every retry loop, the pool initialisation with "the
\* same bounded-retry policy", gives up after the configured attempt count,
\* MAX_RETRIES ("attempts default 5"), and makes at least one attempt: when
\* every attempt fails, fetch_configmap and _initialize_pool both make
\* max(MAX_RETRIES, 1) attempts.
SpecAttempts == IF max_retries = 0 THEN 1 ELSE max_retries

RetryAttemptsAsSpecified ==
    (/\ fetched # Pending /\ pool # Pending
     /\ \A i \in Attempts : k8s_resp[i] = "apiError" /\ db_resp[i] = "dbError")
        => fetched.attempts = SpecAttempts /\ pool.attempts = SpecAttempts
=============================================================================
