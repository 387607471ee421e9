--------------------------- MODULE ProviderErrors ---------------------------
(***************************************************************************)
(* What a call of the LeetCode endpoint can come back with, the typed      *)
(* error each answer is turned into (LeetCodeProvider.execute), and what   *)
(* the rest of the program derives from the error: whether it is worth     *)
(* another attempt, and the SyncStatus it is recorded as.                  *)
(***************************************************************************)

Errors == {"UserNotFound", "ProfilePrivate", "RateLimited", "Timeout",
           "Request", "RequestFinal", "Destroyed", "Database"}
NoError == "none"

(* Answers of one HTTP exchange.  "http5xx", "emptyPayload" and "network"  *)
(* become a retryable ProviderRequestError, a GraphQL error or another 4xx *)
(* a final one; 403 is treated as throttling.                              *)
Responses == {"data", "http429", "http403", "http4xx", "http5xx", "graphqlUnknownUser",
              "graphqlError", "emptyPayload", "aborted", "network"}

ErrorOf(response) ==
    CASE response = "data" -> NoError
      [] response \in {"http429", "http403"} -> "RateLimited"
      [] response \in {"http4xx", "graphqlError"} -> "RequestFinal"
      [] response \in {"http5xx", "emptyPayload", "network"} -> "Request"
      [] response = "graphqlUnknownUser" -> "UserNotFound"
      [] response = "aborted" -> "Timeout"

(* A typed error says itself whether it is retryable; an error of unknown  *)
(* origin (a destroyed limiter, a database error) is assumed transient.    *)
IsRetryable(error) == error \notin {"UserNotFound", "ProfilePrivate", "RequestFinal"}

ToSyncStatus(error) ==
    CASE error = "UserNotFound" -> "USER_NOT_FOUND"
      [] error = "ProfilePrivate" -> "PROFILE_PRIVATE"
      [] error = "RateLimited" -> "RATE_LIMITED"
      [] error = "Timeout" -> "TIMEOUT"
      [] OTHER -> "PROVIDER_ERROR"
=============================================================================
