------------------------------- MODULE HttpRpc -------------------------------
(***************************************************************************)
(* HttpRpc of packages/volume-proof/src/rpc.ts: requests that try the      *)
(* user's endpoints in order, share which of them are verified and which   *)
(* are blocked, and interleave at every await.                             *)
(*                                                                         *)
(* What runs between two awaits is one step.  An endpoint answers a call   *)
(* whenever it likes, or not: the call is then aborted after 8 seconds,    *)
(* which is one of the errors.                                             *)
(***************************************************************************)
EXTENDS Integers, Sequences, FiniteSets

CONSTANTS
  Urls,      \* the configured endpoints, in order
  Request,   \* the requests made in parallel
  Nullable,  \* those for a method in NULLABLE_METHODS
  Block,     \* how long an endpoint that failed is left alone
  MaxTime    \* bound of the clock

Url == {Urls[i] : i \in DOMAIN Urls}

ASSUME RpcAssumption ==
  /\ Urls \in Seq(Url) /\ Urls # <<>>
  /\ Nullable \subseteq Request
  /\ Block \in Nat \ {0} /\ MaxTime \in Nat

VARIABLES
  foreign,    \* the endpoints that serve another chain
  now,
  blocked, verified,   \* the client's fields; 0: not in the map
  stage,      \* of each request
  at,         \* its place in the loop over the endpoints
  begun, failedAt      \* when a request began; when an endpoint last failed

client == <<blocked, verified, failedAt>>
rpcVars == <<foreign, now, client, stage, at, begun>>

Over == {"result", "RPC_CHAIN_MISMATCH", "RPC_LOG_LIMIT", "RPC_UNAVAILABLE"}

RpcInit ==
  /\ foreign \in SUBSET Url
  /\ now = 1
  /\ blocked = [u \in Url |-> 0] /\ verified = {} /\ failedAt = [u \in Url |-> 0]
  /\ stage = [r \in Request |-> "idle"]
  /\ at = [r \in Request |-> 0] /\ begun = [r \in Request |-> 0]

Open(u, blk) == blk[u] <= now

\* The rest of the loop, up to the next await: the first endpoint from the i-th on that
\* is not blocked is asked, for its chain id if that is not known, or the loop is over.
Try(r, i, blk) ==
  LET open == {k \in i..Len(Urls) : Open(Urls[k], blk)}
      k    == CHOOSE x \in open : \A y \in open : x <= y
  IN  IF open = {}
      THEN stage' = [stage EXCEPT ![r] = "RPC_UNAVAILABLE"] /\ UNCHANGED at
      ELSE /\ at' = [at EXCEPT ![r] = k]
           /\ stage' = [stage EXCEPT ![r] = IF Urls[k] \in verified THEN "calling" ELSE "verifying"]

Begin(r) ==
  /\ stage[r] = "idle"
  /\ begun' = [begun EXCEPT ![r] = now]
  /\ Try(r, 1, blocked)
  /\ UNCHANGED client

End(r, how) == stage' = [stage EXCEPT ![r] = how] /\ UNCHANGED <<at, client, begun>>

\* Mutant: an endpoint is left alone for twice as long.
UntilDoubled == now + 2 * Block

Until == now + Block

\* A transport error, an HTTP status, an oversized or unreadable body, an error object,
\* or a result that is missing, or null where it may not be.
Fail(r) ==
  LET u   == Urls[at[r]]
      blk == [blocked EXCEPT ![u] = Until]
  IN  /\ blocked' = blk
      /\ failedAt' = [failedAt EXCEPT ![u] = now]
      /\ Try(r, at[r] + 1, blk)
      /\ UNCHANGED <<verified, begun>>

\* An error object that says there are too many logs (a response over the size limit is
\* an ordinary failure).
TooManyLogs(r) == stage[r] \in {"verifying", "calling"} /\ End(r, "RPC_LOG_LIMIT")

Failure(r) == stage[r] \in {"verifying", "calling"} /\ Fail(r)

\* Mutant: the endpoint is taken for verified before its chain id is compared.
ChainIdTrusted(r) ==
  /\ stage[r] = "verifying"
  /\ verified' = verified \cup {Urls[at[r]]}
  /\ stage' = [stage EXCEPT ![r] = IF Urls[at[r]] \in foreign THEN "RPC_CHAIN_MISMATCH" ELSE "calling"]
  /\ UNCHANGED <<at, begun, blocked, failedAt>>

ChainId(r) ==
  /\ stage[r] = "verifying"
  /\ IF Urls[at[r]] \in foreign THEN End(r, "RPC_CHAIN_MISMATCH")
     ELSE /\ verified' = verified \cup {Urls[at[r]]}
          /\ stage' = [stage EXCEPT ![r] = "calling"]
          /\ UNCHANGED <<at, begun, blocked, failedAt>>

Result(r) == stage[r] = "calling" /\ End(r, "result")

Null(r) == stage[r] = "calling" /\ IF r \in Nullable THEN End(r, "result") ELSE Fail(r)

Answer(r) == Failure(r) \/ TooManyLogs(r) \/ ChainId(r) \/ Result(r) \/ Null(r)

Tick ==
  /\ now < MaxTime
  /\ now' = now + 1
  /\ UNCHANGED <<client, stage, at, begun>>

RpcNext ==
  /\ \/ \E r \in Request : (Begin(r) \/ Answer(r)) /\ UNCHANGED now
     \/ Tick
  /\ UNCHANGED foreign

RpcSpec == RpcInit /\ [][RpcNext]_rpcVars

-----------------------------------------------------------------------------
\* A result is never from another chain, although one request trusts what another has
\* verified ("The client verifies the chain id on first use and refuses a mismatched
\* RPC", rpc.ts:7-9).
ResultsAreFromTheChain ==
  \A r \in Request : stage[r] = "result" => Urls[at[r]] \notin foreign

\* The endpoints a request that is over has passed over.
Passed(r) ==
  CASE stage[r] = "result"          -> {Urls[i] : i \in 1..(at[r] - 1)}
    [] stage[r] = "RPC_UNAVAILABLE" -> Url
    [] OTHER                        -> {}

\* Order and failover: an endpoint is passed over only if a call of this or of another
\* request failed there less than Block before the request began, or since.  So no block
\* outlives its time, an endpoint on another chain is refused and not fallen back from,
\* and RPC_UNAVAILABLE means that every endpoint did fail.
PassedEndpointsFailed ==
  \A r \in Request : \A u \in Passed(r) : failedAt[u] > 0 /\ failedAt[u] > begun[r] - Block
=============================================================================
