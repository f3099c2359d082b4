---------------------------- MODULE HttpRpc_proofs ----------------------------
(***************************************************************************)
(* Proofs about HttpRpc: for every list of endpoints, set of requests and  *)
(* length of a block, whatever answers when.                               *)
(*                                                                         *)
(* The two fields the requests share carry the proof.  What `verified`     *)
(* says stays true, so a request may rely on what another one found out;   *)
(* and an entry of `blocked` is never older than the failure it stands for,*)
(* so a request that skips an endpoint has that failure as its reason.     *)
(***************************************************************************)
EXTENDS HttpRpc, WellFoundedInduction, TLAPS

\* The type invariant: a request stands at an endpoint, or at none before it began.
TypeOK ==
  /\ foreign \subseteq Url
  /\ now \in Nat \ {0}
  /\ blocked \in [Url -> Nat] /\ failedAt \in [Url -> Nat]
  /\ verified \subseteq Url
  /\ stage \in [Request -> {"idle", "verifying", "calling"} \cup Over]
  /\ at \in [Request -> 0..Len(Urls)]
  /\ begun \in [Request -> Nat]

\* No failure and no request is from the future, and a block lasts from the failure.
ClocksAgree ==
  /\ \A u \in Url : failedAt[u] <= now
  /\ \A u \in Url : blocked[u] = IF failedAt[u] = 0 THEN 0 ELSE failedAt[u] + Block
  /\ \A r \in Request : begun[r] <= now

\* Only an endpoint of this chain is verified, and only a verified one is called.
VerifiedIsTrue ==
  /\ verified \cap foreign = {}
  /\ \A r \in Request : stage[r] \in {"verifying", "calling", "result"} => at[r] \in DOMAIN Urls
  /\ \A r \in Request : stage[r] \in {"calling", "result"} => Urls[at[r]] \in verified

\* The endpoint failed less than Block before the request began, or since.
FailedFor(r, u) == failedAt[u] > 0 /\ failedAt[u] > begun[r] - Block

\* The endpoints before the one a request stands at, or all when it gave up.
Behind(r) == IF stage[r] = "RPC_UNAVAILABLE" THEN DOMAIN Urls ELSE 1..(at[r] - 1)

BehindFailed == \A r \in Request : \A i \in Behind(r) : FailedFor(r, Urls[i])

IInv == TypeOK /\ ClocksAgree /\ VerifiedIsTrue /\ BehindFailed

-----------------------------------------------------------------------------
\* The least number principle, as a fact about sets.
LEMMA HasLeast ==
  ASSUME NEW S \in SUBSET Nat, S # {}
  PROVE  \E m \in S : \A k \in S : m <= k
<1> DEFINE R == {ss \in Nat \X Nat : ss[1] < ss[2]}
<1>1. IsWellFoundedOn(R, Nat) BY NatLessThanWellFounded DEF OpToRel
<1>2. PICK x \in S : \A y \in S : ~(<<y, x>> \in R)
  <2> HIDE DEF R
  <2> QED BY <1>1, WFMin
<1>3. \A y \in S : ~(y < x) BY <1>2
<1> QED BY <1>3

LEMMA UrlsFacts ==
  /\ Len(Urls) \in Nat \ {0} /\ DOMAIN Urls = 1..Len(Urls)
  /\ \A i \in DOMAIN Urls : Urls[i] \in Url
  /\ \A u \in Url : \E i \in DOMAIN Urls : u = Urls[i]
BY RpcAssumption DEF Url

\* What the rest of the loop does: it stops at an endpoint from the i-th on and every one
\* it skips is blocked, or all are and the request gives up.
LEMMA TryStops ==
  ASSUME TypeOK, NEW r \in Request, NEW i \in 1..(Len(Urls) + 1), NEW blk \in [Url -> Nat],
         Try(r, i, blk)
  PROVE  \/ /\ stage' = [stage EXCEPT ![r] = "RPC_UNAVAILABLE"] /\ at' = at
            /\ \A j \in i..Len(Urls) : blk[Urls[j]] > now
         \/ \E k \in i..Len(Urls) :
              /\ at' = [at EXCEPT ![r] = k]
              /\ \/ Urls[k] \in verified /\ stage' = [stage EXCEPT ![r] = "calling"]
                 \/ stage' = [stage EXCEPT ![r] = "verifying"]
              /\ \A j \in i..(k - 1) : blk[Urls[j]] > now
<1> DEFINE open == {k \in i..Len(Urls) : Open(Urls[k], blk)}
           least == CHOOSE x \in open : \A y \in open : x <= y
<1>1. /\ now \in Nat /\ Len(Urls) \in Nat
      /\ \A j \in i..Len(Urls) : blk[Urls[j]] \in Nat /\ (j \notin open => blk[Urls[j]] > now)
  BY UrlsFacts DEF TypeOK, Open
<1>2. CASE open = {}
  BY <1>1, <1>2 DEF Try
<1>3. CASE open # {}
  <2>1. least \in open /\ \A y \in open : least <= y
    <3>1. open \in SUBSET Nat BY <1>1
    <3> HIDE DEF open
    <3> QED BY <3>1, <1>3, HasLeast
  <2>2. /\ at' = [at EXCEPT ![r] = least]
        /\ stage' = [stage EXCEPT ![r] = IF Urls[least] \in verified THEN "calling" ELSE "verifying"]
    BY <1>3 DEF Try
  <2>3. least \in i..Len(Urls) BY <2>1
  <2>4. \A j \in i..(least - 1) : blk[Urls[j]] > now
    <3> HIDE DEF least
    <3>1. \A j \in i..(least - 1) : j \in i..Len(Urls) /\ ~(least <= j) BY <2>3, <1>1
    <3> HIDE DEF open
    <3> QED BY <3>1, <2>1, <1>1
  <2> HIDE DEF least
  <2> QED BY <2>2, <2>3, <2>4
<1> QED BY <1>2, <1>3

LEMMA TryTypes ==
  ASSUME TypeOK, NEW r \in Request, NEW i \in 1..(Len(Urls) + 1), NEW blk \in [Url -> Nat],
         Try(r, i, blk)
  PROVE  /\ stage' \in [Request -> {"idle", "verifying", "calling"} \cup Over]
         /\ at' \in [Request -> 0..Len(Urls)]
<1>1. /\ stage \in [Request -> {"idle", "verifying", "calling"} \cup Over]
      /\ at \in [Request -> 0..Len(Urls)]
  BY DEF TypeOK
<1>2. \A k \in i..Len(Urls) : k \in 0..Len(Urls) BY UrlsFacts
<1>3. CASE stage' = [stage EXCEPT ![r] = "RPC_UNAVAILABLE"] /\ at' = at
  BY <1>1, <1>3 DEF Over
<1>4. ASSUME NEW k \in i..Len(Urls), at' = [at EXCEPT ![r] = k],
             \/ stage' = [stage EXCEPT ![r] = "calling"]
             \/ stage' = [stage EXCEPT ![r] = "verifying"]
      PROVE  /\ stage' \in [Request -> {"idle", "verifying", "calling"} \cup Over]
             /\ at' \in [Request -> 0..Len(Urls)]
  BY <1>1, <1>2, <1>4
<1> QED BY <1>3, <1>4, TryStops

-----------------------------------------------------------------------------
LEMMA InitIInv == RpcInit => IInv
<1> SUFFICES ASSUME RpcInit PROVE IInv OBVIOUS
<1>1. TypeOK BY UrlsFacts DEF RpcInit, TypeOK
<1>2. ClocksAgree BY DEF RpcInit, ClocksAgree
<1>3. VerifiedIsTrue BY DEF RpcInit, VerifiedIsTrue
<1>4. BehindFailed BY DEF RpcInit, BehindFailed, Behind
<1> QED BY <1>1, <1>2, <1>3, <1>4 DEF IInv

\* Asking moves one request on, over endpoints that all failed for it; the rest of the
\* state keeps what it had.
LEMMA TryStep ==
  ASSUME TypeOK, TypeOK', NEW r \in Request, NEW i \in 1..(Len(Urls) + 1),
         Try(r, i, blocked'), now' = now, ClocksAgree', VerifiedIsTrue, BehindFailed,
         verified' = verified, foreign' = foreign,
         \A q \in Request \ {r} : begun'[q] = begun[q],
         \A u \in Url : failedAt'[u] >= failedAt[u],
         \A j \in 1..(i - 1) : FailedFor(r, Urls[j])'
  PROVE  VerifiedIsTrue' /\ BehindFailed'
<1>1. blocked' \in [Url -> Nat] BY DEF TypeOK
<1>2. ASSUME NEW j \in i..Len(Urls), blocked'[Urls[j]] > now
      PROVE  FailedFor(r, Urls[j])'
  <2>1. Urls[j] \in Url BY UrlsFacts
  <2>2. failedAt'[Urls[j]] > 0 /\ failedAt'[Urls[j]] > now' - Block
    <3> DEFINE u == Urls[j]
    <3>1. blocked'[u] = IF failedAt'[u] = 0 THEN 0 ELSE failedAt'[u] + Block
      BY <2>1 DEF ClocksAgree
    <3>2. failedAt'[u] \in Nat /\ now' \in Nat /\ Block \in Nat /\ blocked'[u] > now'
      BY <2>1, <1>2, RpcAssumption DEF TypeOK
    <3> HIDE DEF u
    <3> QED BY <3>1, <3>2 DEF u
  <2>3. begun'[r] <= now' /\ begun'[r] \in Nat /\ now' \in Nat /\ failedAt'[Urls[j]] \in Nat
    BY <2>1 DEF ClocksAgree, TypeOK
  <2> QED BY <2>2, <2>3, RpcAssumption DEF FailedFor
<1>3. ASSUME NEW q \in Request \ {r}, NEW j \in DOMAIN Urls, FailedFor(q, Urls[j])
      PROVE  FailedFor(q, Urls[j])'
  <2>1. Urls[j] \in Url BY UrlsFacts
  <2>2. /\ failedAt'[Urls[j]] >= failedAt[Urls[j]] /\ begun'[q] = begun[q]
        /\ failedAt'[Urls[j]] \in Nat /\ failedAt[Urls[j]] \in Nat /\ begun[q] \in Nat
    BY <2>1 DEF TypeOK
  <2> QED BY <2>2, <1>3, RpcAssumption DEF FailedFor
<1>4. ASSUME NEW q \in Request \ {r}, stage'[q] = stage[q], at'[q] = at[q]
      PROVE  \A j \in Behind(q)' : FailedFor(q, Urls[j])'
  <2>1. Behind(q)' = Behind(q) BY <1>4 DEF Behind
  <2>2. Behind(q) \subseteq DOMAIN Urls
    <3>1. at[q] \in 0..Len(Urls) BY DEF TypeOK
    <3> QED BY <3>1, UrlsFacts DEF Behind
  <2> QED BY <2>1, <2>2, <1>3 DEF BehindFailed
<1>5. CASE /\ stage' = [stage EXCEPT ![r] = "RPC_UNAVAILABLE"] /\ at' = at
           /\ \A j \in i..Len(Urls) : blocked'[Urls[j]] > now
  <2>1. stage'[r] = "RPC_UNAVAILABLE" /\ \A q \in Request \ {r} : stage'[q] = stage[q]
    BY <1>5 DEF TypeOK
  <2>2. VerifiedIsTrue' BY <1>5, <2>1 DEF VerifiedIsTrue
  <2>3. \A j \in DOMAIN Urls : FailedFor(r, Urls[j])'
    <3> SUFFICES ASSUME NEW j \in DOMAIN Urls PROVE FailedFor(r, Urls[j])' OBVIOUS
    <3>1. j \in 1..(i - 1) \/ j \in i..Len(Urls) BY UrlsFacts
    <3> QED BY <3>1, <1>2, <1>5
  <2> QED BY <1>5, <2>1, <2>2, <2>3, <1>4 DEF BehindFailed, Behind
<1>6. ASSUME NEW k \in i..Len(Urls),
             at' = [at EXCEPT ![r] = k],
             \/ Urls[k] \in verified /\ stage' = [stage EXCEPT ![r] = "calling"]
             \/ stage' = [stage EXCEPT ![r] = "verifying"],
             \A j \in i..(k - 1) : blocked'[Urls[j]] > now
      PROVE  VerifiedIsTrue' /\ BehindFailed'
  <2>1. /\ at'[r] = k /\ stage'[r] \in {"calling", "verifying"}
        /\ stage'[r] = "calling" => Urls[k] \in verified
        /\ \A q \in Request \ {r} : stage'[q] = stage[q] /\ at'[q] = at[q]
    BY <1>6 DEF TypeOK
  <2>2. k \in DOMAIN Urls BY UrlsFacts
  <2>3. VerifiedIsTrue' BY <2>1, <2>2 DEF VerifiedIsTrue
  <2>4. \A j \in 1..(k - 1) : FailedFor(r, Urls[j])'
    <3> SUFFICES ASSUME NEW j \in 1..(k - 1) PROVE FailedFor(r, Urls[j])' OBVIOUS
    <3>1. j \in 1..(i - 1) \/ (j \in i..(k - 1) /\ j \in i..Len(Urls)) BY UrlsFacts
    <3> QED BY <3>1, <1>2, <1>6
  <2>5. Behind(r)' = 1..(k - 1) BY <2>1 DEF Behind
  <2> QED BY <2>1, <2>3, <2>4, <2>5, <1>4 DEF BehindFailed
<1> QED BY <1>1, <1>5, <1>6, TryStops

-----------------------------------------------------------------------------
\* A request that ends where it stands disturbs nothing.
LEMMA EndStep ==
  ASSUME IInv, NEW r \in Request, NEW how \in Over \ {"RPC_UNAVAILABLE"},
         stage[r] \in {"verifying", "calling"}, how = "result" => stage[r] = "calling",
         End(r, how), now' = now, foreign' = foreign
  PROVE  IInv'
<1> USE DEF IInv
<1>1. /\ stage'[r] = how /\ \A q \in Request \ {r} : stage'[q] = stage[q]
      /\ UNCHANGED <<at, blocked, verified, failedAt, begun>>
  BY DEF End, client, TypeOK
<1>2. TypeOK' BY DEF TypeOK, End, client
<1>3. ClocksAgree' BY <1>1 DEF ClocksAgree
<1>4. VerifiedIsTrue' BY <1>1 DEF VerifiedIsTrue, Over
<1>5. BehindFailed'
  <2> SUFFICES ASSUME NEW q \in Request, NEW j \in Behind(q)' PROVE FailedFor(q, Urls[j])'
    BY DEF BehindFailed
  <2>1. Behind(q)' = Behind(q) BY <1>1 DEF Behind
  <2> QED BY <1>1, <2>1 DEF BehindFailed, FailedFor
<1> QED BY <1>2, <1>3, <1>4, <1>5

LEMMA BeginStep ==
  ASSUME IInv, NEW r \in Request, Begin(r), now' = now, foreign' = foreign
  PROVE  IInv'
<1> USE DEF IInv
<1>1. /\ begun' = [begun EXCEPT ![r] = now] /\ Try(r, 1, blocked)
      /\ UNCHANGED <<blocked, verified, failedAt>>
  BY DEF Begin, client
<1>2. TypeOK' BY <1>1, TryTypes DEF TypeOK
<1>3. ClocksAgree' BY <1>1 DEF ClocksAgree, TypeOK
<1>4. VerifiedIsTrue' /\ BehindFailed'
  <2>1. \A q \in Request \ {r} : begun'[q] = begun[q] BY <1>1 DEF TypeOK
  <2>2. \A u \in Url : failedAt'[u] >= failedAt[u] BY <1>1 DEF TypeOK
  <2>3. 1 \in 1..(Len(Urls) + 1) BY UrlsFacts
  <2> QED BY <1>1, <1>2, <1>3, <2>1, <2>2, <2>3, TryStep
<1> QED BY <1>2, <1>3, <1>4

LEMMA FailStep ==
  ASSUME IInv, NEW r \in Request, stage[r] \in {"verifying", "calling"}, Fail(r),
         now' = now, foreign' = foreign
  PROVE  IInv'
<1> USE DEF IInv
<1> DEFINE u == Urls[at[r]]
           i == at[r] + 1
<1>1. at[r] \in DOMAIN Urls /\ u \in Url /\ i \in 1..(Len(Urls) + 1)
  BY UrlsFacts DEF VerifiedIsTrue
<1>2. /\ blocked' = [blocked EXCEPT ![u] = now + Block]
      /\ failedAt' = [failedAt EXCEPT ![u] = now]
      /\ Try(r, i, blocked') /\ verified' = verified /\ begun' = begun
  BY DEF Fail, Until
<1>3. ASSUME NEW x \in Url
      PROVE  /\ failedAt'[x] = IF x = u THEN now ELSE failedAt[x]
             /\ failedAt'[x] \in Nat /\ failedAt'[x] <= now /\ failedAt'[x] >= failedAt[x]
  <2> HIDE DEF u
  <2>1. failedAt'[x] = IF x = u THEN now ELSE failedAt[x] BY <1>1, <1>2 DEF TypeOK
  <2>2. failedAt[x] \in Nat /\ now \in Nat /\ failedAt[x] <= now BY DEF TypeOK, ClocksAgree
  <2> QED BY <2>1, <2>2
<1>4. TypeOK'
  <2>1. blocked' \in [Url -> Nat] /\ failedAt' \in [Url -> Nat]
    BY <1>1, <1>2, RpcAssumption DEF TypeOK
  <2> QED BY <1>1, <1>2, <2>1, TryTypes DEF TypeOK
<1>5. ClocksAgree'
  <2>1. \A x \in Url : failedAt'[x] <= now' BY <1>3
  <2>2. now # 0 BY DEF TypeOK
  <2>3. \A x \in Url : blocked'[x] = IF failedAt'[x] = 0 THEN 0 ELSE failedAt'[x] + Block
    BY <1>1, <1>2, <1>3, <2>2 DEF ClocksAgree, TypeOK
  <2> QED BY <1>2, <2>1, <2>3 DEF ClocksAgree
<1>6. VerifiedIsTrue' /\ BehindFailed'
  <2>1. \A x \in Url : failedAt'[x] >= failedAt[x] BY <1>3
  <2>2. ASSUME NEW j \in 1..(i - 1) PROVE FailedFor(r, Urls[j])'
    <3>1. CASE j = at[r]
      <4>1. /\ failedAt'[Urls[j]] = now /\ begun'[r] = begun[r] /\ begun[r] <= now
            /\ now \in Nat \ {0} /\ begun[r] \in Nat
        BY <1>1, <3>1, <1>2, <1>3 DEF ClocksAgree, TypeOK
      <4> QED BY <4>1, RpcAssumption DEF FailedFor
    <3>2. CASE j # at[r]
      <4>1. at[r] \in Nat /\ j \in 1..(at[r] - 1) /\ j \in DOMAIN Urls
        BY <3>2, <1>1, UrlsFacts
      <4>2. FailedFor(r, Urls[j]) BY <4>1 DEF BehindFailed, Behind
      <4>3. /\ failedAt'[Urls[j]] >= failedAt[Urls[j]] /\ begun'[r] = begun[r]
            /\ failedAt'[Urls[j]] \in Nat /\ failedAt[Urls[j]] \in Nat /\ begun[r] \in Nat
        BY <4>1, <2>1, <1>2, <1>4, UrlsFacts DEF TypeOK
      <4> QED BY <4>2, <4>3, RpcAssumption DEF FailedFor
    <3> QED BY <3>1, <3>2
  <2>3. Try(r, i, blocked') /\ verified' = verified /\ \A q \in Request \ {r} : begun'[q] = begun[q]
    BY <1>2
  <2> HIDE DEF i, u
  <2> QED BY <1>1, <1>4, <1>5, <2>1, <2>2, <2>3, TryStep
<1> QED BY <1>4, <1>5, <1>6

\* The one step that adds to `verified`, after the chain id has been compared.
LEMMA ChainIdStep ==
  ASSUME IInv, NEW r \in Request, ChainId(r), now' = now, foreign' = foreign
  PROVE  IInv'
<1> USE DEF IInv
<1>1. CASE Urls[at[r]] \in foreign
  BY <1>1, EndStep DEF ChainId, Over
<1>2. CASE Urls[at[r]] \notin foreign
  <2>1. /\ stage[r] = "verifying" /\ verified' = verified \cup {Urls[at[r]]}
        /\ stage' = [stage EXCEPT ![r] = "calling"]
        /\ UNCHANGED <<at, begun, blocked, failedAt>>
    BY <1>2 DEF ChainId
  <2>2. at[r] \in DOMAIN Urls /\ Urls[at[r]] \in Url BY <2>1, UrlsFacts DEF VerifiedIsTrue
  <2>3. stage'[r] = "calling" /\ \A q \in Request \ {r} : stage'[q] = stage[q]
    BY <2>1 DEF TypeOK
  <2>4. TypeOK' BY <2>1, <2>2 DEF TypeOK
  <2>5. ClocksAgree' BY <2>1 DEF ClocksAgree
  <2>6. VerifiedIsTrue' BY <1>2, <2>1, <2>2, <2>3 DEF VerifiedIsTrue
  <2>7. BehindFailed'
    <3> SUFFICES ASSUME NEW q \in Request, NEW j \in Behind(q)' PROVE FailedFor(q, Urls[j])'
      BY DEF BehindFailed
    <3>1. Behind(q)' = Behind(q) BY <2>1, <2>3 DEF Behind
    <3> QED BY <2>1, <3>1 DEF BehindFailed, FailedFor
  <2> QED BY <2>4, <2>5, <2>6, <2>7
<1> QED BY <1>1, <1>2

LEMMA TickStep ==
  ASSUME IInv, Tick, foreign' = foreign
  PROVE  IInv'
<1> USE DEF IInv
<1>1. /\ now' = now + 1 /\ UNCHANGED <<blocked, verified, failedAt, stage, at, begun>>
  BY DEF Tick, client
<1>2. TypeOK' BY <1>1 DEF TypeOK
<1>3. ClocksAgree' BY <1>1 DEF ClocksAgree, TypeOK
<1>4. VerifiedIsTrue' BY <1>1 DEF VerifiedIsTrue
<1>5. BehindFailed' BY <1>1 DEF BehindFailed, Behind, FailedFor
<1> QED BY <1>2, <1>3, <1>4, <1>5

LEMMA IInvStep == IInv /\ [RpcNext]_rpcVars => IInv'
<1> SUFFICES ASSUME IInv, [RpcNext]_rpcVars PROVE IInv' OBVIOUS
<1>1. CASE UNCHANGED rpcVars
  BY <1>1 DEF IInv, TypeOK, ClocksAgree, VerifiedIsTrue, BehindFailed, Behind, FailedFor, rpcVars, client
<1>2. CASE Tick /\ foreign' = foreign
  BY <1>2, TickStep
<1>3. ASSUME NEW r \in Request, Begin(r) \/ Answer(r), now' = now, foreign' = foreign
      PROVE  IInv'
  <2>1. CASE Begin(r) BY <2>1, <1>3, BeginStep
  <2>2. CASE Failure(r) BY <2>2, <1>3, FailStep DEF Failure
  <2>3. CASE TooManyLogs(r) BY <2>3, <1>3, EndStep DEF TooManyLogs, Over
  <2>4. CASE ChainId(r) BY <2>4, <1>3, ChainIdStep
  <2>5. CASE Result(r) BY <2>5, <1>3, EndStep DEF Result, Over
  <2>6. CASE Null(r)
    <3>1. CASE r \in Nullable BY <3>1, <2>6, <1>3, EndStep DEF Null, Over
    <3>2. CASE r \notin Nullable BY <3>2, <2>6, <1>3, FailStep DEF Null
    <3> QED BY <3>1, <3>2
  <2> QED BY <1>3, <2>1, <2>2, <2>3, <2>4, <2>5, <2>6 DEF Answer
<1> QED BY <1>1, <1>2, <1>3 DEF RpcNext

LEMMA IInvHolds == RpcSpec => []IInv
BY InitIInv, IInvStep, PTL DEF RpcSpec

-----------------------------------------------------------------------------
\* The client and its requests keep their types: a request stands at one of the configured
\* endpoints, for any number of them (HttpRpc of rpc.ts).
THEOREM RpcTypeCorrect == RpcSpec => []TypeOK
<1>1. IInv => TypeOK BY DEF IInv
<1> QED BY <1>1, IInvHolds, PTL

\* No result is from another chain, whichever request verified the endpoint and whatever
\* happened between that and the call (assertChain and request of rpc.ts).
THEOREM ResultsOfTheChain == RpcSpec => []ResultsAreFromTheChain
<1>1. IInv => ResultsAreFromTheChain
  BY DEF IInv, VerifiedIsTrue, ResultsAreFromTheChain
<1> QED BY <1>1, IInvHolds, PTL

\* An endpoint is passed over only for a failure there less than a block's length before
\* the request began, or since; RPC_UNAVAILABLE means that all of them failed
\* (request of rpc.ts, the loop over the endpoints).
THEOREM FailoverHasCause == RpcSpec => []PassedEndpointsFailed
<1>1. IInv => PassedEndpointsFailed
  <2> SUFFICES ASSUME IInv, NEW r \in Request, NEW u \in Passed(r)
               PROVE  failedAt[u] > 0 /\ failedAt[u] > begun[r] - Block
    BY DEF PassedEndpointsFailed
  <2>1. \E i \in Behind(r) : u = Urls[i]
    <3>1. CASE stage[r] = "result" BY <3>1 DEF Passed, Behind
    <3>2. CASE stage[r] = "RPC_UNAVAILABLE" BY <3>2, UrlsFacts DEF Passed, Behind
    <3>3. CASE stage[r] \notin {"result", "RPC_UNAVAILABLE"} BY <3>3 DEF Passed
    <3> QED BY <3>1, <3>2, <3>3
  <2> QED BY <2>1 DEF IInv, BehindFailed, FailedFor
<1> QED BY <1>1, IInvHolds, PTL
=============================================================================
