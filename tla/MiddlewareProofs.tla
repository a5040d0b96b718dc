-------------------------- MODULE MiddlewareProofs --------------------------
(***************************************************************************)
(* Limiters, counts and the rate limit of Middleware for any requests,     *)
(* addresses and rates.                                                    *)
(***************************************************************************)
EXTENDS Middleware, FiniteSetTheorems, TLAPS

(* A request has a limiter from its lookup on, and only if its address is  *)
(* one that is limited.                                                    *)
LimiterInv ==
    \A r \in Requests :
        /\ pc[r] \in {"idle", "size", "limit", "getLimiter"} => limiter[r] = NoLimiter
        /\ pc[r] = "allow" => limiter[r] # NoLimiter
        /\ pc[r] = "getLimiter" \/ limiter[r] # NoLimiter
              => RealIP(req[r]) \in Addresses

(* Where the counts of a request stand while it is in the chain. *)
CountInv ==
    \A r \in Requests :
        /\ pc[r] \notin {"record", "answered"} => r \notin errors
        /\ pc[r] = "record" => r \in errors
        /\ pc[r] # "answered" => r \notin hits

(* The inductive invariant of the chain.                                   *)
ChainInv == TypeOK /\ LimiterInv /\ CountInv /\ AnswersAreCounted

-----------------------------------------------------------------------------
(* No request has come in.                                                 *)
LEMMA InitChain == Init => ChainInv
<1> SUFFICES ASSUME Init PROVE ChainInv
  OBVIOUS
<1>1. TypeOK
  BY MiddlewareAssumption DEF Init, TypeOK
<1>2. LimiterInv /\ CountInv /\ AnswersAreCounted
  BY DEF Init, LimiterInv, CountInv, AnswersAreCounted
<1> QED  BY <1>1, <1>2 DEF ChainInv

(* Every step keeps the types, and gives a request its address's limiter. *)
LEMMA StepLimiter ==
    ASSUME TypeOK, LimiterInv, [Next]_vars
    PROVE  TypeOK' /\ LimiterInv'
<1> USE MiddlewareAssumption
<1>0. TypeOK /\ LimiterInv
  OBVIOUS
<1>1. ASSUME NEW r \in Requests, NEW request \in Arrivals, Arrive(r, request)
      PROVE  TypeOK' /\ LimiterInv'
  <2>1. /\ req' \in [Requests -> Arrivals \cup {NoRequest}]
        /\ \A q \in Requests \ {r} : req'[q] = req[q] /\ pc'[q] = pc[q]
        /\ limiter[r] = NoLimiter
        /\ pc'[r] \in {"size", "answered"}
    BY <1>0, <1>1 DEF Arrive, Answer, Goto, TypeOK, LimiterInv
  <2>2. /\ pc' \in [Requests -> {"idle", "size", "limit", "getLimiter", "allow",
                                 "limited", "record", "serve", "answered"}]
        /\ status' \in [Requests -> {0, 200, 413, 429, 500}]
    BY <1>0, <1>1 DEF Arrive, Answer, Goto, TypeOK
  <2>3. TypeOK'
    BY <1>0, <1>1, <2>1, <2>2 DEF Arrive, TypeOK
  <2> QED  BY <1>0, <1>1, <2>1, <2>3 DEF Arrive, LimiterInv
<1>2. ASSUME NEW r \in Requests, LimitRequestSize(r) PROVE TypeOK' /\ LimiterInv'
  BY <1>0, <1>2 DEF LimitRequestSize, IncrementHTTPErrors, Answer, Goto,
                    TypeOK, LimiterInv
<1>3. ASSUME NEW r \in Requests, Resolve(r) PROVE TypeOK' /\ LimiterInv'
  BY <1>0, <1>3 DEF Resolve, IncrementHTTPErrors, Answer, Goto, TypeOK, LimiterInv
<1>4. ASSUME NEW r \in Requests, GetLimiter(r) PROVE TypeOK' /\ LimiterInv'
  <2> DEFINE ip == RealIP(req[r])
  <2>1. /\ ip \in Addresses
        /\ pc[r] = "getLimiter" /\ limiter[r] = NoLimiter
        /\ pc' = [pc EXCEPT ![r] = "allow"]
        /\ UNCHANGED <<req, status, errors, hits, now, at>>
    BY <1>0, <1>4 DEF GetLimiter, Goto, LimiterInv
  <2>2. CASE clients[ip] # NoLimiter
    <3>1. /\ limiter' = [limiter EXCEPT ![r] = clients[ip]]
          /\ UNCHANGED <<clients, tokens>>
      BY <1>4, <2>2 DEF GetLimiter, Existing
    <3>2. \A q \in Requests \ {r} : limiter'[q] = limiter[q] /\ pc'[q] = pc[q]
      BY <1>0, <2>1, <3>1 DEF TypeOK
    <3>3. limiter'[r] = clients[ip] /\ pc'[r] = "allow"
      BY <1>0, <2>1, <3>1 DEF TypeOK
    <3>4. TypeOK'
      BY <1>0, <2>1, <2>2, <3>1 DEF TypeOK
    <3> QED  BY <1>0, <2>1, <2>2, <3>2, <3>3, <3>4 DEF LimiterInv
  <2>3. CASE clients[ip] = NoLimiter
    <3>1. /\ clients' = [clients EXCEPT ![ip] = r]
          /\ tokens' = [tokens EXCEPT ![r] = RateLimitBurst]
          /\ limiter' = [limiter EXCEPT ![r] = r]
      BY <1>4, <2>3 DEF GetLimiter, Existing, FirstUse
    <3>2. \A q \in Requests : limiter[q] # NoLimiter => RealIP(req[q]) # ip
      BY <1>0, <2>3 DEF TypeOK
    <3>3. TypeOK'
      BY <1>0, <2>1, <3>1, <3>2 DEF TypeOK, LimiterInv
    <3> QED  BY <1>0, <2>1, <3>1, <3>3 DEF TypeOK, LimiterInv
  <2> QED  BY <2>2, <2>3
<1>5. ASSUME NEW r \in Requests, Allow(r) PROVE TypeOK' /\ LimiterInv'
  <2>1. limiter[r] \in Requests
    BY <1>0, <1>5 DEF Allow, TypeOK, LimiterInv
  <2>2. tokens' \in [Requests -> 0..RateLimitBurst]
    BY <1>0, <1>5, <2>1 DEF Allow, TypeOK
  <2>3. \E label \in {"serve", "limited"} : pc' = [pc EXCEPT ![r] = label]
    BY <1>5 DEF Allow, Goto
  <2>4. at' \in [Requests -> -1..MaxNow]
    BY <1>0, <1>5 DEF Allow, TypeOK
  <2>5. UNCHANGED <<req, status, clients, limiter, errors, hits, now>>
    BY <1>5 DEF Allow, Goto
  <2>6. pc' \in [Requests -> {"idle", "size", "limit", "getLimiter", "allow",
                             "limited", "record", "serve", "answered"}]
    BY <1>0, <2>3 DEF TypeOK
  <2>7. TypeOK'
    BY <1>0, <2>2, <2>4, <2>5, <2>6 DEF TypeOK
  <2> QED  BY <1>0, <2>3, <2>5, <2>7 DEF TypeOK, LimiterInv
<1>6. ASSUME NEW r \in Requests, CountError(r) PROVE TypeOK' /\ LimiterInv'
  BY <1>0, <1>6 DEF CountError, IncrementHTTPErrors, Goto, TypeOK, LimiterInv
<1>7. ASSUME NEW r \in Requests, RecordRateLimitHit(r) PROVE TypeOK' /\ LimiterInv'
  BY <1>0, <1>7 DEF RecordRateLimitHit, Answer, TypeOK, LimiterInv
<1>8. ASSUME NEW r \in Requests, Serve(r) PROVE TypeOK' /\ LimiterInv'
  BY <1>0, <1>8 DEF Serve, Answer, TypeOK, LimiterInv
<1>9. CASE Tick
  <2>1. \A n \in 0..RateLimitBurst : Refilled(n) \in 0..RateLimitBurst
    BY DEF Refilled
  <2> QED  BY <1>0, <1>9, <2>1 DEF Tick, TypeOK, LimiterInv
<1>10. CASE UNCHANGED vars
  BY <1>0, <1>10 DEF vars, TypeOK, LimiterInv
<1> QED  BY <1>1, <1>2, <1>3, <1>4, <1>5, <1>6, <1>7, <1>8, <1>9, <1>10
          DEF Next, Step

(* Every step of a request counts what it answers, and nothing else. *)
LEMMA StepCount ==
    ASSUME TypeOK, CountInv, AnswersAreCounted, [Next]_vars
    PROVE  CountInv' /\ AnswersAreCounted'
<1> USE DEF CountInv, AnswersAreCounted, Answer, Goto, IncrementHTTPErrors
<1>0. TypeOK /\ CountInv /\ AnswersAreCounted
  OBVIOUS
<1>1. ASSUME NEW r \in Requests, NEW request \in Arrivals, Arrive(r, request)
      PROVE  CountInv' /\ AnswersAreCounted'
  BY <1>0, <1>1 DEF Arrive, TypeOK
<1>2. ASSUME NEW r \in Requests, LimitRequestSize(r)
      PROVE  CountInv' /\ AnswersAreCounted'
  BY <1>0, <1>2 DEF LimitRequestSize, TypeOK
<1>3. ASSUME NEW r \in Requests, Resolve(r) PROVE CountInv' /\ AnswersAreCounted'
  BY <1>0, <1>3 DEF Resolve, TypeOK
<1>4. ASSUME NEW r \in Requests, GetLimiter(r) PROVE CountInv' /\ AnswersAreCounted'
  BY <1>0, <1>4 DEF GetLimiter, TypeOK
<1>5. ASSUME NEW r \in Requests, Allow(r) PROVE CountInv' /\ AnswersAreCounted'
  BY <1>0, <1>5 DEF Allow, TypeOK
<1>6. ASSUME NEW r \in Requests, CountError(r) PROVE CountInv' /\ AnswersAreCounted'
  BY <1>0, <1>6 DEF CountError, TypeOK
<1>7. ASSUME NEW r \in Requests, RecordRateLimitHit(r)
      PROVE  CountInv' /\ AnswersAreCounted'
  BY <1>0, <1>7 DEF RecordRateLimitHit, TypeOK
<1>8. ASSUME NEW r \in Requests, Serve(r) PROVE CountInv' /\ AnswersAreCounted'
  BY <1>0, <1>8 DEF Serve, TypeOK
<1>9. CASE Tick
  BY <1>0, <1>9 DEF Tick
<1>10. CASE UNCHANGED vars
  BY <1>0, <1>10 DEF vars
<1> QED  BY <1>1, <1>2, <1>3, <1>4, <1>5, <1>6, <1>7, <1>8, <1>9, <1>10
          DEF Next, Step

(* Limiters and counts agree with where the requests are.                  *)
THEOREM ChainInvariant == Spec => []ChainInv
<1>1. ChainInv /\ [Next]_vars => ChainInv'
  BY StepLimiter, StepCount DEF ChainInv
<1> QED  BY InitChain, <1>1, PTL DEF Spec

(* All requests of an address share one limiter, which is never replaced   *)
(* and never holds more than the burst (getLimiter, ratelimit.go:91-102).  *)
THEOREM OneLimiterPerAddress == Spec => []TypeOK
  BY ChainInvariant, PTL DEF ChainInv

(* The status of an answered request and the two counters agree            *)
(* (ratelimit.go:65-84, limitRequestSize.go:11-15).                        *)
THEOREM AnswersCounted == Spec => []AnswersAreCounted
  BY ChainInvariant, PTL DEF ChainInv

(* A reader of the statistics never sees more rate limit hits than errors. *)
THEOREM HitsCountedAsErrors == Spec => []HitsAreErrors
<1>1. ChainInv => HitsAreErrors
  BY DEF ChainInv, TypeOK, CountInv, AnswersAreCounted, HitsAreErrors
<1> QED  BY <1>1, ChainInvariant, PTL

-----------------------------------------------------------------------------
(* The rate limit: what an address was let through in a period, with the   *)
(* tokens left in its bucket, is at most a full bucket and the refill of   *)
(* the period; and it is at least that much for the period since the       *)
(* bucket was last full.                                                   *)

(* The requests of an address let through in a period, their number, and   *)
(* what the configuration allows of them.                                  *)
Through(ip, from, to) == {r \in Admitted(ip) : at[r] \in from..to}
N(ip, from, to) == Cardinality(Through(ip, from, to))
Quota(from, to) == RateLimitBurst + (to - from) * RateLimitPerSecond

(* A request is judged when its limiter answers, and not later than now.   *)
TimeInv ==
    \A r \in Requests :
        /\ at[r] <= now
        /\ pc[r] \in {"idle", "size", "limit", "getLimiter", "allow"} => at[r] = -1
        /\ at[r] >= 0 => limiter[r] # NoLimiter

(* The limiter of an address was made by one of its requests. *)
MakerInv ==
    \A ip \in Addresses : clients[ip] # NoLimiter =>
        /\ clients[ip] \in Made
        /\ RealIP(req[clients[ip]]) = ip

(* What was let through and the tokens left: at most a full bucket and the *)
(* refill for every period, at least that for one that began with a full   *)
(* bucket.                                                                 *)
BucketInv ==
    \A ip \in Addresses : clients[ip] # NoLimiter =>
        /\ \A from \in 0..now : N(ip, from, now) + tokens[clients[ip]] <= Quota(from, now)
        /\ \E from \in 0..now : N(ip, from, now) + tokens[clients[ip]] >= Quota(from, now)

(* The inductive invariant of the rate limit.                              *)
RateInv ==
    /\ ChainInv /\ TimeInv /\ MakerInv /\ BucketInv
    /\ NeverOverTheLimit /\ LimitedOnlyOverTheLimit

-----------------------------------------------------------------------------
(* Arithmetic of quotas. *)
LEMMA Quotas ==
    ASSUME NEW from \in Int, NEW to \in Int
    PROVE  /\ Quota(from, to) \in Int
           /\ Quota(from, to + 1) = Quota(from, to) + RateLimitPerSecond
           /\ Quota(from, from) = RateLimitBurst
           /\ \A later \in Int : from <= to /\ to <= later
                => Quota(from, to) <= Quota(from, later) /\ RateLimitBurst <= Quota(from, to)
<1> USE MiddlewareAssumption
<1>1. \A m, n \in Int : m <= n => m * RateLimitPerSecond <= n * RateLimitPerSecond
  OBVIOUS
<1>2. \A n \in Int : /\ n * RateLimitPerSecond \in Int
                     /\ (n + 1) * RateLimitPerSecond
                           = n * RateLimitPerSecond + RateLimitPerSecond
                     /\ 0 * RateLimitPerSecond = 0
  OBVIOUS
<1>3. /\ Quota(from, to) \in Int
      /\ Quota(from, from) = RateLimitBurst
  BY <1>2 DEF Quota
<1>4. Quota(from, to + 1) = Quota(from, to) + RateLimitPerSecond
  <2>1. (to + 1) - from = (to - from) + 1
    OBVIOUS
  <2> QED  BY <1>2, <2>1 DEF Quota
<1>5. ASSUME NEW later \in Int, from <= to, to <= later
      PROVE  Quota(from, to) <= Quota(from, later) /\ RateLimitBurst <= Quota(from, to)
  <2>1. 0 <= to - from /\ to - from <= later - from
    BY <1>5
  <2>2. /\ (to - from) * RateLimitPerSecond <= (later - from) * RateLimitPerSecond
        /\ 0 <= (to - from) * RateLimitPerSecond
    BY <1>1, <1>2, <2>1
  <2> QED  BY <1>2, <2>2 DEF Quota
<1> QED  BY <1>3, <1>4, <1>5

(* The numbers are finite.                                                 *)
LEMMA ThroughIsFinite ==
    ASSUME NEW ip, NEW from, NEW to
    PROVE  IsFiniteSet(Through(ip, from, to)) /\ N(ip, from, to) \in Nat
<1>1. Through(ip, from, to) \subseteq Requests
  BY DEF Through, Admitted, Judged
<1> QED  BY <1>1, MiddlewareAssumption, FS_Subset, FS_CardinalityType DEF N

(* No request is judged after now: later ends of a period add nothing. *)
LEMMA NothingLater ==
    ASSUME TypeOK, TimeInv, NEW ip, NEW from \in Int, NEW to \in Int
    PROVE  /\ now <= to => N(ip, from, to) = N(ip, from, now)
           /\ now < from => N(ip, from, to) = 0
<1>1. \A r \in Requests : at[r] \in Int /\ at[r] <= now /\ now \in Int
  BY MiddlewareAssumption DEF TypeOK, TimeInv
<1>2. ASSUME now <= to PROVE N(ip, from, to) = N(ip, from, now)
  <2>1. Through(ip, from, to) = Through(ip, from, now)
    BY <1>1, <1>2 DEF Through, Admitted, Judged
  <2> QED  BY <2>1 DEF N
<1>3. ASSUME now < from PROVE N(ip, from, to) = 0
  <2>1. Through(ip, from, to) = {}
    BY <1>1, <1>3 DEF Through, Admitted, Judged
  <2> QED  BY <2>1, FS_EmptySet DEF N
<1> QED  BY <1>2, <1>3

-----------------------------------------------------------------------------
(* The clock and the limiters behave.                                      *)
LEMMA StepTime ==
    ASSUME ChainInv, TimeInv, [Next]_vars
    PROVE  TimeInv'
<1>0. TypeOK /\ LimiterInv /\ TimeInv
  BY DEF ChainInv
<1> USE DEF TimeInv, Goto, Answer
<1>1. ASSUME NEW r \in Requests, NEW request \in Arrivals, Arrive(r, request)
      PROVE  TimeInv'
  BY <1>0, <1>1 DEF Arrive, TypeOK
<1>2. ASSUME NEW r \in Requests, LimitRequestSize(r) PROVE TimeInv'
  BY <1>0, <1>2 DEF LimitRequestSize, TypeOK
<1>3. ASSUME NEW r \in Requests, Resolve(r) PROVE TimeInv'
  BY <1>0, <1>3 DEF Resolve, TypeOK
<1>4. ASSUME NEW r \in Requests, GetLimiter(r) PROVE TimeInv'
  <2>1. \A q \in Requests \ {r} : limiter'[q] = limiter[q] /\ pc'[q] = pc[q]
    BY <1>0, <1>4 DEF GetLimiter, TypeOK
  <2> QED  BY <1>0, <1>4, <2>1 DEF GetLimiter
<1>5. ASSUME NEW r \in Requests, Allow(r) PROVE TimeInv'
  <2>1. \A q \in Requests \ {r} : at'[q] = at[q] /\ pc'[q] = pc[q]
    BY <1>0, <1>5 DEF Allow, TypeOK
  <2>2. at'[r] = now /\ pc'[r] \in {"serve", "limited"} /\ limiter[r] # NoLimiter
    BY <1>0, <1>5 DEF Allow, TypeOK, LimiterInv
  <2>3. now' = now /\ limiter' = limiter /\ now \in Int
    BY <1>0, <1>5, MiddlewareAssumption DEF Allow, TypeOK
  <2> QED  BY <1>0, <2>1, <2>2, <2>3
<1>6. ASSUME NEW r \in Requests, CountError(r) \/ RecordRateLimitHit(r) \/ Serve(r)
      PROVE  TimeInv'
  BY <1>0, <1>6 DEF CountError, RecordRateLimitHit, Serve, TypeOK
<1>7. CASE Tick
  BY <1>0, <1>7, MiddlewareAssumption DEF Tick, TypeOK
<1>8. CASE UNCHANGED vars
  BY <1>0, <1>8 DEF vars
<1> QED  BY <1>1, <1>2, <1>3, <1>4, <1>5, <1>6, <1>7, <1>8 DEF Next, Step

LEMMA StepMaker ==
    ASSUME ChainInv, MakerInv, [Next]_vars
    PROVE  MakerInv'
<1>0. TypeOK /\ LimiterInv /\ MakerInv
  BY DEF ChainInv
<1> USE DEF MakerInv, Made, Goto, Answer
<1>1. ASSUME NEW r \in Requests, NEW request \in Arrivals, Arrive(r, request)
      PROVE  MakerInv'
  <2>1. limiter[r] = NoLimiter
    BY <1>0, <1>1 DEF Arrive, LimiterInv
  <2>2. \A q \in Requests \ {r} : req'[q] = req[q]
    BY <1>0, <1>1 DEF Arrive, TypeOK
  <2>3. clients' = clients /\ limiter' = limiter
    BY <1>1 DEF Arrive
  <2> QED  BY <1>0, <2>1, <2>2, <2>3, MiddlewareAssumption DEF RealIP
<1>2. ASSUME NEW r \in Requests, GetLimiter(r) PROVE MakerInv'
  <2> DEFINE me == RealIP(req[r])
  <2>1. me \in Addresses /\ limiter[r] = NoLimiter /\ req' = req
    BY <1>0, <1>2 DEF GetLimiter, LimiterInv
  <2>2. \A q \in Requests \ {r} : limiter'[q] = limiter[q]
    BY <1>0, <1>2 DEF GetLimiter, TypeOK
  <2>3. \A ip \in Addresses : clients[ip] # r
    BY <1>0, <2>1, MiddlewareAssumption
  <2>4. CASE clients' = clients
    BY <1>0, <2>1, <2>2, <2>3, <2>4
  <2>5. CASE clients' # clients
    <3>1. clients' = [clients EXCEPT ![me] = r] /\ limiter' = [limiter EXCEPT ![r] = r]
      BY <1>2, <2>5 DEF GetLimiter
    <3>2. clients'[me] = r /\ limiter'[r] = r
      BY <1>0, <2>1, <3>1 DEF TypeOK
    <3>3. \A ip \in Addresses \ {me} : clients'[ip] = clients[ip]
      BY <1>0, <3>1 DEF TypeOK
    <3> QED  BY <1>0, <2>1, <2>2, <2>3, <3>2, <3>3
  <2> QED  BY <2>4, <2>5
<1>3. CASE UNCHANGED <<req, clients, limiter>>
  BY <1>0, <1>3
<1> QED  BY <1>1, <1>2, <1>3
          DEF Next, Step, LimitRequestSize, Resolve, Allow, CountError,
              RecordRateLimitHit, Serve, Tick, vars

-----------------------------------------------------------------------------
(* Only the answer of a limiter changes who was let through.               *)
LEMMA QuietStep ==
    ASSUME ChainInv, TimeInv, [Next]_vars, \A r \in Requests : ~Allow(r)
    PROVE  at' = at /\ \A ip \in Addresses : /\ Judged(ip)' = Judged(ip)
                                             /\ Admitted(ip)' = Admitted(ip)
<1>0. TypeOK /\ LimiterInv /\ CountInv /\ TimeInv
  BY DEF ChainInv
<1> USE DEF Judged, Admitted, Goto, Answer
<1> DEFINE Quiet == at' = at /\ \A ip \in Addresses : /\ Judged(ip)' = Judged(ip)
                                                      /\ Admitted(ip)' = Admitted(ip)
<1>1. ASSUME NEW r \in Requests, NEW request \in Arrivals, Arrive(r, request)
      PROVE  Quiet
  <2>1. at' = at /\ hits' = hits /\ ~(at[r] >= 0)
    BY <1>0, <1>1 DEF Arrive, TimeInv
  <2>2. \A q \in Requests \ {r} : req'[q] = req[q] /\ pc'[q] = pc[q]
    BY <1>0, <1>1 DEF Arrive, TypeOK
  <2> QED  BY <2>1, <2>2 DEF RealIP
<1>2. ASSUME NEW r \in Requests, LimitRequestSize(r) \/ Resolve(r) \/ GetLimiter(r)
      PROVE  Quiet
  <2>1. at' = at /\ hits' = hits /\ req' = req /\ ~(at[r] >= 0)
    BY <1>0, <1>2 DEF LimitRequestSize, Resolve, GetLimiter, TimeInv
  <2>2. \A q \in Requests \ {r} : pc'[q] = pc[q]
    BY <1>0, <1>2 DEF LimitRequestSize, Resolve, GetLimiter, TypeOK
  <2> QED  BY <2>1, <2>2
<1>3. ASSUME NEW r \in Requests, CountError(r) \/ RecordRateLimitHit(r) \/ Serve(r)
      PROVE  Quiet
  <2>1. at' = at /\ req' = req
    BY <1>3 DEF CountError, RecordRateLimitHit, Serve
  <2>2. \A q \in Requests :
           (q \in hits' \/ pc'[q] \in {"limited", "record"})
              <=> (q \in hits \/ pc[q] \in {"limited", "record"})
    BY <1>0, <1>3 DEF CountError, RecordRateLimitHit, Serve, TypeOK, CountInv
  <2> QED  BY <2>1, <2>2
<1>4. CASE Tick \/ UNCHANGED vars
  BY <1>4 DEF Tick, vars
<1> QED  BY <1>1, <1>2, <1>3, <1>4 DEF Next, Step

(* The answer of a limiter concerns one address, and adds one request to   *)
(* those it let through if there was a token.                              *)
LEMMA AllowStep ==
    ASSUME ChainInv, TimeInv, NEW r \in Requests, Allow(r), NEW ip \in Addresses
    PROVE  /\ clients[RealIP(req[r])] = limiter[r] /\ limiter[r] # NoLimiter
           /\ RealIP(req[r]) \in Addresses
           /\ at' = [at EXCEPT ![r] = now]
           /\ r \notin Judged(ip)
           /\ Judged(ip)' = IF ip = RealIP(req[r]) THEN Judged(ip) \cup {r} ELSE Judged(ip)
           /\ Admitted(ip)' = IF ip = RealIP(req[r]) /\ tokens[limiter[r]] > 0
                              THEN Admitted(ip) \cup {r} ELSE Admitted(ip)
<1>0. TypeOK /\ LimiterInv /\ CountInv /\ TimeInv
  BY DEF ChainInv
<1>1. /\ RealIP(req[r]) \in Addresses
      /\ clients[RealIP(req[r])] = limiter[r] /\ limiter[r] # NoLimiter
      /\ limiter[r] \in Requests /\ tokens[limiter[r]] \in Nat
  BY <1>0, MiddlewareAssumption DEF Allow, LimiterInv, TypeOK
<1>2. r \notin Judged(ip) /\ r \notin hits /\ now \in Nat
  BY <1>0 DEF Allow, TimeInv, CountInv, Judged, TypeOK
<1>3. /\ at' = [at EXCEPT ![r] = now] /\ at'[r] = now
      /\ req' = req /\ hits' = hits
      /\ \A q \in Requests \ {r} : at'[q] = at[q] /\ pc'[q] = pc[q]
      /\ pc'[r] = IF tokens[limiter[r]] > 0 THEN "serve" ELSE "limited"
  BY <1>0, <1>1 DEF Allow, Goto, TypeOK
<1>4. Judged(ip)' = IF ip = RealIP(req[r]) THEN Judged(ip) \cup {r} ELSE Judged(ip)
  BY <1>2, <1>3 DEF Judged
<1>5. \A q \in Judged(ip) : q # r /\ q \in Requests
  BY <1>2 DEF Judged
<1>6. Admitted(ip)' = IF ip = RealIP(req[r]) /\ tokens[limiter[r]] > 0
                     THEN Admitted(ip) \cup {r} ELSE Admitted(ip)
  <2>1. CASE ip = RealIP(req[r])
    BY <1>2, <1>3, <1>4, <1>5, <2>1 DEF Admitted
  <2>2. CASE ip # RealIP(req[r])
    BY <1>3, <1>4, <1>5, <2>2 DEF Admitted
  <2> QED  BY <2>1, <2>2
<1> QED  BY <1>1, <1>2, <1>3, <1>4, <1>6

(* What an address was let through up to now, after its limiter answered.  *)
LEMMA AllowCounts ==
    ASSUME ChainInv, TimeInv, NEW r \in Requests, Allow(r),
           NEW ip \in Addresses, NEW from \in Int, NEW to \in Int
    PROVE  N(ip, from, to)' =
              IF ip = RealIP(req[r]) /\ tokens[limiter[r]] > 0 /\ now \in from..to
              THEN N(ip, from, to) + 1 ELSE N(ip, from, to)
<1>0. TypeOK /\ now \in Nat
  BY DEF ChainInv, TypeOK
<1>1. /\ at' = [at EXCEPT ![r] = now] /\ r \notin Judged(ip)
      /\ Admitted(ip)' = IF ip = RealIP(req[r]) /\ tokens[limiter[r]] > 0
                         THEN Admitted(ip) \cup {r} ELSE Admitted(ip)
  BY AllowStep
<1>2. at'[r] = now /\ \A q \in Requests \ {r} : at'[q] = at[q]
  BY <1>0, <1>1 DEF TypeOK
<1>3. r \notin Through(ip, from, to) /\ \A q \in Admitted(ip) : at'[q] = at[q]
  BY <1>1, <1>2 DEF Through, Admitted, Judged
<1>4. CASE ip = RealIP(req[r]) /\ tokens[limiter[r]] > 0 /\ now \in from..to
  <2>1. Admitted(ip)' = Admitted(ip) \cup {r} /\ at'[r] \in from..to
    BY <1>0, <1>1, <1>2, <1>4
  <2>2. Through(ip, from, to)' = Through(ip, from, to) \cup {r}
    BY <1>3, <2>1 DEF Through
  <2> QED  BY <1>3, <1>4, <2>2, FS_AddElement, ThroughIsFinite DEF N
<1>5. CASE ~(ip = RealIP(req[r]) /\ tokens[limiter[r]] > 0 /\ now \in from..to)
  <2>1. \/ Admitted(ip)' = Admitted(ip)
        \/ Admitted(ip)' = Admitted(ip) \cup {r} /\ at'[r] \notin from..to
    BY <1>0, <1>1, <1>2, <1>5
  <2>2. Through(ip, from, to)' = Through(ip, from, to)
    BY <1>3, <2>1 DEF Through
  <2> QED  BY <1>5, <2>2 DEF N
<1> QED  BY <1>4, <1>5

(* A step that lets no request through changes no number.                  *)
LEMMA QuietCounts ==
    ASSUME ChainInv, TimeInv, [Next]_vars, \A r \in Requests : ~Allow(r),
           NEW ip \in Addresses, NEW from, NEW to
    PROVE  N(ip, from, to)' = N(ip, from, to)
<1>1. Through(ip, from, to)' = Through(ip, from, to)
  BY QuietStep DEF Through
<1> QED  BY <1>1 DEF N

-----------------------------------------------------------------------------
(* A bucket is refilled by the second and emptied by the request.          *)
LEMMA StepBucket ==
    ASSUME RateInv, [Next]_vars
    PROVE  BucketInv'
<1> SUFFICES ASSUME NEW ip \in Addresses, clients'[ip] # NoLimiter,
                    NEW m, m = now'
             PROVE  /\ \A from \in 0..m :
                          N(ip, from, m)' + tokens'[clients'[ip]] <= Quota(from, m)
                    /\ \E from \in 0..m :
                          N(ip, from, m)' + tokens'[clients'[ip]] >= Quota(from, m)
  BY DEF BucketInv
<1>0. /\ TypeOK /\ LimiterInv /\ TimeInv /\ MakerInv /\ BucketInv /\ ChainInv
      /\ now \in Nat /\ RateLimitPerSecond \in Nat /\ RateLimitBurst \in Nat
      /\ \A l \in Requests : tokens[l] \in Nat
  BY MiddlewareAssumption DEF RateInv, ChainInv, TypeOK
<1>1. ASSUME NEW from \in Int, NEW to \in Int
      PROVE  N(ip, from, to) \in Nat /\ Quota(from, to) \in Int
  BY ThroughIsFinite, Quotas
<1> DEFINE l == clients[ip]
<1>2. CASE UNCHANGED <<clients, tokens, now>> /\ \A r \in Requests : ~Allow(r)
  BY <1>0, <1>2, QuietCounts DEF BucketInv
<1>3. CASE Tick
  <2>1. /\ clients' = clients /\ m = now + 1
        /\ l \in Made /\ l \in Requests
        /\ tokens'[l] = Refilled(tokens[l])
    BY <1>0, <1>3 DEF Tick, MakerInv, Made
  <2>2. \A r \in Requests : ~Allow(r)
    BY <1>0, <1>3 DEF Tick, Allow
  <2>3. /\ \A from \in 0..now : N(ip, from, m)' = N(ip, from, now)
        /\ N(ip, m, m)' = 0
    BY <1>0, <2>1, <2>2, QuietCounts, NothingLater
  <2>4. \A from \in 0..now : Quota(from, m) = Quota(from, now) + RateLimitPerSecond
    BY <1>0, <2>1, Quotas
  <2>5. Quota(m, m) = RateLimitBurst
    BY <1>0, <2>1, Quotas
  <2>6. \A from \in 0..m : N(ip, from, m)' + tokens'[clients'[ip]] <= Quota(from, m)
    <3> SUFFICES ASSUME NEW from \in 0..m
                 PROVE  N(ip, from, m)' + tokens'[l] <= Quota(from, m)
      BY <2>1
    <3>1. tokens'[l] <= tokens[l] + RateLimitPerSecond /\ tokens'[l] <= RateLimitBurst
          /\ tokens'[l] \in Nat
      BY <1>0, <2>1 DEF Refilled
    <3>2. CASE from \in 0..now
      <4>1. N(ip, from, now) + tokens[l] <= Quota(from, now)
        BY <1>0, <2>1, <3>2 DEF BucketInv
      <4>2. N(ip, from, now) \in Nat /\ Quota(from, now) \in Int /\ tokens[l] \in Nat
        <5>1. from \in Int /\ now \in Int
          BY <1>0
        <5>2. tokens[l] \in Nat
          BY <1>0, <2>1
        <5> QED  BY <1>1, <5>1, <5>2
      <4>3. N(ip, from, now) + tokens'[l] <= Quota(from, now) + RateLimitPerSecond
        BY <1>0, <3>1, <4>1, <4>2
      <4> QED  BY <2>3, <2>4, <3>2, <4>3
    <3>3. CASE from = m
      BY <2>3, <2>5, <3>1, <3>3
    <3> QED  BY <1>0, <2>1, <3>2, <3>3
  <2>7. \E from \in 0..m : N(ip, from, m)' + tokens'[clients'[ip]] >= Quota(from, m)
    <3>1. CASE tokens'[l] = RateLimitBurst
      <4>1. m \in 0..m /\ N(ip, m, m)' + tokens'[l] >= Quota(m, m)
        BY <1>0, <2>1, <2>3, <2>5, <3>1
      <4> QED  BY <2>1, <4>1
    <3>2. CASE tokens'[l] = tokens[l] + RateLimitPerSecond
      <4>1. PICK from \in 0..now : N(ip, from, now) + tokens[l] >= Quota(from, now)
        BY <1>0, <2>1 DEF BucketInv
      <4>2. N(ip, from, now) \in Nat /\ Quota(from, now) \in Int /\ tokens[l] \in Nat
        <5>1. from \in Int /\ now \in Int
          BY <1>0
        <5>2. tokens[l] \in Nat
          BY <1>0, <2>1
        <5> QED  BY <1>1, <5>1, <5>2
      <4>3. N(ip, from, now) + tokens'[l] >= Quota(from, now) + RateLimitPerSecond
        BY <1>0, <3>2, <4>1, <4>2
      <4>4. from \in 0..m /\ N(ip, from, m)' + tokens'[l] >= Quota(from, m)
        BY <1>0, <2>1, <2>3, <2>4, <4>3
      <4> QED  BY <2>1, <4>4
    <3> QED  BY <2>1, <3>1, <3>2 DEF Refilled
  <2> QED  BY <2>6, <2>7
<1>4. ASSUME NEW r \in Requests, GetLimiter(r)
      PROVE  /\ \A from \in 0..m :
                   N(ip, from, m)' + tokens'[clients'[ip]] <= Quota(from, m)
             /\ \E from \in 0..m :
                   N(ip, from, m)' + tokens'[clients'[ip]] >= Quota(from, m)
  <2>1. /\ limiter[r] = NoLimiter /\ m = now
        /\ \A q \in Requests : ~Allow(q)
    BY <1>0, <1>4 DEF GetLimiter, Goto, LimiterInv, Allow, TypeOK
  <2>2. \A from \in 0..m : N(ip, from, m)' = N(ip, from, now)
    BY <1>0, <2>1, QuietCounts
  <2>3. CASE l # NoLimiter
    <3>1. l # r /\ l \in Requests
      BY <1>0, <2>1, <2>3 DEF MakerInv, Made
    <3>2. clients'[ip] = l /\ tokens'[l] = tokens[l]
      BY <1>0, <1>4, <2>3, <3>1 DEF GetLimiter, Existing, TypeOK
    <3> QED  BY <1>0, <2>1, <2>2, <2>3, <3>2 DEF BucketInv
  <2>4. CASE l = NoLimiter
    <3>1. clients'[ip] = r /\ tokens'[r] = RateLimitBurst
      BY <1>0, <1>4, <2>4 DEF GetLimiter, FirstUse, TypeOK
    <3>2. Judged(ip) = {}
      BY <1>0, <2>4 DEF Judged, TimeInv, TypeOK
    <3>3. \A from \in 0..m : N(ip, from, m)' = 0
      <4>1. \A from \in 0..m : Through(ip, from, now) = {}
        BY <3>2 DEF Through, Admitted
      <4> QED  BY <2>1, <2>2, <4>1, FS_EmptySet DEF N
    <3>4. /\ \A from \in 0..m : RateLimitBurst <= Quota(from, m)
          /\ Quota(m, m) = RateLimitBurst /\ m \in 0..m
      BY <1>0, <2>1, Quotas
    <3> QED  BY <1>0, <3>1, <3>3, <3>4
  <2> QED  BY <2>3, <2>4
<1>5. ASSUME NEW r \in Requests, Allow(r)
      PROVE  /\ \A from \in 0..m :
                   N(ip, from, m)' + tokens'[clients'[ip]] <= Quota(from, m)
             /\ \E from \in 0..m :
                   N(ip, from, m)' + tokens'[clients'[ip]] >= Quota(from, m)
  <2>1. /\ m = now /\ clients' = clients /\ l \in Requests
        /\ limiter[r] \in Requests /\ RealIP(req[r]) \in Addresses
        /\ clients[RealIP(req[r])] = limiter[r]
    BY <1>0, <1>5, AllowStep DEF Allow, Goto, MakerInv, Made, TypeOK
  <2>2. \A from \in 0..m :
           N(ip, from, m)' = IF ip = RealIP(req[r]) /\ tokens[limiter[r]] > 0
                             THEN N(ip, from, m) + 1 ELSE N(ip, from, m)
    BY <1>0, <1>5, <2>1, AllowCounts
  <2>3. tokens'[l] = IF ip = RealIP(req[r]) /\ tokens[limiter[r]] > 0
                     THEN tokens[l] - 1 ELSE tokens[l]
    <3>1. l = limiter[r] <=> ip = RealIP(req[r])
      BY <1>0, <2>1 DEF MakerInv
    <3> QED  BY <1>0, <1>5, <2>1, <3>1 DEF Allow, TypeOK
  <2>4. \A from \in 0..m :
           N(ip, from, m)' + tokens'[l] = N(ip, from, m) + tokens[l]
    <3> SUFFICES ASSUME NEW from \in 0..m
                 PROVE  N(ip, from, m)' + tokens'[l] = N(ip, from, m) + tokens[l]
      OBVIOUS
    <3>1. N(ip, from, m) \in Nat /\ tokens[l] \in Nat
      <4>1. from \in Int /\ m \in Int
        BY <1>0, <2>1
      <4>2. tokens[l] \in Nat
        BY <1>0, <2>1
      <4> QED  BY <1>1, <4>1, <4>2
    <3> QED  BY <2>2, <2>3, <3>1
  <2> QED  BY <1>0, <2>1, <2>4 DEF BucketInv
<1>6. ASSUME NEW r \in Requests, NEW request \in Arrivals, Arrive(r, request)
      PROVE  UNCHANGED <<clients, tokens, now>> /\ \A q \in Requests : ~Allow(q)
  BY <1>0, <1>6 DEF Arrive, Allow, Goto, Answer, TypeOK
<1>7. ASSUME NEW r \in Requests,
             LimitRequestSize(r) \/ Resolve(r) \/ CountError(r)
                \/ RecordRateLimitHit(r) \/ Serve(r)
      PROVE  UNCHANGED <<clients, tokens, now>> /\ \A q \in Requests : ~Allow(q)
  <2>1. UNCHANGED <<clients, tokens, now, at>>
    BY <1>7 DEF LimitRequestSize, Resolve, CountError, RecordRateLimitHit, Serve
  <2>2. ASSUME NEW q \in Requests, Allow(q) PROVE FALSE
    <3>1. q # r
      BY <1>7, <2>2 DEF LimitRequestSize, Resolve, CountError, RecordRateLimitHit,
                        Serve, Allow
    <3>2. pc'[q] # pc[q]
      BY <1>0, <2>2 DEF Allow, Goto, TypeOK
    <3> QED  BY <1>0, <1>7, <3>1, <3>2
              DEF LimitRequestSize, Resolve, CountError, RecordRateLimitHit,
                  Serve, Goto, Answer, TypeOK
  <2> QED  BY <2>1, <2>2
<1>8. CASE UNCHANGED vars
  <2>1. \A q \in Requests : ~Allow(q)
    BY <1>0, <1>8 DEF vars, Allow, Goto, TypeOK
  <2> QED  BY <1>2, <1>8, <2>1 DEF vars
<1> QED  BY <1>2, <1>3, <1>4, <1>5, <1>6, <1>7, <1>8 DEF Next, Step

(* A step after which a request has been let through more was counted in   *)
(* the bucket; a request that is turned away found the bucket empty.       *)
LEMMA StepRate ==
    ASSUME RateInv, [Next]_vars
    PROVE  NeverOverTheLimit' /\ LimitedOnlyOverTheLimit'
<1>0. /\ TypeOK /\ TimeInv /\ MakerInv /\ BucketInv /\ ChainInv
      /\ NeverOverTheLimit /\ LimitedOnlyOverTheLimit
      /\ now \in Nat /\ MaxNow \in Nat /\ now <= MaxNow
      /\ \A l \in Requests : tokens[l] \in Nat
  BY MiddlewareAssumption DEF RateInv, ChainInv, TypeOK
<1>1. ASSUME NEW ip \in Addresses, NEW from \in Int, NEW to \in Int
      PROVE  N(ip, from, to) \in Nat /\ Quota(from, to) \in Int
  BY ThroughIsFinite, Quotas
<1>2. \A ip \in Addresses : \A from, to \in 0..MaxNow :
         from <= to => N(ip, from, to) <= Quota(from, to)
  BY <1>0 DEF NeverOverTheLimit, N, Through, Quota
<1>3. \A ip \in Addresses : \A r \in Limited(ip) :
         \E from \in 0..at[r] : N(ip, from, at[r]) >= Quota(from, at[r])
  BY <1>0 DEF LimitedOnlyOverTheLimit, N, Through, Quota
<1>4. CASE \A r \in Requests : ~Allow(r)
  <2>1. ASSUME NEW ip \in Addresses, NEW from \in 0..MaxNow, NEW to \in 0..MaxNow,
               from <= to
        PROVE  N(ip, from, to)' <= Quota(from, to)
    BY <1>0, <1>2, <1>4, <2>1, QuietCounts
  <2>2. ASSUME NEW ip \in Addresses, NEW r \in Limited(ip)'
        PROVE  \E from \in 0..at'[r] : N(ip, from, at[r])' >= Quota(from, at'[r])
    <3>1. r \in Limited(ip) /\ at' = at
      BY <1>0, <1>4, QuietStep DEF Limited
    <3>2. PICK from \in 0..at[r] : N(ip, from, at[r]) >= Quota(from, at[r])
      BY <1>3, <3>1
    <3> DEFINE t == at[r]
    <3>3. t = at'[r] /\ N(ip, from, t) >= Quota(from, t)
      BY <3>1, <3>2
    <3>4. \A x : N(ip, from, x)' = N(ip, from, x)
      BY <1>0, <1>4, QuietCounts
    <3> QED  BY <3>1, <3>2, <3>3, <3>4
  <2> QED  BY <2>1, <2>2 DEF NeverOverTheLimit, LimitedOnlyOverTheLimit, N, Through, Quota
<1>5. ASSUME NEW q \in Requests, Allow(q)
      PROVE  NeverOverTheLimit' /\ LimitedOnlyOverTheLimit'
  <2> DEFINE me == RealIP(req[q])
  <2>1. /\ me \in Addresses /\ clients[me] = limiter[q] /\ limiter[q] # NoLimiter
        /\ limiter[q] \in Requests /\ tokens[limiter[q]] \in Nat
    <3>1. me \in Addresses
      BY <1>0, <1>5 DEF Allow, ChainInv, LimiterInv
    <3> QED  BY <1>0, <1>5, <3>1, AllowStep DEF TypeOK
  <2>2. ASSUME NEW ip \in Addresses, NEW from \in 0..MaxNow, NEW to \in 0..MaxNow,
               from <= to
        PROVE  N(ip, from, to)' <= Quota(from, to)
    <3>1. N(ip, from, to) <= Quota(from, to)
      BY <1>2, <2>2
    <3>2. CASE ip = me /\ tokens[limiter[q]] > 0 /\ now \in from..to
      <4>1. N(ip, from, to)' = N(ip, from, to) + 1
        BY <1>0, <1>5, <3>2, AllowCounts
      <4>2. N(ip, from, to) = N(ip, from, now)
        BY <1>0, <3>2, NothingLater
      <4>3. N(ip, from, now) + tokens[limiter[q]] <= Quota(from, now)
        BY <1>0, <2>1, <3>2 DEF BucketInv
      <4>4. Quota(from, now) <= Quota(from, to)
        BY <1>0, <3>2, Quotas
      <4>5. /\ N(ip, from, now) \in Nat /\ Quota(from, now) \in Int
            /\ Quota(from, to) \in Int
        BY <1>0, <1>1
      <4> QED  BY <2>1, <3>2, <4>1, <4>2, <4>3, <4>4, <4>5
    <3>3. CASE ~(ip = me /\ tokens[limiter[q]] > 0 /\ now \in from..to)
      BY <1>0, <1>5, <3>1, <3>3, AllowCounts
    <3> QED  BY <3>2, <3>3
  <2>3. ASSUME NEW ip \in Addresses, NEW r \in Limited(ip)'
        PROVE  \E from \in 0..at'[r] : N(ip, from, at[r])' >= Quota(from, at'[r])
    <3>1. PICK t : t = at'[r]
      OBVIOUS
    <3>2. PICK from \in 0..t : N(ip, from, t) >= Quota(from, t) /\ t \in Nat
      <4>1. /\ at' = [at EXCEPT ![q] = now] /\ q \notin Judged(ip)
            /\ Judged(ip)' = IF ip = me THEN Judged(ip) \cup {q} ELSE Judged(ip)
            /\ Admitted(ip)' = IF ip = me /\ tokens[limiter[q]] > 0
                               THEN Admitted(ip) \cup {q} ELSE Admitted(ip)
        BY <1>0, <1>5, AllowStep
      <4>2. CASE r # q
        <5>1. r \in Limited(ip)
          BY <2>3, <4>1, <4>2 DEF Limited
        <5>2. t = at[r] /\ t \in Nat
          BY <1>0, <3>1, <4>1, <4>2, <5>1 DEF TypeOK, Limited, Judged
        <5> QED  BY <1>3, <5>1, <5>2
      <4>3. CASE r = q
        <5>1. t = now
          BY <1>0, <3>1, <4>1, <4>3 DEF TypeOK
        <5>2. ip = me /\ ~(tokens[limiter[q]] > 0)
          BY <2>3, <4>1, <4>3 DEF Limited
        <5>3. tokens[clients[ip]] = 0
          BY <2>1, <5>2
        <5>4. PICK f \in 0..now : N(ip, f, now) + tokens[clients[ip]] >= Quota(f, now)
          BY <1>0, <2>1, <5>2 DEF BucketInv
        <5>5. N(ip, f, now) \in Nat
          BY <1>0, <1>1
        <5> QED  BY <1>0, <5>1, <5>3, <5>4, <5>5
      <4> QED  BY <4>2, <4>3
    <3>3. N(ip, from, t)' >= N(ip, from, t)
      <4>1. N(ip, from, t) \in Nat
        BY <1>1, <3>2
      <4> QED  BY <1>0, <1>5, <3>2, <4>1, AllowCounts
    <3>4. N(ip, from, t)' >= Quota(from, t)
      <4>1. N(ip, from, t) \in Nat /\ Quota(from, t) \in Int /\ N(ip, from, t)' \in Nat
        BY <1>0, <1>1, <1>5, <3>2, AllowCounts
      <4> QED  BY <3>2, <3>3, <4>1
    <3> QED  BY <3>1, <3>2, <3>4
  <2> QED  BY <2>2, <2>3 DEF NeverOverTheLimit, LimitedOnlyOverTheLimit, N, Through, Quota
<1> QED  BY <1>4, <1>5
-----------------------------------------------------------------------------
(* No limiter has been made.                                               *)
LEMMA InitRate == Init => RateInv
<1> SUFFICES ASSUME Init PROVE RateInv
  OBVIOUS
<1>1. ChainInv
  BY InitChain
<1>2. TimeInv
  BY DEF Init, TimeInv
<1>3. MakerInv /\ BucketInv
  BY DEF Init, MakerInv, BucketInv
<1>4. \A ip \in Addresses : Judged(ip) = {}
  BY DEF Init, Judged
<1>5. NeverOverTheLimit
  <2> SUFFICES ASSUME NEW ip \in Addresses, NEW from \in 0..MaxNow,
                      NEW to \in 0..MaxNow, from <= to
               PROVE  N(ip, from, to) <= Quota(from, to)
    BY DEF NeverOverTheLimit, N, Through, Quota
  <2>1. Through(ip, from, to) = {}
    BY <1>4 DEF Through, Admitted
  <2>2. N(ip, from, to) = 0
    BY <2>1, FS_EmptySet DEF N
  <2>3. RateLimitBurst <= Quota(from, to) /\ Quota(from, to) \in Int
    BY Quotas, MiddlewareAssumption
  <2> QED  BY <2>2, <2>3, MiddlewareAssumption
<1>6. LimitedOnlyOverTheLimit
  BY <1>4 DEF LimitedOnlyOverTheLimit, Limited
<1> QED  BY <1>1, <1>2, <1>3, <1>5, <1>6 DEF RateInv

(* It holds in every run of the limiter (ratelimit.go:56-112).             *)
THEOREM RateInvariant == Spec => []RateInv
<1>1. RateInv /\ [Next]_vars => RateInv'
  <2>1. ChainInv /\ [Next]_vars => ChainInv'
    BY StepLimiter, StepCount DEF ChainInv
  <2> QED  BY <2>1, StepTime, StepMaker, StepBucket, StepRate DEF RateInv
<1> QED  BY InitRate, <1>1, PTL DEF Spec

(* In no period does an address get more requests through than a full      *)
(* bucket and the refill of the period allow, however its requests         *)
(* interleave in getLimiter and Allow (ratelimit.go:64, 91-102).           *)
THEOREM LimitIsKept == Spec => []NeverOverTheLimit
  BY RateInvariant, PTL DEF RateInv

(* A request is only answered 429 when its own address has used up what    *)
(* some period that ends with it allows (ratelimit.go:64-70).              *)
THEOREM LimitIsDeserved == Spec => []LimitedOnlyOverTheLimit
  BY RateInvariant, PTL DEF RateInv
=============================================================================
