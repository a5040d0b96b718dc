----------------------------- MODULE Middleware -----------------------------
(***************************************************************************)
(* The chain every routed request goes through before its handler:         *)
(* EnableCORS, LimitRequestSize and RateLimit (src/middleware).  Each      *)
(* request is a goroutine; requests share the map of limiters, under one   *)
(* mutex, each limiter, under its own, and the statistics, whose two       *)
(* updates for a limited request are two acquisitions of a lock.           *)
(*                                                                         *)
(* The limiters are external (golang.org/x/time/rate): a bucket that is    *)
(* full when made, holds at most RateLimitBurst tokens and gets            *)
(* RateLimitPerSecond of them per tick, here a second.                     *)
(***************************************************************************)
EXTENDS Integers, FiniteSets

CONSTANTS
    Requests,
    Addresses,            \* client and proxy addresses, without the local ones
    TrustedProxies,       \* the addresses inside the trusted networks
    Arrivals,             \* what a request can look like
    RateLimitPerSecond, RateLimitBurst,
    NoAddress,            \* the empty string
    MaxNow                \* bound of the clock

LocalAddresses == {"127.0.0.1", "::1"}

(* A limiter is named by the request that made it. *)
NoLimiter == "none"
NoRequest == [method |-> "none"]

ASSUME MiddlewareAssumption ==
    /\ IsFiniteSet(Requests)
    /\ TrustedProxies \subseteq Addresses \cup LocalAddresses
    /\ NoAddress \notin Addresses \cup LocalAddresses
    /\ NoLimiter \notin Requests
    /\ RateLimitPerSecond \in Nat /\ RateLimitBurst \in Nat
    /\ MaxNow \in Nat

VARIABLES
    req,       \* request -> what it looks like
    pc,        \* request -> where it is in the chain
    status,    \* request -> the status it was answered with, 0 for none
    clients,   \* address -> the limiter that is used for it
    tokens,    \* limiter -> the tokens left in it
    limiter,   \* request -> the limiter getLimiter returned to it
    errors,    \* requests that IncrementHTTPErrors counted
    hits,      \* requests that RecordRateLimitHit counted
    now,
    at         \* history: request -> the tick its limiter answered in

vars == <<req, pc, status, clients, tokens, limiter, errors, hits, now, at>>

Init ==
    /\ req = [r \in Requests |-> NoRequest]
    /\ pc = [r \in Requests |-> "idle"]
    /\ status = [r \in Requests |-> 0]
    /\ clients = [a \in Addresses |-> NoLimiter]
    /\ tokens = [r \in Requests |-> 0]
    /\ limiter = [r \in Requests |-> NoLimiter]
    /\ errors = {}
    /\ hits = {}
    /\ now = 0
    /\ at = [r \in Requests |-> -1]

-----------------------------------------------------------------------------
Goto(r, label) ==
    /\ pc' = [pc EXCEPT ![r] = label]
    /\ UNCHANGED status

Answer(r, code) ==
    /\ pc' = [pc EXCEPT ![r] = "answered"]
    /\ status' = [status EXCEPT ![r] = code]

NotCounted(r) == errors' = errors                   \* Not the code
IncrementHTTPErrors(r) == errors' = errors \cup {r}

(* EnableCORS answers a preflight request itself. *)
Arrive(r, request) ==
    /\ pc[r] = "idle"
    /\ req' = [req EXCEPT ![r] = request]
    /\ \/ request.method = "OPTIONS" /\ Answer(r, 200)
       \/ request.method # "OPTIONS" /\ Goto(r, "size")
    /\ UNCHANGED <<clients, tokens, limiter, errors, hits, now, at>>

LimitRequestSize(r) ==
    /\ pc[r] = "size"
    /\ \/ /\ req[r].tooLarge
          /\ IncrementHTTPErrors(r)
          /\ Answer(r, 413)
       \/ /\ ~req[r].tooLarge
          /\ Goto(r, "limit")
          /\ UNCHANGED errors
    /\ UNCHANGED <<req, clients, tokens, limiter, hits, now, at>>

(* A header is the address it names after trimming, NoAddress when there   *)
(* is nothing left of it, or "absent".                                     *)
RealIP(request) ==
    CASE request.peer \notin TrustedProxies -> request.peer
      [] request.peer \in TrustedProxies /\ request.realIP # "absent"
            -> request.realIP
      [] request.peer \in TrustedProxies /\ request.realIP = "absent"
                                         /\ request.forwardedFor # "absent"
            -> request.forwardedFor
      [] OTHER -> request.peer

(* RateLimit up to the limiter: requests without a peer address and those  *)
(* of local clients skip it.                                               *)
Resolve(r) ==
    LET ip == RealIP(req[r]) IN
    /\ pc[r] = "limit"
    /\ \/ /\ req[r].peer = NoAddress \/ ip \in LocalAddresses
          /\ Goto(r, "serve")
          /\ UNCHANGED errors
       \/ /\ req[r].peer # NoAddress /\ ip = NoAddress
          /\ IncrementHTTPErrors(r)
          /\ Answer(r, 500)
       \/ /\ ip \in Addresses
          /\ Goto(r, "getLimiter")
          /\ UNCHANGED errors
    /\ UNCHANGED <<req, clients, tokens, limiter, hits, now, at>>

AlwaysNew(ip) == {}                                 \* Not the code
SharedByAll(ip) == {clients[a] : a \in Addresses} \ {NoLimiter}
                                                    \* Not the code
Existing(ip) == {clients[ip]} \ {NoLimiter}

FirstUse == RateLimitBurst

GetLimiter(r) ==
    LET ip == RealIP(req[r]) IN
    /\ pc[r] = "getLimiter"
    /\ \/ \E l \in Existing(ip) :
             /\ limiter' = [limiter EXCEPT ![r] = l]
             /\ UNCHANGED <<clients, tokens>>
       \/ /\ Existing(ip) = {}
          /\ clients' = [clients EXCEPT ![ip] = r]
          /\ tokens' = [tokens EXCEPT ![r] = FirstUse]
          /\ limiter' = [limiter EXCEPT ![r] = r]
    /\ Goto(r, "allow")
    /\ UNCHANGED <<req, errors, hits, now, at>>

(* limiter.Allow, and the first count of a request that is limited. *)
Allow(r) ==
    /\ pc[r] = "allow"
    /\ at' = [at EXCEPT ![r] = now]
    /\ \/ /\ tokens[limiter[r]] > 0
          /\ tokens' = [tokens EXCEPT ![limiter[r]] = @ - 1]
          /\ Goto(r, "serve")
       \/ /\ tokens[limiter[r]] = 0
          /\ Goto(r, "limited")
          /\ UNCHANGED tokens
    /\ UNCHANGED <<req, clients, limiter, errors, hits, now>>

HitForgotten(r) ==                                  \* Not the code
    /\ pc[r] = "limited"
    /\ IncrementHTTPErrors(r)
    /\ Answer(r, 429)
    /\ UNCHANGED <<req, clients, tokens, limiter, hits, now, at>>

CountError(r) ==
    /\ pc[r] = "limited"
    /\ IncrementHTTPErrors(r)
    /\ Goto(r, "record")
    /\ UNCHANGED <<req, clients, tokens, limiter, hits, now, at>>

RecordRateLimitHit(r) ==
    /\ pc[r] = "record"
    /\ hits' = hits \cup {r}
    /\ Answer(r, 429)
    /\ UNCHANGED <<req, clients, tokens, limiter, errors, now, at>>

(* next.ServeHTTP of the handler, whatever it answers. *)
Serve(r) ==
    /\ pc[r] = "serve"
    /\ Answer(r, 200)
    /\ UNCHANGED <<req, clients, tokens, limiter, errors, hits, now, at>>

Refilled(n) == IF n + RateLimitPerSecond < RateLimitBurst
               THEN n + RateLimitPerSecond ELSE RateLimitBurst

Made == {r \in Requests : limiter[r] = r}

Tick ==
    /\ now < MaxNow
    /\ now' = now + 1
    /\ tokens' = [l \in Requests |-> IF l \in Made THEN Refilled(tokens[l]) ELSE 0]
    /\ UNCHANGED <<req, pc, status, clients, limiter, errors, hits, at>>

Step(r) ==
    \/ LimitRequestSize(r)
    \/ Resolve(r)
    \/ GetLimiter(r)
    \/ Allow(r)
    \/ CountError(r)
    \/ RecordRateLimitHit(r)
    \/ Serve(r)

Next ==
    \/ \E r \in Requests, request \in Arrivals : Arrive(r, request)
    \/ \E r \in Requests : Step(r)
    \/ Tick

Spec == Init /\ [][Next]_vars

-----------------------------------------------------------------------------
(* The types, and that the requests of an address all got the limiter the  *)
(* map has for it: none is ever replaced.                                  *)
TypeOK ==
    /\ req \in [Requests -> Arrivals \cup {NoRequest}]
    /\ pc \in [Requests -> {"idle", "size", "limit", "getLimiter", "allow",
                            "limited", "record", "serve", "answered"}]
    /\ status \in [Requests -> {0, 200, 413, 429, 500}]
    /\ clients \in [Addresses -> Requests \cup {NoLimiter}]
    /\ tokens \in [Requests -> 0..RateLimitBurst]
    /\ limiter \in [Requests -> Requests \cup {NoLimiter}]
    /\ errors \subseteq Requests /\ hits \subseteq Requests
    /\ now \in 0..MaxNow
    /\ at \in [Requests -> -1..MaxNow]
    /\ \A r \in Requests :
          limiter[r] # NoLimiter => limiter[r] = clients[RealIP(req[r])]

Judged(ip) == {r \in Requests : at[r] >= 0 /\ RealIP(req[r]) = ip}
Admitted(ip) == {r \in Judged(ip) : r \notin hits /\ pc[r] \notin {"limited", "record"}}
Limited(ip) == Judged(ip) \ Admitted(ip)

(* However its requests interleave, the first ones included, in no period  *)
(* does an address get more requests through than a full bucket and the    *)
(* refill of the period allow.                                             *)
NeverOverTheLimit ==
    \A ip \in Addresses : \A from, to \in 0..MaxNow :
        from <= to =>
            Cardinality({r \in Admitted(ip) : at[r] \in from..to})
                <= RateLimitBurst + (to - from) * RateLimitPerSecond

(* A request is only limited when its own address has used up the burst    *)
(* and the refill of some period that ends with it: addresses do not use   *)
(* up each other's buckets, and local requests use up none.                *)
LimitedOnlyOverTheLimit ==
    \A ip \in Addresses : \A r \in Limited(ip) :
        \E from \in 0..at[r] :
            Cardinality({q \in Admitted(ip) : at[q] \in from..at[r]})
                >= RateLimitBurst + (at[r] - from) * RateLimitPerSecond

(* The statistics never show more rate limit hits than errors: the two     *)
(* counts of a limited request are two steps, the error first.             *)
HitsAreErrors == hits \subseteq errors

(* Once a request is answered both counts agree with the answer. *)
AnswersAreCounted ==
    \A r \in Requests : pc[r] = "answered" =>
        /\ r \in errors <=> status[r] \in {413, 429, 500}
        /\ r \in hits <=> status[r] = 429
=============================================================================
