------------------------------- MODULE Stats -------------------------------
(***************************************************************************)
(* The statistics of the server (src/stats/stats.go): totals, one bucket   *)
(* of counts per hour, and the addresses that were rate limited.           *)
(*                                                                         *)
(* Every method holds the mutex from its first to its last line, so it is  *)
(* one step.  What GetCurrentStats returns is a copy of the struct: its    *)
(* numbers are the reader's own, but its RateLimitedIPs is a slice of the  *)
(* array RecordRateLimitHit goes on writing to.  Slices are modelled by    *)
(* the array they point into and their length; append writes in place      *)
(* while there is room and moves to an array of twice the size otherwise.  *)
(*                                                                         *)
(* Time is counted in ticks, HourLength of which make an hour; the window  *)
(* of 24 hours is one of WindowHours.                                      *)
(***************************************************************************)
EXTENDS Integers, Sequences, FiniteSets, Functions

CONSTANTS
    Counters,      \* the counted events: downloads, uploads, HTTP errors
    IPs,           \* client addresses
    Readers,       \* goroutines that render the statistics page
    HourLength, WindowHours,
    MaxNow,        \* bound of the clock
    MaxEvents,     \* bound of each counter
    MaxHits        \* bound of the rate limit hits

ASSUME StatsAssumption ==
    /\ HourLength \in Nat \ {0} /\ WindowHours \in Nat \ {0}
    /\ MaxNow \in Nat /\ MaxEvents \in Nat /\ MaxHits \in Nat

VARIABLES
    count,     \* counter -> its total
    hits,      \* RateLimitHitCount
    ips,       \* RateLimitedIPs: [array, len]
    arrays,    \* the arrays slices point into: [cap, elems]
    last24h,   \* start of an hour -> counter -> count
    now,
    reports,   \* reader -> what GetCurrentStats returned to it
    log        \* history: counter -> tick -> number of events

vars == <<count, hits, ips, arrays, last24h, now, reports, log>>

NoReport == [at |-> -1]
Entry(ip, n) == [ip |-> ip, requests |-> n]

Init ==
    /\ count = [c \in Counters |-> 0]
    /\ hits = 0
    /\ ips = [array |-> 0, len |-> 0]
    /\ arrays = <<>>
    /\ last24h = <<>>
    /\ now = 0
    /\ reports = [r \in Readers |-> NoReport]
    /\ log = [c \in Counters |-> [t \in 0..MaxNow |-> 0]]

-----------------------------------------------------------------------------
NotTruncated(t) == t                                       \* Not the code
TruncateToHour(t) == t - (t % HourLength)

EmptyBucket == [c \in Counters |-> 0]

AddToLast24h(c) ==
    LET hour == TruncateToHour(now)
        old == IF hour \in DOMAIN last24h THEN last24h[hour] ELSE EmptyBucket
    IN  [h \in DOMAIN last24h \cup {hour} |->
            IF h = hour THEN [old EXCEPT ![c] = @ + 1] ELSE last24h[h]]

(* IncrementDownloads, IncrementUploads and IncrementHTTPErrors. *)
Increment(c) ==
    /\ count[c] < MaxEvents
    /\ count' = [count EXCEPT ![c] = @ + 1]
    /\ last24h' = AddToLast24h(c)
    /\ log' = [log EXCEPT ![c][now] = @ + 1]
    /\ UNCHANGED <<hits, ips, arrays, now, reports>>

Elements(slice) ==
    IF slice.len = 0 THEN <<>> ELSE SubSeq(arrays[slice.array].elems, 1, slice.len)

Room(slice) == slice.len > 0 /\ slice.len < arrays[slice.array].cap

NewestFirst(elems, entry) == <<entry>> \o elems            \* Not the code
Added(elems, entry) == Append(elems, entry)

AppendEntry(entry) ==
    LET elems == Added(Elements(ips), entry) IN
    \/ /\ Room(ips)
       /\ arrays' = [arrays EXCEPT ![ips.array].elems = elems]
       /\ ips' = [ips EXCEPT !.len = @ + 1]
    \/ /\ ~Room(ips)
       /\ arrays' = Append(arrays, [cap   |-> IF ips.len = 0 THEN 1 ELSE 2 * ips.len,
                                    elems |-> elems])
       /\ ips' = [array |-> Len(arrays) + 1, len |-> ips.len + 1]

NeverFound(ip) == {}                                       \* Not the code
Position(ip) == {i \in 1..ips.len : Elements(ips)[i].ip = ip}

RecordRateLimitHit(ip) ==
    /\ hits < MaxHits
    /\ hits' = hits + 1
    /\ \/ \E i \in Position(ip) :
             /\ arrays' = [arrays EXCEPT ![ips.array].elems[i].requests = @ + 1]
             /\ UNCHANGED ips
       \/ /\ Position(ip) = {}
          /\ AppendEntry(Entry(ip, 1))
    /\ UNCHANGED <<count, last24h, now, reports, log>>

WindowLength == WindowHours * HourLength

CutoffByHour == TruncateToHour(now - WindowLength) + HourLength   \* Not the code
Cutoff == now - WindowLength

Kept == {h \in DOMAIN last24h : h >= Cutoff}

(* updateLast24hStats, and the copy of the struct.  The lists a report is  *)
(* compared with are history: seen is what the slice held when returned.   *)
GetCurrentStats(r) ==
    /\ last24h' = [h \in Kept |-> last24h[h]]
    /\ reports' = [reports EXCEPT ![r] =
          [at     |-> now,
           count  |-> count,
           recent |-> [c \in Counters |-> SumFunction([h \in Kept |-> last24h[h][c]])],
           hits   |-> hits,
           ips    |-> ips,
           seen   |-> Elements(ips)]]
    /\ UNCHANGED <<count, hits, ips, arrays, now, log>>

Tick ==
    /\ now < MaxNow
    /\ now' = now + 1
    /\ UNCHANGED <<count, hits, ips, arrays, last24h, reports, log>>

Next ==
    \/ \E c \in Counters : Increment(c)
    \/ \E ip \in IPs : RecordRateLimitHit(ip)
    \/ \E r \in Readers : GetCurrentStats(r)
    \/ Tick

Spec == Init /\ [][Next]_vars

-----------------------------------------------------------------------------
(* The types; buckets start on the hour (addToLast24h) and no slice is     *)
(* longer than its array.                                                  *)
TypeOK ==
    /\ count \in [Counters -> 0..MaxEvents]
    /\ hits \in 0..MaxHits
    /\ now \in 0..MaxNow
    /\ DOMAIN last24h \subseteq {h \in 0..MaxNow : h % HourLength = 0}
    /\ \A h \in DOMAIN last24h : last24h[h] \in [Counters -> 0..MaxEvents]
    /\ ips.array \in 0..Len(arrays)
    /\ \A i \in DOMAIN arrays : Len(arrays[i].elems) <= arrays[i].cap

Requests(elems) == SumFunction([i \in DOMAIN elems |-> elems[i].requests])

(* Every hit is attributed to exactly one address, whose entry is unique,  *)
(* through all the moves of the list to larger arrays.                     *)
HitsAreAttributed ==
    LET elems == Elements(ips) IN
    /\ Requests(elems) = hits
    /\ \A i, j \in DOMAIN elems : elems[i].ip = elems[j].ip => i = j

Events(c, from) == SumFunctionOnSet(log[c], {t \in from..MaxNow : t >= 0})

(* The counts for "the last 24 hours" never include an older event, and    *)
(* miss none of the last 23 hours: dropping buckets when somebody looks    *)
(* loses nothing that a later report needs.                                *)
ReportsAreRecent ==
    [][\A r \in Readers : reports'[r] # reports[r] =>
          \A c \in Counters :
             /\ reports'[r].recent[c] <= Events(c, now - WindowLength)
             /\ reports'[r].recent[c] >= Events(c, now - WindowLength + HourLength - 1)]_vars

(* What a reader finds in the list while it renders a report: the entries  *)
(* of the report in their order, never with fewer requests than reported.  *)
ViewsNeverLoseHits ==
    \A r \in Readers : reports[r] # NoReport =>
        LET view == Elements(reports[r].ips)
            seen == reports[r].seen
        IN  /\ Len(view) = Len(seen)
            /\ \A i \in DOMAIN seen : /\ view[i].ip = seen[i].ip
                                      /\ view[i].requests >= seen[i].requests
            /\ Requests(view) >= reports[r].hits

=============================================================================
