---------------------------- MODULE ServerProofs ----------------------------
(***************************************************************************)
(* The handlers and their statistics for any requests, over the proof that *)
(* the data service keeps its own invariant: a step of the server is a     *)
(* step of the service or leaves it alone. The counters are the            *)
(* cardinalities of the sets of requests that went into them.              *)
(***************************************************************************)
EXTENDS Server, DataServiceProofs

(* REST and MCP have statistics of their own.                              *)
Interfaces == {"REST", "MCP"}

(* The counters a request has gone into since the process started.         *)
CountersOf(r) ==
    IF r \notin current \/ at[r] \notin {"counted", "done"} THEN {}
    ELSE IF status[r] \in Failures THEN {"HTTPErrors"}
    ELSE IF status[r] \in Successes THEN SuccessCounter(r)
    ELSE IF status[r] = "aborted" /\ req[r].route = "root" THEN {"Downloads", "HTTPErrors"}
    ELSE {}

(* The requests a counter counts.                                          *)
CountedAs(i, c) == {r \in Requests : StatsOf(r) = i /\ c \in CountersOf(r)}

(* Every counter is the number of the requests it counts.                  *)
CountsMatch ==
    \A i \in Interfaces, c \in Counters : stats[i][c] = Cardinality(CountedAs(i, c))

(* The types the steps need.                                               *)
ServerTypes ==
    /\ at \in [Requests -> {"idle", "handling", "counted", "done"}]
    /\ status \in [Requests -> Failures \cup Successes \cup {"none", "ended", "aborted", "lost"}]
    /\ stats \in [Interfaces -> [Counters -> Nat]]
    /\ current \subseteq Requests

(* How far a handler, its call of the service and its answer are.          *)
HandlerOK(r) ==
    /\ at[r] = "idle" => pc[r] = "idle" /\ status[r] = "none" /\ r \notin current
    /\ at[r] = "handling" => pc[r] # "idle" /\ status[r] = "none" /\ r \in current
    /\ at[r] = "counted" =>
          pc[r] = "returned" /\ status[r] \in Failures \cup Successes /\ r \in current
    /\ at[r] = "done" => pc[r] \in {"idle", "returned"} /\ status[r] # "none"
    /\ status[r] \in Successes => Acked(r) /\ pc[r] = "returned"
    /\ r \in current => pc[r] # "idle"
    /\ status[r] \in StatusesOf(req[r]) \cup {"none", "lost"}

(* A reader of a field was answered by what its download returned, and a   *)
(* download that has read ends with an unknown result only in a crash.     *)
ReaderOK(g) ==
    pc[g] = "returned" /\ req[g].op \in Downloading /\ status[g] # "lost" =>
        /\ result[g] = "unknown" => answer[GetCall(g)] # "ok"
        /\ (/\ at[g] \in {"counted", "done"} /\ Acked(g)
            /\ req[g].route \notin {"root", "base64"}
            /\ req[g].route = "plain" => Resolves(Document(g), FieldPath(g)))
              => status[g] \in Successes

(* The inductive invariant.                                                *)
ServerInv ==
    /\ IInv
    /\ ServerTypes
    /\ CountsMatch
    /\ \A r \in Requests : HandlerOK(r) /\ ReaderOK(r)

-----------------------------------------------------------------------------
(* Every step of the server is one of the service, or none.                *)
LEMMA ServerRunsService == ServerNext => [Next]_vars
BY DEF ServerNext, Handle, Accept, ContextEnded, ServiceFails, Acknowledge, ServeValue,
   DecodeFails, TypeAssertionPanics, FieldMissing, RenderFails, Respond, Conclude,
   ServiceStep, ServerCrash, Next

(* A step that counts a request r once more, or not at all.                *)
LEMMA CountsStay ==
    ASSUME ServerTypes, CountsMatch, stats' = stats,
           \A q \in Requests : /\ CountersOf(q)' = CountersOf(q)
                               /\ CountersOf(q) # {} => StatsOf(q)' = StatsOf(q)
    PROVE  CountsMatch'
<1>1. ASSUME NEW i \in Interfaces, NEW c \in Counters
      PROVE  CountedAs(i, c)' = CountedAs(i, c)
  BY DEF CountedAs
<1> QED
  BY <1>1 DEF CountsMatch

(* One request goes into the counters new, the others stay.                *)
LEMMA CountsFollow ==
    ASSUME ServerTypes, CountsMatch, NEW r \in Requests, NEW new \in SUBSET Counters,
           CountersOf(r)' = CountersOf(r) \cup new, new \cap CountersOf(r) = {},
           \A q \in Requests \ {r} : CountersOf(q)' = CountersOf(q),
           \A q \in Requests : StatsOf(q)' = StatsOf(q),
           stats' = [stats EXCEPT ![StatsOf(r)] =
                        [c \in Counters |-> IF c \in new THEN @[c] + 1 ELSE @[c]]]
    PROVE  CountsMatch'
<1>1. SUFFICES ASSUME NEW i \in Interfaces, NEW c \in Counters
               PROVE  stats'[i][c] = Cardinality(CountedAs(i, c)')
  BY DEF CountsMatch
<1>2. stats[i][c] = Cardinality(CountedAs(i, c)) /\ StatsOf(r) \in Interfaces
  BY DEF CountsMatch, StatsOf, Interfaces
<1>3. CASE i = StatsOf(r) /\ c \in new
  <2>1. stats'[i][c] = stats[i][c] + 1
    BY <1>2, <1>3 DEF ServerTypes
  <2>2. CountedAs(i, c)' = CountedAs(i, c) \cup {r} /\ r \notin CountedAs(i, c)
    BY <1>3 DEF CountedAs
  <2>3. IsFiniteSet(CountedAs(i, c))
    <3>1. CountedAs(i, c) \subseteq Requests
      BY DEF CountedAs
    <3> QED
      BY <3>1, ServerAssumption, FS_Subset
  <2>4. Cardinality(CountedAs(i, c) \cup {r}) = Cardinality(CountedAs(i, c)) + 1
    BY <2>2, <2>3, FS_AddElement
  <2> QED
    BY <1>2, <2>1, <2>2, <2>4
<1>4. CASE ~(i = StatsOf(r) /\ c \in new)
  <2>1. stats'[i][c] = stats[i][c]
    BY <1>2, <1>4 DEF ServerTypes
  <2>2. CountedAs(i, c)' = CountedAs(i, c)
    BY <1>4 DEF CountedAs
  <2> QED
    BY <1>2, <2>1, <2>2
<1> QED
  BY <1>3, <1>4

-----------------------------------------------------------------------------
(* What the steps of a handler after the call leave alone.                 *)
LEMMA ServiceRests ==
    ASSUME ServerInv, UNCHANGED vars
    PROVE  /\ IInv'
           /\ req' = req /\ pc' = pc /\ result' = result /\ answer' = answer
           /\ \A q \in Requests : /\ Acked(q)' = Acked(q)
                                  /\ StatsOf(q)' = StatsOf(q)
                                  /\ SuccessCounter(q)' = SuccessCounter(q)
                                  /\ Resolves(Document(q), FieldPath(q))'
                                        = Resolves(Document(q), FieldPath(q))
<1>1. req' = req /\ pc' = pc /\ result' = result /\ answer' = answer /\ seen' = seen /\ args' = args
  BY DEF vars, ownVars, storeVars
<1>2. IInv'
  BY InvariantIsInductive DEF ServerInv
<1> QED
  BY <1>1, <1>2 DEF Acked, StatsOf, IsTool, SuccessCounter, Document, DocumentSeen, FieldPath

(* The statuses of a route.                                                *)
LEMMA KnownStatuses ==
    ASSUME ServerInv, NEW r \in Requests, pc[r] # "idle"
    PROVE  /\ req[r] \in Arrivals
           /\ ErrorStatus(r) \in StatusesOf(req[r]) \cap Failures
           /\ req[r].route \notin FieldRoutes => Success(r) \in StatusesOf(req[r]) \cap Successes
           /\ req[r].route \in FieldRoutes =>
                 /\ {"200", "400", "404"} \subseteq StatusesOf(req[r])
                 /\ SuccessCounter(r) = {"Downloads"}
           /\ req[r].route = "base64" => {"500", "aborted"} \subseteq StatusesOf(req[r])
           /\ req[r].route = "root" =>
                 "aborted" \in StatusesOf(req[r]) /\ SuccessCounter(r) = {"Downloads"}
           /\ SuccessCounter(r) \subseteq Counters
<1>1. req[r] \in Arrivals
  BY DEF ServerInv, IInv, BasicInv, PcOK
<1>2. /\ req[r].route \in HTTPRoutes \cup {"tool"}
      /\ req[r].route \in FieldRoutes \cup {"json", "root"} => req[r].op = "DownloadJSON"
  BY <1>1, ServerAssumption
<1>3. SuccessCounter(r) \subseteq Counters
  BY DEF SuccessCounter, Counters
<1>4. req[r].op = "DownloadJSON" => SuccessCounter(r) = {"Downloads"}
  BY DEF SuccessCounter
<1>5. /\ ErrorStatus(r) \in StatusesOf(req[r]) \cap Failures
      /\ req[r].route \notin FieldRoutes => Success(r) \in StatusesOf(req[r]) \cap Successes
  BY <1>2 DEF ErrorStatus, StatusesOf, Success, IsTool, Failures, Successes, HTTPRoutes,
     FieldRoutes
<1>6. /\ req[r].route \in FieldRoutes => {"200", "400", "404"} \subseteq StatusesOf(req[r])
      /\ req[r].route = "base64" => {"500", "aborted"} \subseteq StatusesOf(req[r])
      /\ req[r].route = "root" => "aborted" \in StatusesOf(req[r])
  BY DEF StatusesOf, FieldRoutes
<1> QED
  BY <1>1, <1>2, <1>3, <1>4, <1>5, <1>6

(* A request other than the one that steps.                                *)
LEMMA OthersStayOK ==
    ASSUME ServerInv, UNCHANGED vars, UNCHANGED current, NEW q \in Requests,
           at'[q] = at[q], status'[q] = status[q]
    PROVE  /\ HandlerOK(q)' /\ ReaderOK(q)'
           /\ CountersOf(q)' = CountersOf(q)
<1>1. /\ req' = req /\ pc' = pc /\ result' = result /\ answer' = answer /\ current' = current
      /\ Acked(q)' = Acked(q) /\ SuccessCounter(q)' = SuccessCounter(q)
      /\ Resolves(Document(q), FieldPath(q))' = Resolves(Document(q), FieldPath(q))
  BY ServiceRests
<1>2. HandlerOK(q)'
  BY <1>1 DEF ServerInv, HandlerOK
<1>3. ReaderOK(q)'
  BY <1>1 DEF ServerInv, ReaderOK
<1>4. CountersOf(q)' = CountersOf(q)
  BY <1>1 DEF CountersOf
<1> QED
  BY <1>2, <1>3, <1>4

(* A handler that counts an outcome: the answer must fit the request.      *)
LEMMA ConcludeStep ==
    ASSUME ServerInv, NEW r \in Requests, Returned(r),
           NEW told \in StatusesOf(req[r]), NEW counted \in SUBSET Counters,
           Conclude(r, told, counted),
           \/ told \in Failures /\ counted = {"HTTPErrors"}
           \/ told \in Successes /\ counted = SuccessCounter(r) /\ Acked(r),
           told \notin Successes /\ Acked(r) /\ req[r].route = "plain" =>
              ~Resolves(Document(r), FieldPath(r)),
           told \notin Successes /\ Acked(r) => req[r].route \in FieldRoutes
    PROVE  ServerInv'
<1>1. /\ UNCHANGED vars /\ current' = current
      /\ at[r] = "handling" /\ pc[r] = "returned"
      /\ at' = [at EXCEPT ![r] = "counted"]
      /\ status' = [status EXCEPT ![r] = told]
      /\ stats' = [stats EXCEPT ![StatsOf(r)] =
                      [c \in Counters |-> IF c \in counted THEN @[c] + 1 ELSE @[c]]]
  BY DEF Conclude, Returned
<1>2. /\ req' = req /\ pc' = pc /\ result' = result /\ answer' = answer /\ IInv'
      /\ Acked(r)' = Acked(r) /\ SuccessCounter(r)' = SuccessCounter(r)
      /\ \A q \in Requests : StatsOf(q)' = StatsOf(q)
      /\ Resolves(Document(r), FieldPath(r))' = Resolves(Document(r), FieldPath(r))
  BY <1>1, ServiceRests
<1>3. ServerTypes'
  BY <1>1 DEF ServerInv, ServerTypes, StatsOf, Interfaces
<1>4. \A q \in Requests \ {r} : at'[q] = at[q] /\ status'[q] = status[q]
  BY <1>1 DEF ServerInv, ServerTypes
<1>5. at'[r] = "counted" /\ status'[r] = told /\ r \in current
  BY <1>1 DEF ServerInv, ServerTypes, HandlerOK
<1>6. HandlerOK(r)'
  <2>1. Failures \cap Successes = {}
    BY DEF Failures, Successes
  <2> QED
    BY <1>1, <1>2, <1>5, <2>1 DEF HandlerOK
<1>7. ReaderOK(r)'
  <2>1. status[r] # "lost"
    BY <1>1 DEF ServerInv, HandlerOK
  <2>2. (result[r] = "unknown" /\ req[r].op \in Downloading) => answer[GetCall(r)] # "ok"
    BY <1>1, <2>1 DEF ServerInv, ReaderOK
  <2>3. told \notin Successes /\ Acked(r) =>
           req[r].route \in {"plain", "base64"} /\
           (req[r].route = "plain" => ~Resolves(Document(r), FieldPath(r)))
    BY DEF FieldRoutes
  <2> QED
    BY <1>1, <1>2, <1>5, <2>2, <2>3 DEF ReaderOK
<1>8. CountersOf(r) = {} /\ CountersOf(r)' = counted
  <2>1. CountersOf(r) = {}
    BY <1>1 DEF CountersOf
  <2>2. Failures \cap Successes = {}
    BY DEF Failures, Successes
  <2> QED
    BY <1>1, <1>2, <1>5, <2>1, <2>2 DEF CountersOf
<1>9. CountsMatch'
  BY <1>1, <1>2, <1>4, <1>8, CountsFollow, OthersStayOK DEF ServerInv
<1>10. \A q \in Requests : HandlerOK(q)' /\ ReaderOK(q)'
  BY <1>1, <1>4, <1>6, <1>7, OthersStayOK
<1> QED
  BY <1>2, <1>3, <1>9, <1>10 DEF ServerInv

(* The steps of a handler that count an outcome.                           *)
LEMMA OutcomeStep ==
    ASSUME ServerInv, NEW r \in Requests,
           \/ ServiceFails(r) \/ Acknowledge(r) \/ ServeValue(r) \/ DecodeFails(r)
           \/ FieldMissing(r)
    PROVE  ServerInv'
<1>1. Returned(r) /\ pc[r] # "idle"
  BY DEF ServiceFails, Acknowledge, ServeValue, DecodeFails, FieldMissing, HasField, Returned
<1>2. /\ ErrorStatus(r) \in StatusesOf(req[r]) \cap Failures
      /\ req[r].route \notin FieldRoutes => Success(r) \in StatusesOf(req[r]) \cap Successes
      /\ req[r].route \in FieldRoutes =>
            {"200", "400", "404"} \subseteq StatusesOf(req[r]) /\ SuccessCounter(r) = {"Downloads"}
      /\ req[r].route = "base64" => {"500", "aborted"} \subseteq StatusesOf(req[r])
      /\ SuccessCounter(r) \subseteq Counters
      /\ {"HTTPErrors"} \subseteq Counters
  BY <1>1, KnownStatuses DEF Counters
<1>3. /\ {"400", "404", "500"} \subseteq Failures /\ "200" \in Successes
      /\ Failures \cap Successes = {}
  BY DEF Failures, Successes
<1>4. CASE ServiceFails(r)
  <2>1. ~Acked(r) /\ Conclude(r, ErrorStatus(r), {"HTTPErrors"})
    BY <1>4 DEF ServiceFails, ServiceSucceeds, Acked
  <2> QED
    BY <1>1, <1>2, <2>1, ConcludeStep
<1>5. CASE Acknowledge(r)
  <2>1. /\ Acked(r) /\ req[r].route \notin FieldRoutes
        /\ Conclude(r, Success(r), SuccessCounter(r))
    BY <1>5 DEF Acknowledge, ServiceSucceeds, Acked
  <2> QED
    BY <1>1, <1>2, <2>1, ConcludeStep
<1>6. CASE ServeValue(r)
  <2>1. /\ Acked(r) /\ req[r].route \in FieldRoutes
        /\ Conclude(r, "200", SuccessCounter(r))
    BY <1>2, <1>6 DEF ServeValue, HasField, ServiceSucceeds, Acked
  <2> QED
    BY <1>1, <1>2, <1>3, <2>1, ConcludeStep
<1>7. CASE DecodeFails(r)
  <2>1. req[r].route = "base64" /\ Conclude(r, "500", {"HTTPErrors"}) /\ req[r].route \in FieldRoutes
    BY <1>7 DEF DecodeFails, HasField
  <2> QED
    BY <1>1, <1>2, <1>3, <2>1, ConcludeStep
<1>8. CASE FieldMissing(r)
  <2>1. PICK told \in {"400", "404"} : Conclude(r, told, {"HTTPErrors"})
    BY <1>8 DEF FieldMissing
  <2>2. req[r].route \in FieldRoutes /\ ~Resolves(Document(r), FieldPath(r))
    BY <1>8 DEF FieldMissing
  <2> QED
    BY <1>1, <1>2, <1>3, <2>1, <2>2, ConcludeStep
<1> QED
  BY <1>4, <1>5, <1>6, <1>7, <1>8

(* The steps that end a request without counting it.                       *)
LEMMA UncountedStep ==
    ASSUME ServerInv, NEW r \in Requests,
           ContextEnded(r) \/ TypeAssertionPanics(r) \/ Respond(r)
    PROVE  ServerInv'
<1>1. PICK told :
      /\ UNCHANGED vars /\ current' = current /\ stats' = stats
      /\ at' = [at EXCEPT ![r] = "done"]
      /\ status' = [status EXCEPT ![r] = told]
      /\ \/ at[r] = "idle" /\ told = "ended"
         \/ at[r] = "handling" /\ pc[r] = "returned" /\ told = "aborted" /\ req[r].route = "base64"
         \/ at[r] = "counted" /\ told = status[r]
  <2>1. CASE ContextEnded(r)
    BY <2>1 DEF ContextEnded
  <2>2. CASE TypeAssertionPanics(r)
    BY <2>2 DEF TypeAssertionPanics, HasField, Returned
  <2>3. CASE Respond(r)
    <3>1. status' = [status EXCEPT ![r] = status[r]]
      BY <2>3 DEF Respond, ServerInv, ServerTypes
    <3> QED
      BY <2>3, <3>1 DEF Respond
  <2> QED
    BY <2>1, <2>2, <2>3
<1>2. /\ req' = req /\ pc' = pc /\ result' = result /\ answer' = answer /\ IInv'
      /\ Acked(r)' = Acked(r) /\ SuccessCounter(r)' = SuccessCounter(r)
      /\ \A q \in Requests : StatsOf(q)' = StatsOf(q)
      /\ Resolves(Document(r), FieldPath(r))' = Resolves(Document(r), FieldPath(r))
  BY <1>1, ServiceRests
<1>3. ServerTypes'
  BY <1>1 DEF ServerInv, ServerTypes
<1>4. \A q \in Requests \ {r} : at'[q] = at[q] /\ status'[q] = status[q]
  BY <1>1 DEF ServerInv, ServerTypes
<1>5. at'[r] = "done" /\ status'[r] = told
  BY <1>1 DEF ServerInv, ServerTypes
<1>6. HandlerOK(r) /\ ReaderOK(r)
  BY DEF ServerInv
<1>7. HandlerOK(r)' /\ ReaderOK(r)' /\ CountersOf(r)' = CountersOf(r)
  <2>1. CASE at[r] = "idle" /\ told = "ended"
    <3>1. pc[r] = "idle" /\ r \notin current
      BY <1>6, <2>1 DEF HandlerOK
    <3>2. req[r].route = "none" /\ "ended" \in StatusesOf(req[r])
      BY <3>1 DEF ServerInv, IInv, BasicInv, PcOK, NoRequest, StatusesOf
    <3>3. HandlerOK(r)'
      BY <1>1, <1>2, <1>5, <2>1, <3>1, <3>2 DEF HandlerOK, Successes
    <3> QED
      BY <1>1, <1>2, <1>5, <3>1, <3>3 DEF ReaderOK, CountersOf
  <2>2. CASE /\ at[r] = "handling" /\ pc[r] = "returned" /\ told = "aborted"
             /\ req[r].route = "base64"
    <3>1. status[r] # "lost" /\ "aborted" \in StatusesOf(req[r])
      BY <1>6, <2>2, KnownStatuses DEF HandlerOK
    <3>2. HandlerOK(r)'
      BY <1>1, <1>2, <1>5, <1>6, <2>2, <3>1 DEF HandlerOK, Successes
    <3>3. ReaderOK(r)'
      BY <1>1, <1>2, <1>5, <1>6, <2>2, <3>1 DEF ReaderOK
    <3>4. CountersOf(r)' = CountersOf(r)
      BY <1>1, <1>2, <1>5, <2>2 DEF CountersOf, Failures, Successes
    <3> QED
      BY <3>2, <3>3, <3>4
  <2>3. CASE at[r] = "counted" /\ told = status[r]
    <3>1. status[r] \in Failures \cup Successes /\ status[r] # "none" /\ pc[r] = "returned"
      BY <1>6, <2>3 DEF HandlerOK, Failures, Successes
    <3>2. HandlerOK(r)'
      BY <1>1, <1>2, <1>5, <1>6, <2>3, <3>1 DEF HandlerOK
    <3>3. ReaderOK(r)'
      BY <1>1, <1>2, <1>5, <1>6, <2>3, <3>1 DEF ReaderOK
    <3>4. CountersOf(r)' = CountersOf(r)
      BY <1>1, <1>2, <1>5, <2>3 DEF CountersOf
    <3> QED
      BY <3>2, <3>3, <3>4
  <2> QED
    BY <1>1, <2>1, <2>2, <2>3
<1>8. CountsMatch'
  BY <1>1, <1>2, <1>4, <1>7, CountsStay, OthersStayOK DEF ServerInv
<1>9. \A q \in Requests : HandlerOK(q)' /\ ReaderOK(q)'
  BY <1>1, <1>4, <1>7, OthersStayOK
<1> QED
  BY <1>2, <1>3, <1>8, <1>9 DEF ServerInv

(* A page that cannot be rendered was counted as a download before.        *)
LEMMA RenderFailsStep ==
    ASSUME ServerInv, NEW r \in Requests, RenderFails(r)
    PROVE  ServerInv'
<1>1. /\ UNCHANGED vars /\ current' = current
      /\ at[r] = "counted" /\ req[r].route = "root" /\ status[r] = "200"
      /\ at' = [at EXCEPT ![r] = "done"]
      /\ status' = [status EXCEPT ![r] = "aborted"]
      /\ stats' = [stats EXCEPT ![StatsOf(r)]["HTTPErrors"] = @ + 1]
  BY DEF RenderFails
<1>2. /\ req' = req /\ pc' = pc /\ result' = result /\ answer' = answer /\ IInv'
      /\ Acked(r)' = Acked(r) /\ SuccessCounter(r)' = SuccessCounter(r)
      /\ \A q \in Requests : StatsOf(q)' = StatsOf(q)
  BY <1>1, ServiceRests
<1>3. StatsOf(r) \in Interfaces
  BY DEF StatsOf, Interfaces
<1>4. stats' = [stats EXCEPT ![StatsOf(r)] =
                    [c \in Counters |-> IF c \in {"HTTPErrors"} THEN @[c] + 1 ELSE @[c]]]
  <2>1. stats[StatsOf(r)] \in [Counters -> Nat]
    BY <1>3 DEF ServerInv, ServerTypes
  <2>2. [stats[StatsOf(r)] EXCEPT !["HTTPErrors"] = stats[StatsOf(r)]["HTTPErrors"] + 1]
          = [c \in Counters |-> IF c \in {"HTTPErrors"} THEN stats[StatsOf(r)][c] + 1
                                                        ELSE stats[StatsOf(r)][c]]
    BY <2>1
  <2> QED
    BY <1>1, <2>2
<1>5. ServerTypes'
  <2>1. stats[StatsOf(r)] \in [Counters -> Nat]
    BY <1>3 DEF ServerInv, ServerTypes
  <2>2. [c \in Counters |-> IF c \in {"HTTPErrors"} THEN stats[StatsOf(r)][c] + 1
                                                   ELSE stats[StatsOf(r)][c]]
          \in [Counters -> Nat]
    BY <2>1
  <2>3. stats' \in [Interfaces -> [Counters -> Nat]]
    BY <1>3, <1>4, <2>2 DEF ServerInv, ServerTypes
  <2> QED
    BY <1>1, <2>3 DEF ServerInv, ServerTypes
<1>6. \A q \in Requests \ {r} : at'[q] = at[q] /\ status'[q] = status[q]
  BY <1>1 DEF ServerInv, ServerTypes
<1>7. at'[r] = "done" /\ status'[r] = "aborted"
  BY <1>1 DEF ServerInv, ServerTypes
<1>8. HandlerOK(r) /\ ReaderOK(r) /\ pc[r] = "returned" /\ r \in current
  BY <1>1 DEF ServerInv, HandlerOK
<1>9. "aborted" \in StatusesOf(req[r]) /\ SuccessCounter(r) = {"Downloads"}
  BY <1>1, <1>8, KnownStatuses
<1>10. HandlerOK(r)' /\ ReaderOK(r)'
  <2>1. HandlerOK(r)'
    BY <1>1, <1>2, <1>7, <1>8, <1>9 DEF HandlerOK, Successes
  <2>2. ReaderOK(r)'
    BY <1>1, <1>2, <1>7, <1>8 DEF ReaderOK
  <2> QED
    BY <2>1, <2>2
<1>11. CountersOf(r) = {"Downloads"} /\ CountersOf(r)' = {"Downloads", "HTTPErrors"}
  <2>1. CountersOf(r) = {"Downloads"}
    BY <1>1, <1>8, <1>9 DEF CountersOf, Failures, Successes
  <2>2. CountersOf(r)' = {"Downloads", "HTTPErrors"}
    BY <1>1, <1>2, <1>7, <1>8 DEF CountersOf, Failures, Successes
  <2> QED
    BY <2>1, <2>2
<1>12. CountsMatch'
  <2>1. \A q \in Requests \ {r} : CountersOf(q)' = CountersOf(q)
    BY <1>1, <1>6, OthersStayOK
  <2>2. {"HTTPErrors"} \in SUBSET Counters
    BY DEF Counters
  <2> QED
    BY <1>2, <1>4, <1>11, <2>1, <2>2, CountsFollow DEF ServerInv
<1>13. \A q \in Requests : HandlerOK(q)' /\ ReaderOK(q)'
  BY <1>1, <1>6, <1>10, OthersStayOK
<1> QED
  BY <1>2, <1>5, <1>12, <1>13 DEF ServerInv

-----------------------------------------------------------------------------
(* A request the service has answered stays as it is while others go on.   *)
LEMMA AnsweredStaysOK ==
    ASSUME ServerInv, Next, NEW q \in Requests, pc[q] = "returned",
           at'[q] = at[q], status'[q] = status[q], at[q] \in {"handling", "counted"} => q \in current'
    PROVE  HandlerOK(q)' /\ ReaderOK(q)' /\ req'[q] = req[q] /\ SuccessCounter(q)' = SuccessCounter(q)
<1>1. BasicInv /\ Kept
  BY NextKeepsBasics DEF ServerInv, IInv
<1>2. req'[q] = req[q] /\ pc'[q] = "returned" /\ result'[q] = result[q]
  BY <1>1 DEF Kept
<1>3. HandlerOK(q)'
  BY <1>2 DEF ServerInv, HandlerOK, Acked
<1>4. ReaderOK(q)'
  <2>1. SUFFICES ASSUME req[q].op \in Downloading PROVE ReaderOK(q)'
    BY <1>2 DEF ReaderOK
  <2>2. answer'[GetCall(q)] = answer[GetCall(q)]
    <3>1. answer[GetCall(q)] # "none" /\ GetCall(q) \in Calls
      BY <2>1, CallIdentities DEF ServerInv, IInv, DownloadsOK
    <3> QED
      BY <1>1, <3>1, AnswersStay
  <2>3. Acked(q) => Resolves(Document(q), FieldPath(q))' = Resolves(Document(q), FieldPath(q))
    <3>1. Acked(q) => effect[GetCall(q)] = "applied"
      BY <1>1, <2>1 DEF BasicInv, ResultOK, Acked
    <3>2. FieldPath(q)' = FieldPath(q)
      BY <1>2 DEF FieldPath
    <3> QED
      BY <1>1, <3>1, <3>2, DocumentSeenStays DEF Document
  <2> QED
    BY <1>2, <2>2, <2>3 DEF ServerInv, ReaderOK, Acked
<1> QED
  BY <1>2, <1>3, <1>4 DEF SuccessCounter

(* A request comes in and its handler calls the service.                   *)
LEMMA AcceptStep ==
    ASSUME ServerInv, NEW r \in Requests, Accept(r)
    PROVE  ServerInv'
<1>1. /\ at[r] = "idle" /\ Arrive(r) /\ Next
      /\ at' = [at EXCEPT ![r] = "handling"]
      /\ current' = current \cup {r} /\ status' = status /\ stats' = stats
  BY DEF Accept, Next
<1>2. IInv' /\ Kept
  BY <1>1, InvariantIsInductive, NextKeepsBasics DEF ServerInv, IInv
<1>3. /\ pc[r] = "idle" /\ pc'[r] # "idle"
      /\ \A q \in Requests \ {r} : pc'[q] = pc[q] /\ req'[q] = req[q] /\ result'[q] = result[q]
  BY <1>1 DEF Arrive, RejectKey, Upload, Delete, Read, Made, Return, Continue, ServerInv, IInv,
     BasicInv, Types
<1>4. ServerTypes'
  BY <1>1 DEF ServerInv, ServerTypes
<1>5. at'[r] = "handling" /\ \A q \in Requests \ {r} : at'[q] = at[q]
  BY <1>1 DEF ServerInv, ServerTypes
<1>6. status[r] = "none" /\ r \notin current
  BY <1>1 DEF ServerInv, HandlerOK
<1>7. HandlerOK(r)'
  BY <1>1, <1>3, <1>5, <1>6 DEF HandlerOK, Successes
<1>8. ReaderOK(r)'
  <2>1. SUFFICES ASSUME pc'[r] = "returned", req'[r].op \in Downloading PROVE FALSE
    BY <1>5 DEF ReaderOK
  <2>2. PICK request \in Arrivals : RejectKey(r, request) /\ req'[r] = request
    BY <1>1, <2>1 DEF Arrive, RejectKey, Upload, Delete, Read, Made, Continue, ServerInv, IInv,
       BasicInv, Types
  <2> QED
    BY <2>1, <2>2 DEF RejectKey, AcceptsKey, Writing, Downloading
<1>9. ASSUME NEW q \in Requests \ {r} PROVE HandlerOK(q)' /\ ReaderOK(q)'
  <2>1. CASE pc[q] = "returned"
    BY <1>1, <1>5, <2>1, AnsweredStaysOK DEF ServerInv, HandlerOK
  <2>2. CASE pc[q] # "returned"
    <3>1. ReaderOK(q)'
      BY <1>3, <2>2 DEF ReaderOK
    <3>2. HandlerOK(q)'
      BY <1>1, <1>3, <1>5 DEF ServerInv, HandlerOK, Acked
    <3> QED
      BY <3>1, <3>2
  <2> QED
    BY <2>1, <2>2
<1>10. CountsMatch'
  <2>1. ASSUME NEW q \in Requests \ {r}
        PROVE  CountersOf(q)' = CountersOf(q) /\ StatsOf(q)' = StatsOf(q)
    <3>1. req'[q] = req[q]
      BY <1>3
    <3>2. SuccessCounter(q)' = SuccessCounter(q) /\ StatsOf(q)' = StatsOf(q)
      BY <3>1 DEF SuccessCounter, StatsOf, IsTool
    <3> QED
      BY <1>1, <1>5, <3>1, <3>2 DEF CountersOf
  <2>2. CountersOf(r) = {} /\ CountersOf(r)' = {}
    BY <1>1, <1>5 DEF CountersOf
  <2> QED
    BY <1>1, <2>1, <2>2, CountsStay DEF ServerInv
<1> QED
  BY <1>2, <1>4, <1>7, <1>8, <1>9, <1>10 DEF ServerInv

(* The service and the store go on.                                        *)
LEMMA ServiceStepStep ==
    ASSUME ServerInv, ServiceStep
    PROVE  ServerInv'
<1>1. /\ Next /\ at' = at /\ status' = status /\ stats' = stats /\ current' = current
      /\ \/ \E r \in Requests : RequestStep(r)
         \/ UNCHANGED ownVars
  BY DEF ServiceStep, Next, StoreStep, Tick
<1>2. IInv' /\ Kept /\ BasicInv
  BY <1>1, InvariantIsInductive, NextKeepsBasics DEF ServerInv, IInv
<1>3. ServerTypes'
  BY <1>1 DEF ServerInv, ServerTypes
<1>4. ASSUME NEW q \in Requests PROVE pc[q] = "idle" => pc'[q] = "idle" /\ req'[q] = req[q]
  BY <1>1, <1>2 DEF ownVars, RequestStep, MergeAndStore, AnswerDownload, ReadFails, AnswerWrite,
     Return, Continue, BasicInv, Types
<1>5. \A q \in Requests : req'[q] = req[q]
  BY <1>2, <1>4 DEF Kept
<1>6. ASSUME NEW q \in Requests PROVE HandlerOK(q)' /\ ReaderOK(q)'
  <2>1. CASE pc[q] = "returned"
    BY <1>1, <2>1, AnsweredStaysOK DEF ServerInv, HandlerOK
  <2>2. CASE pc[q] = "idle"
    <3>1. HandlerOK(q)'
      BY <1>1, <1>4, <1>5, <2>2 DEF ServerInv, HandlerOK
    <3> QED
      BY <1>4, <2>2, <3>1 DEF ReaderOK
  <2>3. CASE pc[q] \in {"get", "put"}
    <3>1. at[q] = "handling" /\ pc'[q] # "idle"
      BY <1>2, <2>3 DEF ServerInv, HandlerOK, ServerTypes, Kept
    <3>2. HandlerOK(q)'
      BY <1>1, <1>5, <3>1 DEF ServerInv, HandlerOK, Successes
    <3>3. ASSUME pc'[q] = "returned", req[q].op \in Downloading, result'[q] = "unknown"
          PROVE  answer'[GetCall(q)] # "ok"
      <4>1. pc[q] = "get"
        BY <1>2, <2>3, <3>3 DEF BasicInv, PcOK, PutOK, Writing, Downloading
      <4>2. AnswerDownload(q) \/ ReadFails(q)
        BY <1>1, <1>2, <3>3, <4>1 DEF ownVars, RequestStep, MergeAndStore, AnswerDownload,
           ReadFails, AnswerWrite, Return, Continue, BasicInv, Types
      <4>3. ReadFails(q)
        BY <1>2, <3>3, <4>2 DEF AnswerDownload, Return, BasicInv, Types
      <4> QED
        BY <4>3 DEF ReadFails, storeVars
    <3> QED
      BY <1>1, <1>5, <3>1, <3>2, <3>3 DEF ReaderOK
  <2> QED
    BY <1>2, <2>1, <2>2, <2>3 DEF BasicInv, Types
<1>7. CountsMatch'
  <2>1. ASSUME NEW q \in Requests
        PROVE  CountersOf(q)' = CountersOf(q) /\ StatsOf(q)' = StatsOf(q)
    <3>1. SuccessCounter(q)' = SuccessCounter(q) /\ StatsOf(q)' = StatsOf(q)
      BY <1>5 DEF SuccessCounter, StatsOf, IsTool
    <3> QED
      BY <1>1, <1>5, <3>1 DEF CountersOf
  <2> QED
    BY <1>1, <2>1, CountsStay DEF ServerInv
<1> QED
  BY <1>2, <1>3, <1>6, <1>7 DEF ServerInv

(* A crash of the process: the counters start again, with no request.      *)
LEMMA ServerCrashStep ==
    ASSUME ServerInv, ServerCrash
    PROVE  ServerInv'
<1>1. /\ Next /\ Crash
      /\ at' = [r \in Requests |-> IF r \in Unanswered THEN "done" ELSE at[r]]
      /\ status' = [r \in Requests |-> IF r \in Unanswered THEN "lost" ELSE status[r]]
      /\ stats' = [i \in Interfaces |-> NoStats] /\ current' = {}
  BY DEF ServerCrash, Next, Interfaces
<1>2. IInv' /\ Kept /\ BasicInv
  BY <1>1, InvariantIsInductive, NextKeepsBasics DEF ServerInv, IInv
<1>3. ServerTypes'
  BY <1>1 DEF ServerInv, ServerTypes, NoStats
<1>4. ASSUME NEW q \in Requests
      PROVE  /\ pc[q] = "idle" => pc'[q] = "idle"
             /\ pc[q] # "idle" => pc'[q] = "returned"
             /\ req'[q] = req[q]
  BY <1>1, <1>2 DEF Crash, InService, BasicInv, Types
<1>5. ASSUME NEW q \in Requests PROVE HandlerOK(q)' /\ ReaderOK(q)'
  <2>1. CASE q \in Unanswered
    <3>1. at'[q] = "done" /\ status'[q] = "lost"
      BY <1>1, <2>1
    <3>2. pc'[q] = "returned" \/ pc'[q] = "idle"
      BY <1>4
    <3> QED
      BY <1>1, <3>1, <3>2 DEF HandlerOK, ReaderOK, Successes
  <2>2. CASE q \notin Unanswered
    <3>1. at'[q] = at[q] /\ status'[q] = status[q] /\ at[q] \in {"idle", "done"}
      BY <1>1, <2>2 DEF ServerInv, ServerTypes, Unanswered
    <3>2. CASE pc[q] = "returned"
      BY <1>1, <3>1, <3>2, AnsweredStaysOK
    <3>3. CASE pc[q] = "idle"
      <4>1. HandlerOK(q)'
        BY <1>1, <1>4, <3>1, <3>3 DEF ServerInv, HandlerOK
      <4> QED
        BY <1>4, <3>3, <4>1 DEF ReaderOK
    <3> QED
      BY <3>1, <3>2, <3>3 DEF ServerInv, HandlerOK
  <2> QED
    BY <2>1, <2>2
<1>6. CountsMatch'
  <2>1. ASSUME NEW i \in Interfaces, NEW c \in Counters
        PROVE  stats'[i][c] = Cardinality(CountedAs(i, c)')
    <3>1. CountedAs(i, c)' = {}
      BY <1>1 DEF CountedAs, CountersOf
    <3> QED
      BY <1>1, <3>1, FS_EmptySet DEF NoStats
  <2> QED
    BY <2>1 DEF CountsMatch
<1> QED
  BY <1>2, <1>3, <1>5, <1>6 DEF ServerInv

(* Handlers, service and counters agree in every run (uploadHandler.go,    *)
(* downloadHandler.go, tools.go): nothing is counted twice.                *)
THEOREM ServerInvariant == ServerSpec => []ServerInv
<1>1. ServerInit => ServerInv
  <2> SUFFICES ASSUME ServerInit PROVE ServerInv
    OBVIOUS
  <2>1. IInv
    BY InitialInvariant DEF ServerInit
  <2>2. \A r \in Requests : /\ pc[r] = "idle" /\ at[r] = "idle" /\ status[r] = "none"
    BY DEF ServerInit, Init
  <2>3. ServerTypes
    BY DEF ServerInit, ServerTypes, Interfaces, NoStats
  <2>4. CountsMatch
    <3>1. ASSUME NEW i \in Interfaces, NEW c \in Counters
          PROVE  stats[i][c] = 0 /\ CountedAs(i, c) = {}
      BY <2>2 DEF ServerInit, CountedAs, CountersOf, Interfaces, NoStats
    <3> QED
      BY <3>1, FS_EmptySet DEF CountsMatch
  <2>5. \A r \in Requests : HandlerOK(r) /\ ReaderOK(r)
    BY <2>2 DEF HandlerOK, ReaderOK, Successes, ServerInit
  <2> QED
    BY <2>1, <2>3, <2>4, <2>5 DEF ServerInv
<1>2. ServerInv /\ [ServerNext]_serverVars => ServerInv'
  <2> SUFFICES ASSUME ServerInv, [ServerNext]_serverVars PROVE ServerInv'
    OBVIOUS
  <2>1. ASSUME NEW r \in Requests, Handle(r) PROVE ServerInv'
    BY <2>1, AcceptStep, OutcomeStep, UncountedStep, RenderFailsStep DEF Handle
  <2>2. CASE UNCHANGED serverVars
    <3>1. UNCHANGED vars /\ at' = at /\ status' = status /\ stats' = stats /\ current' = current
      BY <2>2 DEF serverVars
    <3>2. IInv'
      BY <3>1, ServiceRests
    <3>3. ServerTypes' 
      BY <3>1 DEF ServerInv, ServerTypes
    <3>4. \A q \in Requests : HandlerOK(q)' /\ ReaderOK(q)' /\ CountersOf(q)' = CountersOf(q)
      BY <3>1, OthersStayOK
    <3>5. CountsMatch'
      BY <3>1, <3>4, ServiceRests, CountsStay DEF ServerInv
    <3> QED
      BY <3>2, <3>3, <3>4, <3>5 DEF ServerInv
  <2> QED
    BY <2>1, <2>2, ServiceStepStep, ServerCrashStep DEF ServerNext
<1> QED
  BY <1>1, <1>2, PTL DEF ServerSpec

(* The data service behind the handlers is the one DataService specifies:  *)
(* what was proved of it holds of the server.                              *)
THEOREM ServerRuns == ServerSpec => Spec
<1>1. ServerInit => Init
  BY DEF ServerInit
<1>2. [ServerNext]_serverVars => [Next]_vars
  BY ServerRunsService DEF serverVars
<1> QED
  BY <1>1, <1>2, PTL DEF ServerSpec, Spec

-----------------------------------------------------------------------------
(* A request counts for the interface it came in by.                       *)
LEMMA OwnStatistics ==
    ASSUME NEW i \in Interfaces, NEW r
    PROVE  StatsOf(r) = i <=> (IsTool(r) = (i = "MCP"))
<1>1. IsTool(r) \in BOOLEAN /\ "MCP" # "REST"
  BY DEF IsTool
<1>2. CASE i = "MCP"
  BY <1>1, <1>2 DEF StatsOf
<1>3. CASE i = "REST"
  BY <1>1, <1>3 DEF StatsOf
<1> QED
  BY <1>2, <1>3 DEF Interfaces

(* Counters never exceed the number of requests.                           *)
LEMMA CountedAsIsFinite ==
    ASSUME NEW i, NEW c
    PROVE  /\ IsFiniteSet(CountedAs(i, c))
           /\ Cardinality(CountedAs(i, c)) \in 0..Cardinality(Requests)
<1>1. CountedAs(i, c) \subseteq Requests
  BY DEF CountedAs
<1>2. IsFiniteSet(CountedAs(i, c)) /\ Cardinality(CountedAs(i, c)) <= Cardinality(Requests)
  BY <1>1, ServerAssumption, FS_Subset
<1> QED
  BY <1>2, ServerAssumption, FS_CardinalityType

(* Statuses are ones the route of a request can give, and counters are     *)
(* natural numbers.                                                        *)
THEOREM ServerTypeCorrect == ServerSpec => []ServerTypeOK
<1>1. ServerInv => ServerTypeOK
  <2> SUFFICES ASSUME ServerInv PROVE ServerTypeOK
    OBVIOUS
  <2>1. stats \in [Interfaces -> [Counters -> 0..2 * Cardinality(Requests)]]
    <3>1. Cardinality(Requests) \in Nat
      BY ServerAssumption, FS_CardinalityType
    <3>2. \A i \in Interfaces, c \in Counters : stats[i][c] \in 0..2 * Cardinality(Requests)
      BY <3>1, CountedAsIsFinite DEF ServerInv, CountsMatch
    <3> QED
      BY <3>2 DEF ServerInv, ServerTypes
  <2>2. TypeOK
    BY TypesFollow DEF ServerInv
  <2> QED
    BY <2>1, <2>2 DEF ServerInv, ServerTypes, HandlerOK, ServerTypeOK, Interfaces
<1> QED
  BY <1>1, ServerInvariant, PTL

(* Uploads are counted between being told and having been applied.         *)
THEOREM UploadsStored == ServerSpec => []UploadsWereStored
<1>1. ServerInv => UploadsWereStored
  <2> SUFFICES ASSUME ServerInv PROVE UploadsWereStored
    OBVIOUS
  <2> SUFFICES ASSUME NEW i \in Interfaces
               PROVE  LET writes == Served(i, {"Upload", "Patch"}) IN
                      /\ Cardinality(Told(writes, Successes)) <= stats[i]["Uploads"]
                      /\ stats[i]["Uploads"] <= Cardinality({r \in writes : Applied(r)})
    BY DEF UploadsWereStored, Interfaces
  <2> DEFINE writes == Served(i, {"Upload", "Patch"})
             applied == {r \in writes : Applied(r)}
  <2>1. current \subseteq Requests /\ \A r \in Requests : HandlerOK(r)
    BY DEF ServerInv, ServerTypes
  <2>2. \A r \in Requests : StatsOf(r) = i <=> IsTool(r) = (i = "MCP")
    BY OwnStatistics
  <2>3. Told(writes, Successes) \subseteq CountedAs(i, "Uploads")
    <3>1. ASSUME NEW r \in Told(writes, Successes) PROVE r \in CountedAs(i, "Uploads")
      <4>1. /\ r \in current /\ r \in Requests /\ at[r] = "done" /\ status[r] \in Successes
            /\ req[r].op \in {"Upload", "Patch"} /\ StatsOf(r) = i
        BY <2>1, <2>2 DEF Told, Served
      <4>2. CountersOf(r) = {"Uploads"}
        BY <4>1 DEF CountersOf, SuccessCounter, Failures, Successes
      <4> QED
        BY <4>1, <4>2 DEF CountedAs
    <3> QED
      BY <3>1
  <2>4. CountedAs(i, "Uploads") \subseteq applied
    <3>1. ASSUME NEW r \in CountedAs(i, "Uploads") PROVE r \in applied
      <4>1. r \in Requests /\ StatsOf(r) = i /\ "Uploads" \in CountersOf(r)
        BY DEF CountedAs
      <4>2. r \in current /\ status[r] \in Successes /\ "Uploads" \in SuccessCounter(r)
        BY <4>1 DEF CountersOf
      <4>3. req[r].op \in {"Upload", "Patch"}
        BY <4>2 DEF SuccessCounter
      <4>4. Acked(r)
        BY <2>1, <4>1, <4>2 DEF HandlerOK
      <4>5. Applied(r)
        BY <4>1, <4>3, <4>4 DEF ServerInv, IInv, BasicInv, ResultOK, Writing
      <4> QED
        BY <2>2, <4>1, <4>2, <4>3, <4>5 DEF Served
    <3> QED
      BY <3>1
  <2>5. stats[i]["Uploads"] = Cardinality(CountedAs(i, "Uploads"))
    BY DEF ServerInv, CountsMatch, Counters
  <2>6. IsFiniteSet(applied)
    <3>1. applied \subseteq Requests
      BY <2>1 DEF Served
    <3> QED
      BY <3>1, ServerAssumption, FS_Subset
  <2>7. Cardinality(Told(writes, Successes)) <= Cardinality(CountedAs(i, "Uploads"))
    BY <2>3, CountedAsIsFinite, FS_Subset
  <2>8. Cardinality(CountedAs(i, "Uploads")) <= Cardinality(applied)
    BY <2>4, <2>6, FS_Subset
  <2> QED
    BY <2>5, <2>7, <2>8
<1> QED
  BY <1>1, ServerInvariant, PTL

(* The error counters are the requests that were answered with an error or *)
(* are about to be, and the pages broken off while rendering               *)
(* (downloadHandler.go:119-186).                                           *)
THEOREM ErrorsCounted == ServerSpec => []ErrorsMatchAnswers
<1>1. ServerInv => ErrorsMatchAnswers
  <2> SUFFICES ASSUME ServerInv PROVE ErrorsMatchAnswers
    OBVIOUS
  <2> SUFFICES ASSUME NEW i \in Interfaces
               PROVE  LET all == Served(i, Writing \cup Downloading)
                          told == Told(all, Failures)
                          pending == {r \in all : at[r] = "counted" /\ status[r] \in Failures}
                          brokenPages == {r \in Told(all, {"aborted"}) : req[r].route = "root"}
                      IN  stats[i]["HTTPErrors"] = Cardinality(told \cup pending \cup brokenPages)
    BY DEF ErrorsMatchAnswers, Interfaces
  <2> DEFINE all == Served(i, Writing \cup Downloading)
             told == Told(all, Failures)
             pending == {r \in all : at[r] = "counted" /\ status[r] \in Failures}
             brokenPages == {r \in Told(all, {"aborted"}) : req[r].route = "root"}
  <2>1. stats[i]["HTTPErrors"] = Cardinality(CountedAs(i, "HTTPErrors"))
    BY DEF ServerInv, CountsMatch, Counters
  <2>2. current \subseteq Requests /\ \A r \in Requests : HandlerOK(r)
    BY DEF ServerInv, ServerTypes
  <2>3. \A r \in Requests : StatsOf(r) = i <=> IsTool(r) = (i = "MCP")
    BY OwnStatistics
  <2>4. ASSUME NEW r \in current
        PROVE  r \in Requests /\ (r \in all <=> StatsOf(r) = i)
    <3>1. r \in Requests /\ pc[r] # "idle"
      BY <2>2 DEF HandlerOK
    <3>2. req[r].op \in Writing \cup Downloading
      BY <3>1, KeysOfArrivals DEF ServerInv, IInv, BasicInv, PcOK
    <3> QED
      BY <2>3, <3>1, <3>2 DEF Served
  <2>5. ASSUME NEW r \in current
        PROVE  "HTTPErrors" \in CountersOf(r)
                 <=> \/ at[r] = "done" /\ status[r] \in Failures
                     \/ at[r] = "counted" /\ status[r] \in Failures
                     \/ at[r] = "done" /\ status[r] = "aborted" /\ req[r].route = "root"
    <3>1. "HTTPErrors" \notin SuccessCounter(r)
      BY DEF SuccessCounter
    <3>2. at[r] = "counted" => status[r] \in Failures \cup Successes
      BY <2>2, <2>4 DEF HandlerOK
    <3>3. "aborted" \notin Failures \cup Successes /\ Failures \cap Successes = {}
      BY DEF Failures, Successes
    <3> QED
      BY <3>1, <3>2, <3>3 DEF CountersOf
  <2>6. \A r \in Requests : "HTTPErrors" \in CountersOf(r) => r \in current
    BY DEF CountersOf
  <2>7. CountedAs(i, "HTTPErrors") = told \cup pending \cup brokenPages
    <3>1. \A r \in told \cup pending \cup brokenPages : r \in current /\ r \in all
      BY DEF Told, Served
    <3>2. \A r \in CountedAs(i, "HTTPErrors") : r \in told \cup pending \cup brokenPages
      BY <2>4, <2>5, <2>6 DEF CountedAs, Told
    <3>3. \A r \in told \cup pending \cup brokenPages : r \in CountedAs(i, "HTTPErrors")
      BY <2>4, <2>5, <3>1 DEF CountedAs, Told
    <3> QED
      BY <3>2, <3>3
  <2> QED
    BY <2>1, <2>7
<1> QED
  BY <1>1, ServerInvariant, PTL

-----------------------------------------------------------------------------
(* Either form of a download key leads to the document it was handed out   *)
(* for.                                                                    *)
LEMMA HandedOutLeadsBack ==
    ASSUME ServerInv, NEW w \in Requests, NEW g \in Requests,
           req[w].op \in {"Upload", "Patch"}, Acked(w), pc[w] = "returned",
           req[g].op \in Downloading, req[g].key \in HandedOut(w)
    PROVE  SameData(w, g)
<1>1. AcceptsKey(req[w])
  BY DEF ServerInv, IInv, KeysOK, Acked
<1>2. StripUploadPrefix(req[w].key) \in Seq(Parts)
  BY <1>1, KeyPairsAssumption DEF AcceptsKey, ValidateUploadKey, Writing
<1>3. StripDownloadPrefix(req[g].key) = DeriveDownloadKey(req[w].key)
  BY <1>2, StripOfDownloadKey DEF HandedOut, DeriveDownloadKey
<1>4. StoreKey(req[w]) = DeriveDownloadKey(req[w].key)
  BY DEF StoreKey, Writing
<1>5. StoreKey(req[g]) = StripDownloadPrefix(req[g].key)
  BY DEF StoreKey, Writing, Downloading
<1> QED
  BY <1>3, <1>4, <1>5 DEF SameData

(* The field path of a request for one part leads to what was written.     *)
LEMMA FieldPathLeadsToField ==
    ASSUME NEW w, NEW g, req[w] \in Arrivals, req[g].field = req[w].field,
           Len(req[w].field.key) = 1
    PROVE  Node(g) = Written(w)
<1>1. PICK path \in Seq(STRING) : path = req[w].field.path
  BY DataServiceAssumption
<1>2. PICK key \in Seq(STRING) : key = req[w].field.key
  BY DataServiceAssumption
<1>3. PICK segments : segments = PathSegments(path)
  OBVIOUS
<1>4. segments \in Seq(Seq(STRING)) /\ \A i \in DOMAIN segments : Len(segments[i]) = 1
  <2>1. CASE path = EmptyString
    BY <1>3, <2>1 DEF PathSegments
  <2>2. CASE path # EmptyString
    <3>1. segments = [i \in 1..Len(path) |-> <<path[i]>>]
      BY <1>3, <2>2 DEF PathSegments, Split
    <3>2. \A i \in 1..Len(path) : path[i] \in STRING /\ <<path[i]>> \in Seq(STRING)
      OBVIOUS
    <3>3. segments \in Seq(Seq(STRING))
      BY <3>1, <3>2
    <3> QED
      BY <3>1, <3>3
  <2> QED
    BY <2>1, <2>2
<1>5. PICK node : node = Append(segments, key)
  OBVIOUS
<1>6. /\ node \in Seq(Seq(STRING)) /\ node # <<>>
      /\ \A i \in DOMAIN node : Len(node[i]) = 1
  <2>1. Len(key) = 1
    BY <1>2
  <2>2. node \in Seq(Seq(STRING)) /\ Len(node) = Len(segments) + 1
    BY <1>4, <1>5
  <2>3. \A i \in 1..Len(node) : node[i] = IF i = Len(node) THEN key ELSE segments[i]
    BY <1>4, <1>5
  <2>4. DOMAIN node = 1..Len(node) /\ DOMAIN segments = 1..Len(segments) /\ Len(segments) \in Nat
    BY <1>4, <2>2
  <2>5. ASSUME NEW i \in 1..Len(node) PROVE Len(node[i]) = 1
    <3>1. CASE i = Len(node)
      BY <2>1, <2>3, <3>1
    <3>2. CASE i # Len(node)
      <4>1. i \in DOMAIN segments /\ node[i] = segments[i]
        BY <2>2, <2>3, <2>4, <3>2
      <4> QED
        BY <1>4, <4>1
    <3> QED
      BY <3>1, <3>2
  <2>6. node # <<>>
    BY <2>2, <2>4
  <2> QED
    BY <2>2, <2>4, <2>5, <2>6
<1>7. Split(Join(node)) = node
  BY <1>6, SplitOfJoin
<1> QED
  BY <1>1, <1>2, <1>3, <1>5, <1>7 DEF Node, FieldPath, Written

(* An addressable parameter is in the document that its request stored.    *)
LEMMA AddressableIsStored ==
    ASSUME ServerInv, NEW w \in Requests, Stored(w), Addressable(w)
    PROVE  Written(w) \in DOMAIN DocOf(w) /\ DocOf(w)[Written(w)] = w
<1>1. PICK node : node = PathSegments(req[w].field.path)
  OBVIOUS
<1>2. PICK params : params = ParamsOf(w)
  OBVIOUS
<1>3. PICK doc : doc = DocOf(w)
  OBVIOUS
<1>4. IsPatch(Base(w), doc, node, params, Now)
  BY <1>1, <1>2, <1>3 DEF ServerInv, IInv, DocumentsOK, DocumentOK
<1>5. req[w] \in Arrivals
  BY DEF ServerInv, IInv, BasicInv, PutOK, PcOK, Stored
<1>6. req[w].field.key \in DOMAIN params /\ params[req[w].field.key] = w
  BY <1>2, <1>5, ParamsNodes DEF Addressable, ParamsOf
<1>7. Written(w) = Append(node, req[w].field.key) /\ ~IsPrefix(TimestampNode, Written(w))
  BY <1>1 DEF Written, Addressable, TimestampNode
<1>8. Written(w) \in DOMAIN doc /\ doc[Written(w)] = w
  BY <1>4, <1>6, <1>7 DEF IsPatch
<1> QED
  BY <1>3, <1>8

(* A download that has read a field is answered with it.                   *)
LEMMA FieldIsAnswered ==
    ASSUME ServerInv, NEW g \in Requests, at[g] = "done", status[g] # "lost",
           req[g].route = "plain" \/ req[g].op = "DownloadField",
           req[g].op \in Downloading, pc[g] = "returned",
           answer[GetCall(g)] = "ok",
           seen[GetCall(g)].visible, Node(g) \in DOMAIN Document(g)
    PROVE  status[g] \in Successes
<1>1. Resolves(Document(g), FieldPath(g)) /\ Found(g)
  BY DEF Resolves, Node, Found, Document
<1>2. result[g] \in {"unknown", "ok"}
  BY <1>1 DEF ServerInv, IInv, DownloadsOK
<1>3. Acked(g)
  BY <1>2 DEF ServerInv, ReaderOK, Acked
<1>4. req[g] \in Arrivals
  BY DEF ServerInv, IInv, BasicInv, PcOK
<1>5. req[g].route \notin {"root", "base64"}
  BY <1>4, ServerAssumption DEF FieldRoutes
<1> QED
  BY <1>1, <1>3, <1>5 DEF ServerInv, ReaderOK

(* A field acknowledged over one interface is served over either, under    *)
(* any form of its keys (uploadHandler.go:50, downloadHandler.go:42,       *)
(* tools.go:206), unless it has expired, the database fails or another     *)
(* write came in between.                                                  *)
THEOREM AckedFieldServed == ServerSpec => []AckedFieldIsServed
<1>1. ServerInv => AckedFieldIsServed
  <2> SUFFICES ASSUME ServerInv, NEW w \in Requests, NEW g \in Requests,
                      req[w].op \in {"Upload", "Patch"}, Acked(w), AsksFor(g, w),
                      at[g] = "done", status[g] # "lost", answer[GetCall(g)] = "ok"
               PROVE  \/ Serves(g, w)
                      \/ ~seen[GetCall(g)].visible /\ seen[GetCall(g)].by = PutCall(w)
                      \/ \E q \in Requests \ {w} :
                            SameData(q, w) /\ Applied(q) /\ ~Before(q, w)
    BY DEF AckedFieldIsServed
  <2>1. effect[GetCall(g)] = "applied" /\ req[g].op \in {"Patch"} \cup Downloading /\ pc[g] # "idle"
    BY CallIdentities DEF ServerInv, IInv, BasicInv, CallOK, GetOK, Began
  <2>2. req[g] \in Arrivals /\ pc[g] = "returned"
    BY <2>1 DEF ServerInv, HandlerOK, IInv, BasicInv, PcOK
  <2>3. req[g].op \in Downloading
    BY <2>2, ServerAssumption DEF AsksFor, FieldRoutes, Downloading
  <2>4. pc[w] = "returned" /\ req[w] \in Arrivals /\ Applied(w)
    BY DEF ServerInv, IInv, BasicInv, InOrder, PcOK, AsksFor, ResultOK, Writing
  <2>5. SameData(w, g)
    BY <2>3, <2>4, HandedOutLeadsBack DEF AsksFor
  <2>6. WrittenFor(seen[GetCall(g)].by, StoreKey(req[g]))
    BY <2>1, <2>5 DEF ServerInv, IInv, LastWrites, ReadsNamed, AsksFor, Writing
  <2>7. PICK q \in Requests : /\ seen[GetCall(g)].by = PutCall(q)
                              /\ Applied(q) /\ StoreKey(req[q]) = StoreKey(req[g])
    BY <2>6 DEF WrittenFor
  <2>8. ~Before(q, w)
    BY <2>1, <2>5, <2>7 DEF ServerInv, IInv, NeverOlder, ReadsNeverOlder, AsksFor, Writing
  <2>9. CASE q # w
    BY <2>5, <2>7, <2>8, <2>9 DEF SameData
  <2>10. CASE q = w /\ seen[GetCall(g)].visible
    <3>1. Stored(w)
      BY <2>4 DEF Stored, Began, Applied
    <3>2. Document(g) = DocOf(w)
      BY <2>7, <2>10 DEF Document, DocumentSeen, DocOf
    <3>3. Node(g) = Written(w)
      BY <2>4, FieldPathLeadsToField DEF AsksFor, Addressable
    <3>4. Node(g) \in DOMAIN Document(g) /\ Document(g)[Node(g)] = w
      BY <3>1, <3>2, <3>3, AddressableIsStored DEF AsksFor
    <3>5. status[g] \in Successes
      BY <2>2, <2>3, <2>10, <3>4, FieldIsAnswered DEF AsksFor
    <3> QED
      BY <3>4, <3>5 DEF Serves
  <2> QED
    BY <2>7, <2>9, <2>10
<1> QED
  BY <1>1, ServerInvariant, PTL
=============================================================================
