------------------------------- MODULE Server -------------------------------
(***************************************************************************)
(* The running server: the HTTP handlers (src/httphandler) and MCP tools   *)
(* (src/mcphandler/tools.go) over one data.Service, each interface with    *)
(* statistics of its own (src/main.go).                                    *)
(*                                                                         *)
(* A handler calls the service, counts the outcome and answers; requests   *)
(* are interleaved at each of these steps.  The statistics are what Stats  *)
(* calls count, lost with the process.  What the middleware turns away     *)
(* does not reach a handler (module Middleware).                           *)
(*                                                                         *)
(* A request's route is the handler: "upload", "patch", "delete", "json",  *)
(* "root", "plain" or "base64" of HTTP, or "tool".  The plain and base64   *)
(* routes download the whole document and look for their field in it.      *)
(***************************************************************************)
EXTENDS DataService

VARIABLES
    at,        \* request -> where its handler is
    status,    \* request -> what the client is told
    stats,     \* interface -> counter -> Nat
    current    \* history: the requests this process has served

serverVars == <<vars, at, status, stats, current>>

FieldRoutes == {"plain", "base64"}
HTTPRoutes == {"upload", "patch", "delete", "json", "root"} \cup FieldRoutes

ASSUME ServerAssumption ==
    /\ IsFiniteSet(Requests)
    /\ \A a \in Arrivals :
          /\ a.route \in HTTPRoutes \cup {"tool"}
          /\ a.route \in FieldRoutes \cup {"json", "root"} => a.op = "DownloadJSON"

Counters == {"Uploads", "Downloads", "HTTPErrors"}
NoStats == [c \in Counters |-> 0]

ServerInit ==
    /\ Init
    /\ at = [r \in Requests |-> "idle"]
    /\ status = [r \in Requests |-> "none"]
    /\ stats = [i \in {"REST", "MCP"} |-> NoStats]
    /\ current = {}

-----------------------------------------------------------------------------
IsTool(r) == req[r].route = "tool"

OneForAll(r) == "REST"                           \* Not the code
(* main.go:166 gives the tools their own statistics. *)
StatsOf(r) == IF IsTool(r) THEN "MCP" ELSE "REST"

(* Deletions are not counted. *)
SuccessCounter(r) ==
    CASE req[r].op \in {"Upload", "Patch"} -> {"Uploads"}
      [] req[r].op = "Delete"              -> {}
      [] OTHER                             -> {"Downloads"}

TimeoutIsAccepted(r) == result[r] \in {"ok", "unknown"}     \* Not the code
ServiceSucceeds(r) == result[r] = "ok"

OneErrorForAll(r) == "404"                       \* Not the code
ErrorStatus(r) ==
    CASE IsTool(r)                            -> "isError"
      [] req[r].route \in {"upload", "patch"} -> "400"
      [] req[r].route = "delete"              -> "500"
      [] OTHER                                -> "404"

Success(r) == IF IsTool(r) THEN "result" ELSE "200"

Conclude(r, told, counted) ==
    /\ at' = [at EXCEPT ![r] = "counted"]
    /\ status' = [status EXCEPT ![r] = told]
    /\ stats' = [stats EXCEPT ![StatsOf(r)] =
                    [c \in Counters |-> IF c \in counted THEN @[c] + 1 ELSE @[c]]]
    /\ UNCHANGED <<vars, current>>

(* A handler starts; the service is called at once. *)
Accept(r) ==
    /\ at[r] = "idle"
    /\ Arrive(r)
    /\ at' = [at EXCEPT ![r] = "handling"]
    /\ current' = current \cup {r}
    /\ UNCHANGED <<status, stats>>

(* A tool whose context has ended returns before it counts anything. *)
ContextEnded(r) ==
    /\ at[r] = "idle"
    /\ \E a \in Arrivals : a.route = "tool"
    /\ at' = [at EXCEPT ![r] = "done"]
    /\ status' = [status EXCEPT ![r] = "ended"]
    /\ UNCHANGED <<vars, stats, current>>

Returned(r) == at[r] = "handling" /\ pc[r] = "returned"

ServiceFails(r) ==
    /\ Returned(r)
    /\ ~ServiceSucceeds(r)
    /\ Conclude(r, ErrorStatus(r), {"HTTPErrors"})

Acknowledge(r) ==
    /\ Returned(r)
    /\ ServiceSucceeds(r)
    /\ req[r].route \notin FieldRoutes
    /\ Conclude(r, Success(r), SuccessCounter(r))

Document(r) == DocumentSeen(GetCall(r))
Node(r) == Split(FieldPath(r))

HasField(r) ==
    /\ Returned(r)
    /\ ServiceSucceeds(r)
    /\ req[r].route \in FieldRoutes
    /\ Resolves(Document(r), FieldPath(r))

(* The plain route prints maps too. *)
ServeValue(r) ==
    /\ HasField(r)
    /\ req[r].route = "base64" => ~IsMap(Document(r), Node(r))
    /\ Conclude(r, "200", {"Downloads"})

DecodeFails(r) ==
    /\ HasField(r)
    /\ req[r].route = "base64"
    /\ ~IsMap(Document(r), Node(r))
    /\ Conclude(r, "500", {"HTTPErrors"})

(* value.(string) of a map: net/http recovers and drops the connection. *)
TypeAssertionPanics(r) ==
    /\ HasField(r)
    /\ req[r].route = "base64"
    /\ IsMap(Document(r), Node(r))
    /\ at' = [at EXCEPT ![r] = "done"]
    /\ status' = [status EXCEPT ![r] = "aborted"]
    /\ UNCHANGED <<vars, stats, current>>

(* TraverseField tells a missing key from a path through a value. *)
FieldMissing(r) ==
    LET throughValue == \E i \in 1..Len(Node(r)) - 1 :
                           SubSeq(Node(r), 1, i) \in Leaves(Document(r)) IN
    /\ Returned(r)
    /\ ServiceSucceeds(r)
    /\ req[r].route \in FieldRoutes
    /\ ~Resolves(Document(r), FieldPath(r))
    /\ Conclude(r, IF throughValue THEN "400" ELSE "404", {"HTTPErrors"})

(* The page of the root route was counted before it is rendered. *)
RenderFails(r) ==
    /\ at[r] = "counted"
    /\ req[r].route = "root" /\ status[r] = "200"
    /\ at' = [at EXCEPT ![r] = "done"]
    /\ status' = [status EXCEPT ![r] = "aborted"]
    /\ stats' = [stats EXCEPT ![StatsOf(r)]["HTTPErrors"] = @ + 1]
    /\ UNCHANGED <<vars, current>>

Respond(r) ==
    /\ at[r] = "counted"
    /\ at' = [at EXCEPT ![r] = "done"]
    /\ UNCHANGED <<vars, status, stats, current>>

Handle(r) ==
    \/ Accept(r)
    \/ ContextEnded(r)
    \/ ServiceFails(r)
    \/ Acknowledge(r)
    \/ ServeValue(r)
    \/ DecodeFails(r)
    \/ TypeAssertionPanics(r)
    \/ FieldMissing(r)
    \/ RenderFails(r)
    \/ Respond(r)

ServiceStep ==
    /\ \/ \E r \in Requests : RequestStep(r)
       \/ StoreStep
       \/ Tick
    /\ UNCHANGED <<at, status, stats, current>>

Unanswered == {r \in Requests : at[r] \in {"handling", "counted"}}

ServerCrash ==
    /\ Crash
    /\ at' = [r \in Requests |-> IF r \in Unanswered THEN "done" ELSE at[r]]
    /\ status' = [r \in Requests |-> IF r \in Unanswered THEN "lost" ELSE status[r]]
    /\ stats' = [i \in {"REST", "MCP"} |-> NoStats]
    /\ current' = {}

ServerNext ==
    \/ \E r \in Requests : Handle(r)
    \/ ServiceStep
    \/ ServerCrash

ServerSpec == ServerInit /\ [][ServerNext]_serverVars

-----------------------------------------------------------------------------
Failures == {"400", "404", "500", "isError"}
Successes == {"200", "result"}

StatusesOf(request) ==
    CASE request.route = "tool"               -> {"result", "isError"}
      [] request.route \in {"upload", "patch"} -> {"200", "400"}
      [] request.route = "delete"             -> {"200", "500"}
      [] request.route = "json"               -> {"200", "404"}
      [] request.route = "root"               -> {"200", "404", "aborted"}
      [] request.route = "plain"              -> {"200", "400", "404"}
      [] request.route = "base64"             -> {"200", "400", "404", "500", "aborted"}
      [] OTHER                                -> {"none", "ended"}

(* The types, with the answers each handler can give.                      *)
ServerTypeOK ==
    /\ TypeOK
    /\ at \in [Requests -> {"idle", "handling", "counted", "done"}]
    /\ \A r \in Requests : status[r] \in StatusesOf(req[r]) \cup {"none", "lost"}
    /\ stats \in [{"REST", "MCP"} -> [Counters -> 0..2 * Cardinality(Requests)]]

Served(i, op) ==
    {r \in current : IsTool(r) = (i = "MCP") /\ req[r].op \in op}
Told(rs, statuses) == {r \in rs : at[r] = "done" /\ status[r] \in statuses}

(* The uploads a page of statistics shows (main.go:166, 212) are between   *)
(* what the clients of this process and this interface were told and what  *)
(* took effect in the database: none is shown that was not stored, even    *)
(* when writes time out, are refused or come to nothing in a crash.        *)
UploadsWereStored ==
    \A i \in {"REST", "MCP"} :
        LET writes == Served(i, {"Upload", "Patch"}) IN
        /\ Cardinality(Told(writes, Successes)) <= stats[i]["Uploads"]
        /\ stats[i]["Uploads"] <= Cardinality({r \in writes : Applied(r)})

(* Each error a client is told is counted once, with the interface it used *)
(* (the handlers' IncrementHTTPErrors); nothing else is, but a listing     *)
(* that breaks off, which was counted as a download before.  Deletions,    *)
(* dropped connections and calls that had ended are not counted at all.    *)
ErrorsMatchAnswers ==
    \A i \in {"REST", "MCP"} :
        LET all == Served(i, Writing \cup Downloading)
            told == Told(all, Failures)
            pending == {r \in all : at[r] = "counted" /\ status[r] \in Failures}
            brokenPages == {r \in Told(all, {"aborted"}) : req[r].route = "root"}
        IN  stats[i]["HTTPErrors"] = Cardinality(told \cup pending \cup brokenPages)

(* Both forms in which the interfaces hand out a download key. *)
HandedOut(w) ==
    LET key == DeriveDownloadKey(req[w].key) IN {key, AddDownloadPrefix(key)}

(* A field path leads to it (to a key with a slash none does), and no time *)
(* stamp of the server takes its place.                                    *)
Addressable(w) ==
    /\ Len(req[w].field.key) = 1
    /\ Params(w, req[w])[req[w].field.key] = w
    /\ ~IsPrefix(<<TimestampKey>>, Written(w))

AsksFor(g, w) ==
    /\ Addressable(w)
    /\ w \in before[g]
    /\ req[g].route = "plain" \/ req[g].op = "DownloadField"
    /\ req[g].key \in HandedOut(w)
    /\ req[g].field = req[w].field

Serves(g, w) ==
    /\ status[g] \in Successes
    /\ Document(g)[Node(g)] = w

(* A field acknowledged over one interface is served over either, under    *)
(* any form of its keys and through the timestamps HTTP adds, unless it    *)
(* has expired, the database fails or another write came in between        *)
(* (uploadHandler.go:50, downloadHandler.go:42, tools.go:206).             *)
AckedFieldIsServed ==
    \A w, g \in Requests :
        (/\ req[w].op \in {"Upload", "Patch"} /\ Acked(w)
         /\ AsksFor(g, w)
         /\ at[g] = "done" /\ status[g] # "lost"
         /\ answer[GetCall(g)] = "ok")
            => \/ Serves(g, w)
               \/ ~seen[GetCall(g)].visible
                  /\ seen[GetCall(g)].by = PutCall(w)
               \/ \E q \in Requests \ {w} :
                     /\ SameData(q, w)
                     /\ Applied(q) /\ ~Before(q, w)

(* uploadHandler.go:60: the URL answered for each parameter. *)
AnsweredField(key) == [path |-> EmptyString, key |-> key]

(* README.TechDetails.md:74-77 shows parameter_urls as the addresses where *)
(* the parameters are read, and the test script                            *)
(* test-local-mcp-with-copilot.ps1:129 expects of a patch "path reflected  *)
(* in parameter_urls".  Where the URLs of an acknowledged upload or patch  *)
(* lead, there is what it wrote, as long as nobody else writes and nothing *)
(* expires.                                                                *)
AnsweredURLsResolve ==
    \A w \in Requests :
        (/\ req[w].route \in {"upload", "patch"}
         /\ status[w] = "200"
         /\ \A q \in Requests \ {w} : req[q].op \notin Writing
         /\ db[StoreKey(req[w])].left # 0)
            => \A key \in DOMAIN Params(w, req[w]) :
                  Resolves(args[PutCall(w)].doc, Join(<<key>>))
=============================================================================
