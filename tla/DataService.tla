---------------------------- MODULE DataService ----------------------------
(***************************************************************************)
(* data.Service (src/data/data.go) over the store: every request of an     *)
(* HTTP handler or MCP tool is one goroutine that makes one or two calls   *)
(* of the Storage interface.  Patch reads the document, merges into its    *)
(* copy and stores the result; nothing locks the key in between.           *)
(*                                                                         *)
(* A request writes one parameter whose value is the request itself, so a  *)
(* document tells which requests its values come from; its time stamps are *)
(* not read by the service.  It stands for the value the service is given, *)
(* which httphandler has escaped by then (utils.go:23): DocumentHistory    *)
(* has the values themselves.                                              *)
(***************************************************************************)
EXTENDS Documents, KeyPairs, FiniteSets

CONSTANTS
    Requests,         \* identities of the requests
    Arrivals,         \* what is requested: records like NoRequest
    PersistDuration,
    NoCall

VARIABLES
    db, args, effect, seen, answer,   \* of the store
    req,      \* request -> its route, operation, key and parameter
    pc,       \* request -> where it is
    result,   \* request -> what the service returned
    before    \* history: request -> requests returned when it was made

storeVars == <<db, args, effect, seen, answer>>
ownVars == <<req, pc, result, before>>
vars == <<storeVars, ownVars>>

Now == "now"

Writing == {"Upload", "Patch", "Delete"}
Downloading == {"DownloadJSON", "DownloadField"}

ASSUME DataServiceAssumption ==
    /\ \A a \in Arrivals :
          /\ a.op \in Writing \cup Downloading
          /\ a.op = "Upload" => a.field.path = EmptyString
          /\ a.field.path \in Seq(STRING) \ {<<>>}
          /\ a.field.key \in Seq(STRING) \ {<<>>}
    /\ NoCall \notin Requests \X {"get", "put"}
    /\ Requests \cap {Now, Map} = {}
    /\ PersistDuration \in Nat

Calls == Requests \X {"get", "put"}
GetCall(r) == <<r, "get">>
PutCall(r) == <<r, "put">>

(* The key of the stored document: derived from an upload key, or the      *)
(* download key of the request.                                            *)
StoreKey(request) ==
    IF request.op \in Writing THEN DeriveDownloadKey(request.key)
                              ELSE StripDownloadPrefix(request.key)

StoreKeys == {StoreKey(a) : a \in Arrivals}

Store == INSTANCE EphemeralStore WITH
             Keys <- StoreKeys,
             Docs <- {EmptyDocument},
             Ops  <- {"Store", "Delete", "GetJSON", "Retrieve"}

NoField == [path |-> EmptyString, key |-> EmptyString]
NoRequest == [route |-> "none", op |-> "none", key |-> <<>>, field |-> NoField]

Init ==
    /\ Store!Init
    /\ req = [r \in Requests |-> NoRequest]
    /\ pc = [r \in Requests |-> "idle"]
    /\ result = [r \in Requests |-> "none"]
    /\ before = [r \in Requests |-> {}]

-----------------------------------------------------------------------------
(* The parameters the service is given; httphandler has escaped the value  *)
(* and added times.                                                        *)
Params(r, request) ==
    LET sent == [k \in {request.field.key} |-> r] IN
    IF request.route = "tool" THEN sent
                              ELSE AddTimestamps(sent, request.field.path, Now)

NoFallback(c) == IF seen[c].visible THEN args[seen[c].by].doc ELSE <<>>
                                                \* Not the code
(* What a read call of the service found: a missing key is an empty map. *)
DocumentSeen(c) ==
    IF seen[c].visible THEN args[seen[c].by].doc ELSE EmptyDocument

ForgetsExisting(r) == Patched(EmptyDocument, req[r].field.path, Params(r, req[r]), Now)
                                                \* Not the code
MergedDocument(r) ==
    Patched(DocumentSeen(GetCall(r)), req[r].field.path, Params(r, req[r]), Now)

Made(r, request) ==
    /\ pc[r] = "idle"
    /\ req' = [req EXCEPT ![r] = request]
    /\ before' = [before EXCEPT ![r] = {q \in Requests : pc[q] = "returned"}]

Return(r, answered) ==
    /\ pc' = [pc EXCEPT ![r] = "returned"]
    /\ result' = [result EXCEPT ![r] = answered]

Continue(r, at) ==
    /\ pc' = [pc EXCEPT ![r] = at]
    /\ UNCHANGED result

(* ValidateUploadKey and DeriveDownloadKey succeed; downloads check nothing. *)
AcceptsKey(request) ==
    request.op \in Writing => ValidateUploadKey(request.key) /\ Derives(request.key)

RejectKey(r, request) ==
    /\ Made(r, request)
    /\ ~AcceptsKey(request)
    /\ Return(r, "invalid")
    /\ UNCHANGED storeVars

Upload(r, request) ==
    /\ Made(r, request)
    /\ request.op = "Upload"
    /\ AcceptsKey(request)
    /\ Store!Begin(PutCall(r), "Store", StoreKey(request),
                   Uploaded(Params(r, request), Now))
    /\ Continue(r, "put")

AnsweredAtOnce(r, request) ==                   \* Not the code
    /\ Made(r, request)
    /\ request.op = "Delete"
    /\ AcceptsKey(request)
    /\ Store!Begin(PutCall(r), "Delete", StoreKey(request), EmptyDocument)
    /\ Return(r, "ok")

Delete(r, request) ==
    /\ Made(r, request)
    /\ request.op = "Delete"
    /\ AcceptsKey(request)
    /\ Store!Begin(PutCall(r), "Delete", StoreKey(request), EmptyDocument)
    /\ Continue(r, "put")

(* The reads of Patch, DownloadField (Retrieve) and DownloadJSON. *)
Read(r, request) ==
    /\ Made(r, request)
    /\ request.op \in {"Patch"} \cup Downloading
    /\ AcceptsKey(request)
    /\ Store!Begin(GetCall(r),
                   IF request.op = "DownloadJSON" THEN "GetJSON" ELSE "Retrieve",
                   StoreKey(request), EmptyDocument)
    /\ Continue(r, "get")

MergeAndStore(r) ==
    /\ pc[r] = "get"
    /\ req[r].op = "Patch"
    /\ answer[GetCall(r)] = "ok"
    /\ Store!Begin(PutCall(r), "Store", StoreKey(req[r]), MergedDocument(r))
    /\ Continue(r, "put")
    /\ UNCHANGED <<req, before>>

FieldPath(r) == Join(Append(PathSegments(req[r].field.path), req[r].field.key))

Found(r) ==
    IF req[r].op = "DownloadJSON" THEN seen[GetCall(r)].visible
    ELSE Resolves(DocumentSeen(GetCall(r)), FieldPath(r))

AnswerDownload(r) ==
    /\ pc[r] = "get"
    /\ req[r].op \in Downloading
    /\ answer[GetCall(r)] = "ok"
    /\ Return(r, IF Found(r) THEN "ok" ELSE "notfound")
    /\ UNCHANGED <<storeVars, req, before>>

(* The error of a storage call is passed on. *)
ReadFails(r) ==
    /\ pc[r] = "get"
    /\ answer[GetCall(r)] \in {"refused", "unknown"}
    /\ Return(r, answer[GetCall(r)])
    /\ UNCHANGED <<storeVars, req, before>>

AnswerWrite(r) ==
    /\ pc[r] = "put"
    /\ answer[PutCall(r)] # "none"
    /\ Return(r, answer[PutCall(r)])
    /\ UNCHANGED <<storeVars, req, before>>

StoreStep ==
    /\ \E c \in Calls : Store!CallStep(c)
    /\ UNCHANGED ownVars

Tick ==
    /\ Store!Age
    /\ UNCHANGED ownVars

InService == {r \in Requests : pc[r] \in {"get", "put"}}

Crash ==
    /\ Store!Crash
    /\ pc' = [r \in Requests |-> IF r \in InService THEN "returned" ELSE pc[r]]
    /\ result' = [r \in Requests |-> IF r \in InService THEN "unknown" ELSE result[r]]
    /\ UNCHANGED <<req, before>>

Arrive(r) ==
    \E request \in Arrivals :
        \/ RejectKey(r, request)
        \/ Upload(r, request)
        \/ Delete(r, request)
        \/ Read(r, request)

RequestStep(r) ==
    \/ MergeAndStore(r)
    \/ AnswerDownload(r)
    \/ ReadFails(r)
    \/ AnswerWrite(r)

Next ==
    \/ \E r \in Requests : Arrive(r) \/ RequestStep(r)
    \/ StoreStep
    \/ Tick
    \/ Crash

Spec == Init /\ [][Next]_vars

-----------------------------------------------------------------------------
WellFormed(doc) ==
    /\ IsMap(doc, <<>>)
    /\ \A n \in Leaves(doc) : doc[n] \in Requests \cup {Now}

(* The types; what data.Service stores is always a document whose values   *)
(* come from requests, also when it starts from a missing key.             *)
TypeOK ==
    /\ pc \in [Requests -> {"idle", "get", "put", "returned"}]
    /\ result \in [Requests ->
                     {"none", "ok", "refused", "unknown", "invalid", "notfound"}]
    /\ \A c \in Calls : args[c].op = "Store" => WellFormed(args[c].doc)

Written(r) == Append(PathSegments(req[r].field.path), req[r].field.key)

SameData(q, r) == StoreKey(req[q]) = StoreKey(req[r])

Acked(r) == result[r] = "ok"
Applied(r) == effect[PutCall(r)] = "applied"

(* q was over, and known to be, when r was made. *)
Before(q, r) == q \in before[r] /\ result[q] # "unknown"
Overlap(q, r) == ~Before(q, r) /\ ~Before(r, q)

(* The documents somebody can see after r: the stored one, and what later  *)
(* downloads have read.                                                    *)
VisibleAfter(r) ==
    LET found == IF Store!Visible(db[StoreKey(req[r])]) THEN {db[StoreKey(req[r])].by} ELSE {}
        read == {GetCall(g) : g \in {g \in Requests :
                                        /\ req[g].op \in Downloading
                                        /\ SameData(g, r)
                                        /\ r \in before[g]
                                        /\ result[g] \in {"ok", "notfound"}}}
        visible == {c \in read : seen[c].visible}
    IN  {args[w].doc : w \in found \cup {seen[c].by : c \in visible}}

(* The parameter of r is there, or something that came later is. *)
StillHolds(doc, r) ==
    Written(r) \in DOMAIN doc /\ ~\E q \in Requests : doc[Written(r)] = q /\ Before(q, r)

(* q writes a value where the parameter of p needs a map. The time stamp   *)
(* of the document does so for all fields under "timestamp", p's own too.  *)
Replaces(q, p) ==
    /\ req[q].op \in {"Upload", "Patch"}
    /\ \E n \in {Append(PathSegments(req[q].field.path), k) :
                     k \in DOMAIN Params(q, req[q])} \cup {<<TimestampKey>>} :
          IsStrictPrefix(n, Written(p))

(* Why the parameter of an acknowledged write p may be missing: a request  *)
(* removed it on purpose, read the document before p was stored and stored *)
(* it after, or found it expired.                                          *)
Removes(q, p) ==
    /\ SameData(q, p)
    /\ ~Before(q, p)
    /\ \/ Replaces(q, p)
       \/ q # p /\ req[q].op \in {"Upload", "Delete"}
       \/ q # p /\ req[q].op = "Patch" /\ Overlap(q, p)
       \/ q # p /\ req[q].op = "Patch" /\ ~seen[GetCall(q)].visible

MayRemove(q, p) == Applied(q) /\ Removes(q, p)

(* What an upload or patch was acknowledged for is lost only to requests    *)
(* that overlap with it, or on purpose: the read-modify-write of           *)
(* data.go:55-84 keeps all that was stored before it began.                *)
LossNeedsOverlap ==
    \A p \in Requests :
        (req[p].op \in {"Upload", "Patch"} /\ Acked(p)) =>
            \A doc \in VisibleAfter(p) :
                StillHolds(doc, p) \/ \E q \in Requests : MayRemove(q, p)

(* What was over before an acknowledged deletion (data.go:113-128) or      *)
(* replacement comes back only through a patch that overlaps with it.      *)
ResurrectionNeedsOverlap ==
    \A d, p \in Requests :
        (/\ req[d].op \in {"Upload", "Delete"} /\ Acked(d)
         /\ SameData(p, d) /\ Before(p, d)
         /\ \E doc \in VisibleAfter(d) : \E n \in Leaves(doc) : doc[n] = p)
            => \E q \in Requests : /\ req[q].op = "Patch"
                                   /\ SameData(q, d)
                                   /\ Applied(q)
                                   /\ Overlap(q, d)

(* Nothing was asked for but patches, each of them was acknowledged, and   *)
(* they write different parts: none stands where another needs a map.      *)
AckedPatchesOfDifferentParts ==
    /\ \A r \in Requests : req[r].op # "none" => req[r].op = "Patch" /\ Acked(r)
    /\ \A q, r \in Requests : ~Replaces(q, r)

(* No patch has read a document that had expired. *)
NothingExpired ==
    \A r \in Requests : LET found == seen[GetCall(r)] IN found.by = NoCall \/ found.visible

(* tools.go:32: patches are "Perfect for multiple IoT devices updating     *)
(* different parts of a shared data structure": once all are acknowledged, *)
(* and none has found the document expired, the document has the field of  *)
(* each of them while it can be read.  Patches that do not overlap keep    *)
(* this; Patch (data.go:65-79) does not.                                   *)
AckedPatchesArePresent ==
    (AckedPatchesOfDifferentParts /\ NothingExpired) =>
        \A p \in Requests :
            Acked(p) => \A doc \in VisibleAfter(p) : Written(p) \in DOMAIN doc
=============================================================================
