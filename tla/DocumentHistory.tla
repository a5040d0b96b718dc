-------------------------- MODULE DocumentHistory --------------------------
(***************************************************************************)
(* One document under a sequence of uploads and patches, as                *)
(* data.Service.Upload and Patch compute it from what is stored.  Requests *)
(* come over HTTP, which escapes the values and adds timestamps, or as MCP *)
(* tool calls, which do neither.                                           *)
(***************************************************************************)
EXTENDS Documents, FiniteSets

CONSTANTS
    Strings,        \* keys of parameters and paths of patches
    Values,         \* values of parameters
    Escaped,        \* value -> what html.EscapeString makes of it
    ParamKeys,      \* the sets of keys a request has parameters for
    MaxRequests     \* bound on the length of the history

ASSUME DocumentHistoryAssumption ==
    /\ Strings \subseteq Seq(STRING) \ {<<>>}
    /\ \A keys \in ParamKeys :
          keys \subseteq Seq(STRING) \ {<<>>} /\ IsFiniteSet(keys)
    /\ Values \subseteq DOMAIN Escaped
    /\ MaxRequests \in Nat

VARIABLES
    doc,      \* what is stored
    last,     \* the last request
    requests  \* how many there were

vars == <<doc, last, requests>>

Now == "now"

Params == UNION {[keys -> Values] : keys \in ParamKeys}

Init ==
    /\ doc = EmptyDocument
    /\ last = [op |-> "none", overHTTP |-> FALSE, path |-> EmptyString, params |-> <<>>]
    /\ requests = 0

NotEscaped(params) == params                    \* Not the code

(* The values of an HTTP request, of a repeated parameter the first, as    *)
(* they are passed on: sanitizeInput has been over each of them.           *)
CollectParams(params) == [k \in DOMAIN params |-> Escaped[params[k]]]

ReceivedParams(overHTTP, params, path) ==
    IF overHTTP THEN AddTimestamps(CollectParams(params), path, Now) ELSE params

Upload(params, overHTTP) ==
    /\ requests < MaxRequests
    /\ requests' = requests + 1
    /\ last' = [op |-> "upload", overHTTP |-> overHTTP, path |-> EmptyString, params |-> params]
    /\ doc' = Uploaded(ReceivedParams(overHTTP, params, EmptyString), Now)

Patch(path, params, overHTTP) ==
    /\ requests < MaxRequests
    /\ requests' = requests + 1
    /\ last' = [op |-> "patch", overHTTP |-> overHTTP, path |-> path, params |-> params]
    /\ doc' = Patched(doc, path, ReceivedParams(overHTTP, params, path), Now)

Next ==
    \E params \in Params, overHTTP \in BOOLEAN :
        \/ Upload(params, overHTTP)
        \/ \E path \in Strings : Patch(path, params, overHTTP)

Spec == Init /\ [][Next]_vars

-----------------------------------------------------------------------------
(* A document is a tree whatever was merged (merge.go:19-37): the parent   *)
(* of a node is in it and is a Map.                                        *)
TypeOK ==
    /\ requests \in 0..MaxRequests
    /\ \A n \in DOMAIN doc : \A i \in 0..Len(n) - 1 : IsMap(doc, SubSeq(n, 1, i))
    /\ IsMap(doc, <<>>)
    /\ \A n \in Leaves(doc) : doc[n] \in Values \cup {Escaped[v] : v \in Values} \cup {Now}

Spine(path) == {SubSeq(PathSegments(path), 1, i) : 
                  i \in 0..Len(PathSegments(path))}

(* What a merge may touch: the nodes it writes, and the values that stand  *)
(* where the path needs a map.                                             *)
Touched(path, keys) ==
    {Append(PathSegments(path), k) : k \in keys} \cup {<<TimestampKey>>}

(* A patch (Service.Patch, data.go:55-84) keeps every value that is neither*)
(* under a key it writes nor in the way of its path, and adds nothing but  *)
(* what it writes.                                                         *)
PatchIsLocal ==
    [][last'.op = "patch" =>
        LET old == Leaves(doc)
            new == Leaves(doc')
            keys == DOMAIN AddTimestamps(last'.params, last'.path, Now)
            safe == {n \in old : /\ n \notin Spine(last'.path)
                                 /\ \A t \in Touched(last'.path, keys) :
                                        ~IsPrefix(t, n)}
        IN  /\ \A n \in safe : n \in new /\ doc'[n] = doc[n]
            /\ new \ old \subseteq Touched(last'.path, keys)]_vars

(* The path or the key leads to where the store puts its own timestamps.   *)
Reserved(path, key, params) ==
    \/ path # EmptyString /\ path[1] = "timestamp"
    \/ key = TimestampKey
    \/ path = EmptyString /\ \E k \in DOMAIN params : key = SuffixedKey(k)

FieldPath(path, key) == IF path = EmptyString THEN key ELSE path \o key

(* A parameter whose key is a plain name is read back by TraverseField     *)
(* under the path MergeDataAtPath was given, unless that place is reserved,*)
(* whatever was stored before: as it was sent when a tool was called, and  *)
(* escaped, once, when it came over HTTP (utils.go:9-12).                  *)
PatchIsReadable ==
    [][last'.op = "patch" =>
        \A k \in DOMAIN last'.params :
            (Len(k) = 1 /\ ~Reserved(last'.path, k, last'.params)) =>
                LET field == FieldPath(last'.path, k)
                    sent == last'.params[k]
                IN  /\ Resolves(doc', field)
                    /\ TraverseField(doc', field) =
                           IF last'.overHTTP THEN Escaped[sent] ELSE sent]_vars

(* The values under keys without slashes that are not empty either. *)
PlainLeaves ==
    {n \in Leaves(doc) : \A i \in DOMAIN n : Len(n[i]) = 1 /\ n[i] # EmptyString}

(* The listing of the download page (collectAllPaths) has for each plain   *)
(* value a path that leads to it and to no other, whatever else is in the  *)
(* document; a path that leads nowhere is that of a value under a key that *)
(* is empty or has a slash in it.                                          *)
PlainValuesAreListed ==
    /\ \A n \in PlainLeaves : \E p \in CollectAllPaths(doc) : Split(p) = n
    /\ \A p \in CollectAllPaths(doc) :
          Resolves(doc, p) \/ \E n \in Leaves(doc) \ PlainLeaves : p = PathOf(n)

WithoutTrailingSlash(path) ==
    IF Len(path) > 1 /\ Last(path) = "" THEN Front(path) ELSE path

(* README.md:345: a patch to "living_room/" is read under "living_room": a *)
(* trailing slash does not change the place.                               *)
TrailingSlashIsIgnored ==
    [][last'.op = "patch" =>
        \A k \in DOMAIN last'.params :
            k # TimestampKey =>
                Resolves(doc', FieldPath(WithoutTrailingSlash(last'.path), k))]_vars
=============================================================================
