----------------------------- MODULE Documents -----------------------------
(***************************************************************************)
(* The JSON documents of the store and the functions on them               *)
(* (src/data/merge.go, src/data/traverse.go, src/httphandler).             *)
(*                                                                         *)
(* A string is the sequence of its parts between slashes: "a/b" is         *)
(* <<"a", "b">> and the empty string <<"">>, so strings.Split makes a key  *)
(* of each part and joining with "/" is concatenation.  A document maps    *)
(* each of its nodes, the sequence of keys that leads there, to a value or *)
(* to Map; the root <<>> is a Map.  Values are the strings clients send.   *)
(* A key may itself contain a slash: it is then one key of several parts.  *)
(***************************************************************************)
EXTENDS Integers, Sequences, SequencesExt, TLC

Map == "{}"
EmptyString == <<"">>
TimestampKey == <<"timestamp">>

Split(string) == [i \in DOMAIN string |-> <<string[i]>>]
Join(keys) == FlattenSeq(keys)

EmptyDocument == [n \in {<<>>} |-> Map]

IsMap(doc, node) == node \in DOMAIN doc /\ doc[node] = Map

(* What is left when the value at a node is overwritten. *)
Outside(doc, node) == {n \in DOMAIN doc : ~IsPrefix(node, n)}

(* m[key] = value, where m is the map the node's parent denotes. *)
Put(doc, node, value) ==
    [n \in Outside(doc, node) \cup {node} |->
        IF n = node THEN value ELSE doc[n]]

FreshMap(doc, node) == Put(doc, node, Map)      \* Not the code
MapNotLinked(doc, node) == doc                  \* Not the code

(* The map at a node, made when the node is missing or holds a value. *)
EnsureMap(doc, node) == IF IsMap(doc, node) THEN doc ELSE Put(doc, node, Map)

(* The loop over newData; its order does not matter, the keys differ. *)
PutAll(doc, node, newData) ==
    LET written == {Append(node, k) : k \in DOMAIN newData}
        kept == {n \in DOMAIN doc : \A w \in written : ~IsPrefix(w, n)}
    IN  [n \in kept \cup written |->
            IF n \in written THEN newData[Last(n)] ELSE doc[n]]

LastPartDropped(path) == Front(Split(path))     \* Not the code
PathSegments(path) == IF path = EmptyString THEN <<>> ELSE Split(path)

MergeDataAtPath(doc, path, newData) ==
    LET segments == PathSegments(path)
        current[i \in 0..Len(segments)] ==
            IF i = 0 THEN doc
            ELSE EnsureMap(current[i - 1], SubSeq(segments, 1, i))
    IN  PutAll(current[Len(segments)], segments, newData)

(* httphandler adds a time to each parameter of a request for the root,    *)
(* then one for the request.                                               *)
SuffixedKey(key) == [key EXCEPT ![Len(key)] = @ \o "_timestamp"]

AddTimestamps(params, path, now) ==
    LET perKey == IF path = EmptyString
                  THEN {SuffixedKey(k) : k \in DOMAIN params} ELSE {}
        times == perKey \cup {TimestampKey}
    IN  [k \in DOMAIN params \cup times |-> IF k \in times THEN now ELSE params[k]]

(* data.Service.Upload and Patch: what is stored. *)
Uploaded(params, now) ==
    Put(PutAll(EmptyDocument, <<>>, params), <<TimestampKey>>, now)

Patched(doc, path, params, now) ==
    Put(MergeDataAtPath(doc, path, params), <<TimestampKey>>, now)

(* TraverseField: the node a field path names, if all of it exists. *)
Resolves(doc, fieldPath) == Split(fieldPath) \in DOMAIN doc

TraverseField(doc, fieldPath) == doc[Split(fieldPath)]

LastKeyOnly(node) == Last(node)                 \* Not the code

(* collectAllPaths: a prefix that is the empty string, be it the root's or *)
(* that of an empty key, is dropped.                                       *)
PathOf(node) ==
    LET prefix[i \in 0..Len(node)] ==
            IF i = 0 THEN EmptyString
            ELSE IF prefix[i - 1] = EmptyString THEN node[i]
            ELSE prefix[i - 1] \o node[i]
    IN  prefix[Len(node)]

Leaves(doc) == {n \in DOMAIN doc : doc[n] # Map}

CollectAllPaths(doc) == {PathOf(n) : n \in Leaves(doc)}
=============================================================================
