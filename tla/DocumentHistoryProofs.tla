----------------------- MODULE DocumentHistoryProofs -----------------------
(***************************************************************************)
(* One document under any sequence of uploads and patches: it stays a      *)
(* tree, patches are local and readable, and listings are exact.           *)
(***************************************************************************)
EXTENDS DocumentHistory, DocumentsProofs

(* All the keys a node of the document can be reached by, and the parts    *)
(* they are made of.                                                       *)
ClientKeys == UNION ParamKeys
NodeKeys ==
    (UNION {{<<path[i]>> : i \in DOMAIN path} : path \in Strings})
        \cup ClientKeys \cup {SuffixedKey(k) : k \in ClientKeys} \cup {TimestampKey}
KeyParts == UNION {{k[i] : i \in DOMAIN k} : k \in NodeKeys}

(* The names the requests of the model can bring into a document.          *)
LEMMA KeysOfRequests ==
    /\ \A path \in Strings : PathSegments(path) \in Seq(NodeKeys)
    /\ PathSegments(EmptyString) \in Seq(NodeKeys)
    /\ \A params \in Params : /\ DOMAIN params \subseteq ClientKeys
                              /\ IsFiniteSet(DOMAIN params)
                              /\ \A k \in DOMAIN params : params[k] \in Values
    /\ ClientKeys \subseteq NodeKeys
    /\ \A k \in ClientKeys : SuffixedKey(k) \in NodeKeys
    /\ TimestampKey \in NodeKeys
<1>1. ASSUME NEW path \in Strings PROVE PathSegments(path) \in Seq(NodeKeys)
  <2>1. path \in Seq(STRING)
    BY DocumentHistoryAssumption
  <2>2. ASSUME NEW i \in 1..Len(path) PROVE <<path[i]>> \in NodeKeys
    <3>1. i \in DOMAIN path
      BY <2>1
    <3> QED
      BY <3>1 DEF NodeKeys
  <2>3. Split(path) \in Seq(NodeKeys)
    BY <2>1, <2>2 DEF Split
  <2> QED
    BY <2>3 DEF PathSegments
<1>2. PathSegments(EmptyString) \in Seq(NodeKeys)
  BY DEF PathSegments
<1>3. ASSUME NEW params \in Params
      PROVE  /\ DOMAIN params \subseteq ClientKeys
             /\ IsFiniteSet(DOMAIN params)
             /\ \A k \in DOMAIN params : params[k] \in Values
  <2>1. PICK keys \in ParamKeys : params \in [keys -> Values]
    BY DEF Params
  <2> QED
    BY <2>1, DocumentHistoryAssumption DEF ClientKeys
<1>4. /\ ClientKeys \subseteq NodeKeys
      /\ \A k \in ClientKeys : SuffixedKey(k) \in NodeKeys
      /\ TimestampKey \in NodeKeys
  BY DEF NodeKeys
<1> QED
  BY <1>1, <1>2, <1>3, <1>4

(* They are strings, so their parts can be compared one by one.            *)
LEMMA NodeKeysAreStrings == NodeKeys \subseteq Seq(KeyParts)
<1>1. ASSUME NEW k \in NodeKeys PROVE k \in Seq(KeyParts)
  <2>1. \E n \in Nat : DOMAIN k = 1..n /\ k = [i \in 1..n |-> k[i]]
    <3>1. CASE k \in ClientKeys
      <4>1. k \in Seq(STRING)
        BY <3>1, DocumentHistoryAssumption DEF ClientKeys
      <4> QED
        BY <4>1
    <3>2. CASE \E c \in ClientKeys : k = SuffixedKey(c)
      <4>1. PICK c \in ClientKeys : k = SuffixedKey(c)
        BY <3>2
      <4>2. c \in Seq(STRING)
        BY <4>1, DocumentHistoryAssumption DEF ClientKeys
      <4>3. DOMAIN k = 1..Len(c) /\ k = [i \in 1..Len(c) |-> k[i]] /\ Len(c) \in Nat
        <5>1. DOMAIN c = 1..Len(c) /\ Len(c) \in Nat
          BY <4>2
        <5>2. k = [i \in DOMAIN c |-> IF i = Len(c) THEN c[Len(c)] \o "_timestamp" ELSE c[i]]
          BY <4>1 DEF SuffixedKey
        <5> QED
          BY <5>1, <5>2, Zenon
      <4> QED
        BY <4>3
    <3>3. CASE \E part : k = <<part>>
      <4>1. DOMAIN k = 1..1 /\ k = [i \in 1..1 |-> k[i]]
        BY <3>3
      <4> QED
        BY <4>1
    <3>4. k \in ClientKeys \/ (\E c \in ClientKeys : k = SuffixedKey(c)) \/ \E part : k = <<part>>
      BY DEF NodeKeys, TimestampKey
    <3> QED
      BY <3>1, <3>2, <3>3, <3>4
  <2>2. \A i \in DOMAIN k : k[i] \in KeyParts
    BY DEF KeyParts
  <2> QED
    BY <2>1, <2>2
<1> QED
  BY <1>1

(* What can be stored: values as they were sent, or escaped, and times.    *)
StoredValues == Values \cup {Escaped[v] : v \in Values} \cup {Now}

(* What is read back of a value.                                           *)
Kept(overHTTP, value) == IF overHTTP THEN Escaped[value] ELSE value

(* What a handler passes on: the parameters, escaped if it does so, and    *)
(* times where it adds them.                                               *)
LEMMA ReceivedParamsNodes ==
    ASSUME NEW params \in Params, NEW path, NEW overHTTP \in BOOLEAN,
           NEW received, received = ReceivedParams(overHTTP, params, path)
    PROVE  /\ DOMAIN received \subseteq NodeKeys
           /\ IsFiniteSet(DOMAIN received)
           /\ \A k \in DOMAIN received : received[k] \in StoredValues
           /\ DOMAIN received \subseteq DOMAIN AddTimestamps(params, path, Now) \cup {TimestampKey}
           /\ \A k \in DOMAIN params : k \in DOMAIN received
           /\ \A k \in DOMAIN params : k # TimestampKey =>
                 \/ received[k] = Kept(overHTTP, params[k])
                 \/ path = EmptyString /\ \E p \in DOMAIN params : k = SuffixedKey(p)
<1>0. PICK escaped : escaped = CollectParams(params)
  OBVIOUS
<1>1. PICK all : all = AddTimestamps(escaped, path, Now)
  OBVIOUS
<1>2. /\ DOMAIN escaped \subseteq DOMAIN all
      /\ \A k \in DOMAIN all :
            \/ k \in DOMAIN escaped /\ all[k] = escaped[k]
            \/ all[k] = Now /\ (k = TimestampKey \/ \E p \in DOMAIN escaped : k = SuffixedKey(p))
      /\ \A k \in DOMAIN escaped : k # TimestampKey =>
            \/ all[k] = escaped[k]
            \/ path = EmptyString /\ \E p \in DOMAIN escaped : k = SuffixedKey(p)
  BY <1>1, AddTimestampsNodes
<1>4. /\ DOMAIN params \subseteq ClientKeys
      /\ IsFiniteSet(DOMAIN params)
      /\ \A k \in DOMAIN params : params[k] \in Values
  BY KeysOfRequests
<1>8. /\ DOMAIN escaped = DOMAIN params
      /\ \A k \in DOMAIN params : escaped[k] = Escaped[params[k]]
  BY <1>0 DEF CollectParams
<1>3. IsFiniteSet(DOMAIN all)
  BY <1>1, <1>4, <1>8, AddTimestampsIsFinite
<1>5. \/ overHTTP /\ received = all
      \/ ~overHTTP /\ received = params
  BY <1>0, <1>1 DEF ReceivedParams
<1>6. DOMAIN all \subseteq NodeKeys
  BY <1>2, <1>4, <1>8, KeysOfRequests
<1>7. DOMAIN params \subseteq NodeKeys
  BY <1>4, KeysOfRequests
<1>9. DOMAIN all = DOMAIN AddTimestamps(params, path, Now)
  BY <1>1, <1>8 DEF AddTimestamps
<1>10. CASE overHTTP
  <2>1. received = all /\ \A v : Kept(overHTTP, v) = Escaped[v]
    BY <1>5, <1>10 DEF Kept
  <2>2. \A k \in DOMAIN all : all[k] \in StoredValues
    BY <1>2, <1>4, <1>8 DEF StoredValues
  <2>3. \A k \in DOMAIN params : k # TimestampKey =>
           \/ all[k] = Kept(overHTTP, params[k])
           \/ path = EmptyString /\ \E p \in DOMAIN params : k = SuffixedKey(p)
    BY <1>2, <1>8, <2>1
  <2>4. /\ DOMAIN all \subseteq DOMAIN AddTimestamps(params, path, Now)
        /\ \A k \in DOMAIN params : k \in DOMAIN all
    BY <1>2, <1>8, <1>9
  <2> QED
    BY <1>3, <1>6, <2>1, <2>2, <2>3, <2>4
<1>11. CASE ~overHTTP
  <2>1. DOMAIN params \subseteq DOMAIN all
    BY <1>2, <1>8
  <2> QED
    BY <1>4, <1>5, <1>7, <1>9, <1>11, <2>1 DEF StoredValues, Kept
<1> QED
  BY <1>10, <1>11
-----------------------------------------------------------------------------
(* What holds of the document between two requests.                        *)
DocOK ==
    /\ Tree(doc, NodeKeys)
    /\ IsFiniteSet(DOMAIN doc)
    /\ \A n \in Leaves(doc) : doc[n] \in StoredValues

(* The inductive invariant.                                                *)
IInv == requests \in 0..MaxRequests /\ DocOK

(* The step of a request, the upload being a patch of the empty document.  *)
Request(base, path, params, overHTTP) ==
    /\ requests < MaxRequests
    /\ requests' = requests + 1
    /\ doc' = Patched(base, path, ReceivedParams(overHTTP, params, path), Now)

(* Every step is such a request.                                           *)
LEMMA StepIsRequest ==
    ASSUME Next
    PROVE  \E base \in {EmptyDocument, doc}, path \in Strings \cup {EmptyString},
              params \in Params, overHTTP \in BOOLEAN :
              /\ Request(base, path, params, overHTTP)
              /\ last'.op = "patch" => base = doc /\ last'.path = path /\ last'.params = params
                                    /\ last'.overHTTP = overHTTP
<1>1. PICK params \in Params, overHTTP \in BOOLEAN :
         \/ Upload(params, overHTTP)
         \/ \E path \in Strings : Patch(path, params, overHTTP)
  BY DEF Next
<1>2. CASE Upload(params, overHTTP)
  <2>1. Request(EmptyDocument, EmptyString, params, overHTTP) /\ last'.op # "patch"
    BY <1>2, UploadIsPatchOfEmptyDocument DEF Upload, Request
  <2> QED
    BY <2>1
<1>3. CASE \E path \in Strings : Patch(path, params, overHTTP)
  <2>1. PICK path \in Strings : Patch(path, params, overHTTP)
    BY <1>3
  <2>2. /\ Request(doc, path, params, overHTTP)
        /\ last'.path = path /\ last'.params = params /\ last'.overHTTP = overHTTP
    BY <2>1 DEF Patch, Request
  <2> QED
    BY <2>2
<1> QED
  BY <1>1, <1>2, <1>3

(* A document starts out empty.                                            *)
LEMMA EmptyDocumentOK ==
    /\ Tree(EmptyDocument, NodeKeys)
    /\ IsFiniteSet(DOMAIN EmptyDocument)
    /\ Leaves(EmptyDocument) = {}
<1>1. Tree(EmptyDocument, NodeKeys) /\ DOMAIN EmptyDocument = {<<>>} /\ EmptyDocument[<<>>] = Map
  BY EmptyDocumentIsTree
<1> QED
  BY <1>1, FS_Singleton DEF Leaves

LEMMA InitialDocument == Init => IInv
BY EmptyDocumentOK, DocumentHistoryAssumption DEF Init, IInv, DocOK

(* A request keeps the tree, and changes what IsPatch says.                *)
LEMMA RequestKeepsDocument ==
    ASSUME IInv, NEW base \in {EmptyDocument, doc}, NEW path \in Strings \cup {EmptyString},
           NEW params \in Params, NEW overHTTP \in BOOLEAN,
           Request(base, path, params, overHTTP),
           NEW received, received = ReceivedParams(overHTTP, params, path)
    PROVE  /\ IInv'
           /\ IsPatch(base, doc', PathSegments(path), received, Now)
<1>1. /\ Tree(base, NodeKeys) /\ IsFiniteSet(DOMAIN base)
      /\ \A n \in Leaves(base) : base[n] \in StoredValues
  BY EmptyDocumentOK DEF IInv, DocOK
<1>2. PathSegments(path) \in Seq(NodeKeys) /\ TimestampKey \in NodeKeys
  BY KeysOfRequests
<1>3. PICK node \in Seq(NodeKeys) : node = PathSegments(path)
  BY <1>2
<1>4. /\ DOMAIN received \subseteq NodeKeys
      /\ IsFiniteSet(DOMAIN received)
      /\ \A k \in DOMAIN received : received[k] \in StoredValues
  BY ReceivedParamsNodes
<1>5. PICK new : new = doc'
  OBVIOUS
<1>6. new = Patched(base, path, received, Now)
  BY <1>5 DEF Request
<1>7. Tree(new, NodeKeys) /\ IsPatch(base, new, node, received, Now)
  BY <1>1, <1>2, <1>3, <1>4, <1>6, PatchedNodes
<1>8. IsFiniteSet(DOMAIN new)
  BY <1>1, <1>4, <1>7, PatchedIsFinite DEF Tree
<1>9. ASSUME NEW n \in Leaves(new) PROVE new[n] \in StoredValues
  <2>1. n \in DOMAIN new /\ new[n] # Map
    BY DEF Leaves
  <2>2. \/ n \in DOMAIN base /\ new[n] = base[n]
        \/ new[n] = Now
        \/ \E k \in DOMAIN received : new[n] = received[k]
    BY <1>7, <2>1 DEF IsPatch
  <2> QED
    BY <1>1, <1>4, <2>1, <2>2 DEF Leaves, StoredValues
<1>10. requests' \in 0..MaxRequests
  BY DocumentHistoryAssumption DEF Request, IInv
<1>11. DocOK'
  BY <1>5, <1>7, <1>8, <1>9 DEF DocOK, Leaves, Tree, IsMap, NodeKeys, ClientKeys, StoredValues
<1> QED
  BY <1>3, <1>5, <1>7, <1>10, <1>11 DEF IInv

(* Whatever is uploaded and patched (merge.go:19-37), the document stays a *)
(* finite tree: above a value there are only maps.                         *)
THEOREM DocumentIsTree == Spec => []IInv
<1>1. Init => IInv
  BY InitialDocument
<1>2. IInv /\ [Next]_vars => IInv'
  <2> SUFFICES ASSUME IInv, [Next]_vars PROVE IInv'
    OBVIOUS
  <2>1. CASE Next
    BY <2>1, StepIsRequest, RequestKeepsDocument
  <2>2. CASE UNCHANGED vars
    BY <2>2 DEF vars, IInv, DocOK, Tree, Leaves, IsMap, NodeKeys, ClientKeys
  <2> QED
    BY <2>1, <2>2
<1> QED
  BY <1>1, <1>2, PTL DEF Spec

(* Documents are well formed and made of the values that were sent.        *)
THEOREM TypeCorrect == Spec => []TypeOK
<1>1. IInv => TypeOK
  <2> SUFFICES ASSUME IInv PROVE TypeOK
    OBVIOUS
  <2>1. ASSUME NEW n \in DOMAIN doc, NEW i \in 0..Len(n) - 1
        PROVE  IsMap(doc, SubSeq(n, 1, i))
    <3>1. n \in Seq(NodeKeys) /\ i \in 0..Len(n) /\ i # Len(n)
      BY DEF IInv, DocOK, Tree
    <3>2. PICK m \in Seq(NodeKeys) : m = SubSeq(n, 1, i) /\ Len(m) = i /\ IsPrefix(m, n)
      BY <3>1, PrefixOfSubSeq
    <3>3. m # n
      BY <3>1, <3>2
    <3>4. IsMap(doc, m)
      BY <3>1, <3>2, <3>3 DEF IInv, DocOK, Tree
    <3> QED
      BY <3>2, <3>4
  <2> QED
    BY <2>1 DEF TypeOK, IInv, DocOK, Tree, StoredValues
<1> QED
  BY <1>1, DocumentIsTree, PTL

(* A patch leaves alone what is not below its path or its keys.            *)
LEMMA LocalStep ==
    ASSUME NEW base, Tree(base, NodeKeys), NEW path, PathSegments(path) \in Seq(NodeKeys),
           NEW received, NEW new, IsPatch(base, new, PathSegments(path), received, Now),
           NEW touched, \A k \in DOMAIN received : Append(PathSegments(path), k) \in touched,
           TimestampNode \in touched
    PROVE  /\ \A n \in Leaves(base) :
                  n \notin Spine(path) /\ (\A t \in touched : ~IsPrefix(t, n))
                      => n \in Leaves(new) /\ new[n] = base[n]
           /\ Leaves(new) \ Leaves(base) \subseteq touched
<1> DEFINE node == PathSegments(path)
<1>1. ASSUME NEW n \in DOMAIN base, IsPrefix(n, node) PROVE n \in Spine(path)
  <2>1. n \in Seq(NodeKeys)
    BY DEF Tree
  <2>2. Len(n) \in 0..Len(node) /\ n = SubSeq(node, 1, Len(n))
    BY <1>1, <2>1, PrefixIsSubSeq
  <2> QED
    BY <2>2 DEF Spine
<1>2. ASSUME NEW n \in Leaves(base), n \notin Spine(path),
             \A t \in touched : ~IsPrefix(t, n)
      PROVE  n \in Leaves(new) /\ new[n] = base[n]
  <2>1. n \in DOMAIN base /\ base[n] # Map /\ n \in Seq(NodeKeys)
    BY DEF Leaves, Tree
  <2>2. n \notin touched
    BY <1>2, <2>1, PrefixReflexive
  <2>3. n \in DOMAIN new
    BY <1>2, <2>1 DEF IsPatch
  <2>4. ~IsPrefix(n, node)
    BY <1>1, <1>2, <2>1
  <2>5. new[n] = base[n]
    BY <2>2, <2>3, <2>4 DEF IsPatch
  <2> QED
    BY <2>1, <2>3, <2>5 DEF Leaves
<1>3. ASSUME NEW n \in Leaves(new), n \notin Leaves(base) PROVE n \in touched
  <2>1. n \in DOMAIN new /\ new[n] # Map
    BY DEF Leaves
  <2>2. ~(n \in DOMAIN base /\ new[n] = base[n])
    BY <1>3, <2>1 DEF Leaves
  <2> QED
    BY <2>1, <2>2 DEF IsPatch
<1> QED
  BY <1>2, <1>3

(* A patch (Service.Patch, data.go:55-84) keeps every value that is        *)
(* neither under a key it writes nor in the way of its path, and adds      *)
(* nothing but what it writes.                                             *)
THEOREM PatchesAreLocal == Spec => PatchIsLocal
<1> DEFINE Local ==
      last'.op = "patch" =>
        LET old == Leaves(doc)
            new == Leaves(doc')
            keys == DOMAIN AddTimestamps(last'.params, last'.path, Now)
            safe == {n \in old : /\ n \notin Spine(last'.path)
                                 /\ \A t \in Touched(last'.path, keys) :
                                        ~IsPrefix(t, n)}
        IN  /\ \A n \in safe : n \in new /\ doc'[n] = doc[n]
            /\ new \ old \subseteq Touched(last'.path, keys)
<1>1. IInv /\ Next => Local
  <2> SUFFICES ASSUME IInv, Next, last'.op = "patch" PROVE Local
    BY DEF Local
  <2>1. PICK path \in Strings \cup {EmptyString}, params \in Params, overHTTP \in BOOLEAN :
           /\ Request(doc, path, params, overHTTP)
           /\ last'.path = path /\ last'.params = params
    BY StepIsRequest
  <2>2. PICK received : received = ReceivedParams(overHTTP, params, path)
    OBVIOUS
  <2>3. IsPatch(doc, doc', PathSegments(path), received, Now)
    BY <2>1, <2>2, RequestKeepsDocument
  <2>4. PICK touched : touched = Touched(path, DOMAIN AddTimestamps(params, path, Now))
    OBVIOUS
  <2>5. /\ \A k \in DOMAIN received : Append(PathSegments(path), k) \in touched
        /\ TimestampNode \in touched
    <3>1. PICK keys : keys = DOMAIN AddTimestamps(params, path, Now)
      OBVIOUS
    <3>2. DOMAIN received \subseteq keys
      BY <2>2, <3>1 DEF ReceivedParams, CollectParams, AddTimestamps
    <3>3. touched = Touched(path, keys)
      BY <2>4, <3>1
    <3> QED
      BY <3>2, <3>3 DEF Touched, TimestampNode
  <2>6. Tree(doc, NodeKeys) /\ PathSegments(path) \in Seq(NodeKeys)
    BY KeysOfRequests DEF IInv, DocOK
  <2>7. PICK new : new = doc'
    OBVIOUS
  <2>8. /\ \A n \in Leaves(doc) :
               n \notin Spine(path) /\ (\A t \in touched : ~IsPrefix(t, n))
                   => n \in Leaves(new) /\ new[n] = doc[n]
        /\ Leaves(new) \ Leaves(doc) \subseteq touched
    BY <2>3, <2>5, <2>6, <2>7, LocalStep
  <2> QED
    BY <2>1, <2>4, <2>7, <2>8 DEF Local
<1> QED
  BY <1>1, DocumentIsTree, PTL DEF Spec, PatchIsLocal

(* The path of a field leads to the node the patch wrote.                  *)
LEMMA FieldNode ==
    ASSUME NEW P, NEW path \in Seq(P) \cup {EmptyString}, NEW key \in Seq(P), Len(key) = 1
    PROVE  Split(FieldPath(path, key)) = Append(PathSegments(path), key)
<1>1. DOMAIN key = 1..1 /\ key = <<key[1]>>
  OBVIOUS
<1>2. CASE path = EmptyString
  <2>1. Split(key) = <<key>>
    BY <1>1 DEF Split
  <2> QED
    BY <1>2, <2>1 DEF FieldPath, PathSegments
<1>3. CASE path # EmptyString
  <2>1. PICK string : string = path \o key
    OBVIOUS
  <2>2. /\ string \in Seq(P) /\ Len(string) = Len(path) + 1
        /\ \A i \in 1..Len(path) : string[i] = path[i]
        /\ string[Len(path) + 1] = key[1]
    <3>1. path \in Seq(P)
      BY <1>3
    <3>2. /\ string \in Seq(P) /\ Len(string) = Len(path) + Len(key)
          /\ \A i \in 1..Len(path) + Len(key) :
                string[i] = IF i <= Len(path) THEN path[i] ELSE key[i - Len(path)]
      BY <2>1, <3>1, ConcatProperties
    <3>3. Len(path) \in Nat /\ (Len(path) + 1) - Len(path) = 1
      BY <3>1
    <3>4. \A i \in 1..Len(path) : string[i] = path[i]
      BY <3>2, <3>3
    <3>5. string[Len(path) + 1] = key[1]
      BY <3>2, <3>3
    <3> QED
      BY <3>2, <3>4, <3>5
  <2>3. PICK whole : whole = Split(string)
    OBVIOUS
  <2>4. PICK first : first = Split(path)
    OBVIOUS
  <2>5. path \in Seq(P) /\ DOMAIN path = 1..Len(path) /\ DOMAIN string = 1..Len(path) + 1
    BY <1>3, <2>2
  <2>6. /\ whole \in Seq(Seq(P)) /\ Len(whole) = Len(path) + 1
        /\ \A i \in 1..Len(path) + 1 : whole[i] = <<string[i]>>
    BY <2>2, <2>3, <2>5 DEF Split
  <2>7. /\ first \in Seq(Seq(P)) /\ Len(first) = Len(path)
        /\ \A i \in 1..Len(path) : first[i] = <<path[i]>>
    BY <2>4, <2>5 DEF Split
  <2>8. /\ Append(first, key) \in Seq(Seq(P)) /\ Len(Append(first, key)) = Len(path) + 1
        /\ \A i \in 1..Len(path) : Append(first, key)[i] = <<path[i]>>
        /\ Append(first, key)[Len(path) + 1] = key
    BY <2>7
  <2>9. whole[Len(path) + 1] = key
    BY <1>1, <2>2, <2>5, <2>6
  <2>10. ASSUME NEW i \in 1..Len(path) + 1 PROVE whole[i] = Append(first, key)[i]
    <3>1. CASE i = Len(path) + 1
      BY <2>8, <2>9, <3>1
    <3>2. CASE i # Len(path) + 1
      <4>1. i \in 1..Len(path)
        BY <2>5, <3>2
      <4> QED
        BY <2>2, <2>6, <2>8, <4>1
    <3> QED
      BY <3>1, <3>2
  <2>11. whole = Append(first, key)
    BY <2>6, <2>8, <2>10, SeqEqual
  <2> QED
    BY <1>3, <2>1, <2>3, <2>4, <2>11 DEF FieldPath, PathSegments
<1> QED
  BY <1>2, <1>3

(* A parameter with a plain name is read back by TraverseField             *)
(* (traverse.go:10) under the path MergeDataAtPath was given (merge.go:8), *)
(* unless that place is reserved: as it was sent by a tool call, escaped   *)
(* (utils.go:9-12) by an HTTP request.                                     *)
THEOREM PatchesAreReadable == Spec => PatchIsReadable
<1> DEFINE Readable ==
      last'.op = "patch" =>
        \A k \in DOMAIN last'.params :
            (Len(k) = 1 /\ ~Reserved(last'.path, k, last'.params)) =>
                LET field == FieldPath(last'.path, k)
                    sent == last'.params[k]
                IN  /\ Resolves(doc', field)
                    /\ TraverseField(doc', field) =
                           IF last'.overHTTP THEN Escaped[sent] ELSE sent
<1>1. IInv /\ Next => Readable
  <2> SUFFICES ASSUME IInv, Next, last'.op = "patch",
                      NEW k \in DOMAIN last'.params, Len(k) = 1,
                      ~Reserved(last'.path, k, last'.params)
               PROVE  /\ Resolves(doc', FieldPath(last'.path, k))
                      /\ TraverseField(doc', FieldPath(last'.path, k)) =
                             Kept(last'.overHTTP, last'.params[k])
    BY DEF Readable, Kept
  <2>1. PICK path \in Strings \cup {EmptyString}, params \in Params, overHTTP \in BOOLEAN :
           /\ Request(doc, path, params, overHTTP)
           /\ last'.path = path /\ last'.params = params /\ last'.overHTTP = overHTTP
    BY StepIsRequest
  <2>2. PICK received : received = ReceivedParams(overHTTP, params, path)
    OBVIOUS
  <2>3. IsPatch(doc, doc', PathSegments(path), received, Now)
    BY <2>1, <2>2, RequestKeepsDocument
  <2>4. k \in Seq(STRING) /\ path \in Seq(STRING) \cup {EmptyString}
    BY <2>1, KeysOfRequests, DocumentHistoryAssumption DEF ClientKeys
  <2>5. ~Reserved(path, k, params) /\ k \in DOMAIN params
    BY <2>1
  <2>6. k \in DOMAIN received /\ received[k] = Kept(overHTTP, params[k])
    BY <2>1, <2>2, <2>5, ReceivedParamsNodes DEF Reserved
  <2>7. PICK node \in Seq(NodeKeys) : node = PathSegments(path)
    BY KeysOfRequests
  <2>8. ~IsPrefix(TimestampNode, Append(node, k))
    <3>1. TimestampNode \in Seq(NodeKeys) /\ Append(node, k) \in Seq(NodeKeys)
      BY <2>5, <2>7, KeysOfRequests DEF TimestampNode
    <3>2. Append(node, k)[1] # TimestampKey
      <4>1. CASE path = EmptyString
        BY <2>5, <2>7, <4>1 DEF Reserved, PathSegments
      <4>2. CASE path # EmptyString
        <5>1. path \in Seq(STRING) /\ path # <<>>
          BY <2>1, <4>2, DocumentHistoryAssumption
        <5>2. node = Split(path) /\ 1 \in DOMAIN path /\ Len(node) >= 1
          BY <2>7, <4>2, <5>1 DEF PathSegments, Split
        <5>3. Append(node, k)[1] = <<path[1]>>
          BY <5>2 DEF Split
        <5>4. path[1] # "timestamp"
          BY <2>5, <4>2 DEF Reserved
        <5> QED
          BY <5>3, <5>4 DEF TimestampKey
      <4> QED
        BY <4>1, <4>2
    <3>3. Len(TimestampNode) = 1 /\ TimestampNode[1] = TimestampKey
      BY DEF TimestampNode
    <3>4. PICK written \in Seq(NodeKeys) : written = Append(node, k)
      BY <3>1
    <3>5. IsPrefix(TimestampNode, written) => TimestampNode[1] = written[1]
      <4>1. 1 \in 1..Len(TimestampNode)
        BY <3>3
      <4> QED
        BY <3>1, <4>1, PrefixElim
    <3> QED
      BY <3>2, <3>3, <3>4, <3>5
  <2>9. Append(node, k) \in DOMAIN doc' /\ doc'[Append(node, k)] = Kept(overHTTP, params[k])
    BY <2>3, <2>6, <2>7, <2>8 DEF IsPatch
  <2>10. Split(FieldPath(path, k)) = Append(node, k)
    BY <2>4, <2>7, FieldNode
  <2> QED
    BY <2>1, <2>9, <2>10 DEF Resolves, TraverseField
<1> QED
  BY <1>1, DocumentIsTree, PTL DEF Spec, PatchIsReadable

(* Every plain value is listed by the download page (collectAllPaths,      *)
(* downloadHandler.go:188) under a path that leads to it, whatever else is *)
(* in the document, and only values under empty or slashed keys have paths *)
(* that lead nowhere.                                                      *)
THEOREM PlainValuesListed == Spec => []PlainValuesAreListed
<1>1. IInv => PlainValuesAreListed
  <2> SUFFICES ASSUME IInv PROVE PlainValuesAreListed
    OBVIOUS
  <2>1. ASSUME NEW n \in PlainLeaves
        PROVE  PathOf(n) \in CollectAllPaths(doc) /\ Split(PathOf(n)) = n
    <3>1. n \in Leaves(doc) /\ n \in DOMAIN doc /\ doc[n] # Map
      BY DEF PlainLeaves, Leaves
    <3>2. n \in Seq(NodeKeys) /\ n # <<>>
      BY <3>1 DEF IInv, DocOK, Tree, IsMap
    <3>3. n \in Seq(Seq(KeyParts))
      BY <3>2, NodeKeysAreStrings
    <3>4. PlainNode(n)
      BY DEF PlainLeaves, PlainNode
    <3> QED
      BY <3>1, <3>2, <3>3, <3>4, PathOfPlainNode DEF CollectAllPaths
  <2>2. ASSUME NEW n \in Leaves(doc)
        PROVE  Resolves(doc, PathOf(n)) \/ n \notin PlainLeaves
    BY <2>1 DEF Leaves, Resolves
  <2> QED
    BY <2>1, <2>2 DEF PlainValuesAreListed, CollectAllPaths
<1> QED
  BY <1>1, DocumentIsTree, PTL
=============================================================================
