------------------------- MODULE DataServiceProofs -------------------------
(***************************************************************************)
(* The keys, and the data service for any requests, calls, fields and      *)
(* keys. The basic invariant says where every request and its calls are;   *)
(* on it rest what a read may still see (NeverOlder), what a stored        *)
(* document is made of (DocumentsOK), and then why a parameter may be      *)
(* missing from a document (NoLoss) and why a value may be back in one     *)
(* (NoResurrection). The last parts serve Server.                          *)
(***************************************************************************)
EXTENDS DataService, DocumentsProofs

(* The forms of a key and the documents they lead to, for any keys.        *)
LEMMA StripOfKey ==
    ASSUME NEW s \in KeyLengthStrings
    PROVE  /\ StripUploadPrefix(s) = s
           /\ StripUploadPrefix(AddUploadPrefix(s)) = s
<1>1. s \in Seq(Parts) /\ s # <<>> /\ Head(s) # UploadKeyPrefix
  BY KeyPairsAssumption
<1>2. /\ AddUploadPrefix(s) # <<>>
      /\ Head(AddUploadPrefix(s)) = UploadKeyPrefix
      /\ Tail(AddUploadPrefix(s)) = s
  BY <1>1 DEF AddUploadPrefix, UploadKeyPrefix
<1> QED  BY <1>1, <1>2 DEF StripUploadPrefix, TrimPrefix

(* The same for download keys, which have their own prefix.                *)
LEMMA StripOfDownloadKey ==
    ASSUME NEW s \in Seq(Parts)
    PROVE  LET key == <<Hashed>> \o s IN
           /\ StripDownloadPrefix(key) = key
           /\ StripDownloadPrefix(AddDownloadPrefix(key)) = key
<1> DEFINE key == <<Hashed>> \o s
<1>1. key \in Seq(Parts) /\ Head(key) # DownloadKeyPrefix
  BY KeyPairsAssumption DEF DownloadKeyPrefix, Hashed
<1>2. /\ AddDownloadPrefix(key) # <<>>
      /\ Head(AddDownloadPrefix(key)) = DownloadKeyPrefix
      /\ Tail(AddDownloadPrefix(key)) = key
  <2> HIDE DEF key
  <2> QED  BY <1>1, KeyPairsAssumption DEF AddDownloadPrefix
<1> QED  BY <1>1, <1>2 DEF StripDownloadPrefix, TrimPrefix

(* A key that validates has the length derivation asks for                 *)
(* (domain.go:53, 66): the second check of the service never fails.        *)
THEOREM ValidKeysDerive ==
    ASSUME NEW key, ValidateUploadKey(key)
    PROVE  Derives(key)
BY DEF ValidateUploadKey, Derives

(* Both keys of a generated pair (data.go:19, keyPairHandler.go:18) work   *)
(* with and without their prefix, and lead to the same document.           *)
THEOREM GeneratedPairsWork ==
    ASSUME NEW random \in HexStrings
    PROVE  LET pair == GeneratedPair(random)
               document == DeriveDownloadKey(random)
           IN  /\ ValidateUploadKey(random) /\ ValidateUploadKey(pair.upload)
               /\ DeriveDownloadKey(pair.upload) = document
               /\ StripDownloadPrefix(pair.download) = document
               /\ StripDownloadPrefix(document) = document
<1> DEFINE pair == GeneratedPair(random)
           document == DeriveDownloadKey(random)
<1>1. random \in KeyLengthStrings /\ random \in Seq(Parts) /\ Lowered[random] = random
  BY KeyPairsAssumption
<1>2. StripUploadPrefix(random) = random /\ StripUploadPrefix(pair.upload) = random
  BY <1>1, StripOfKey DEF GeneratedPair
<1>3. ValidateUploadKey(random) /\ ValidateUploadKey(pair.upload)
  BY <1>1, <1>2 DEF ValidateUploadKey
<1>4. document = <<Hashed>> \o random /\ DeriveDownloadKey(pair.upload) = document
  BY <1>2 DEF DeriveDownloadKey
<1>5. pair.download = AddDownloadPrefix(document)
  BY DEF GeneratedPair
<1>6. /\ StripDownloadPrefix(pair.download) = document
      /\ StripDownloadPrefix(document) = document
  BY <1>1, <1>4, <1>5, StripOfDownloadKey
<1> QED  BY <1>3, <1>4, <1>6

(* Two upload keys that validate write to one document only if they differ *)
(* in nothing but the prefix (domain.go:49): not in the case of letters.   *)
THEOREM OneDocumentPerKey ==
    ASSUME NEW key1, NEW key2, ValidateUploadKey(key1), ValidateUploadKey(key2)
    PROVE  DeriveDownloadKey(key1) = DeriveDownloadKey(key2)
              <=> StripUploadPrefix(key1) = StripUploadPrefix(key2)
<1> DEFINE s1 == StripUploadPrefix(key1)
           s2 == StripUploadPrefix(key2)
<1>1. s1 \in Seq(Parts) /\ s2 \in Seq(Parts)
  BY KeyPairsAssumption DEF ValidateUploadKey
<1>2. \A s \in Seq(Parts) : Tail(<<Hashed>> \o s) = s
  BY KeyPairsAssumption DEF Hashed
<1> QED  BY <1>1, <1>2 DEF DeriveDownloadKey

-----------------------------------------------------------------------------

(* A call has been handed to the store; a request stores a document.       *)
Began(c) == effect[c] # "none"
Stored(q) == Began(PutCall(q)) /\ req[q].op \in {"Upload", "Patch"}
(* The document q stores, the one it was made from, and what was put in.   *)
DocOf(q) == args[PutCall(q)].doc
Base(q) == IF req[q].op = "Upload" THEN EmptyDocument ELSE DocumentSeen(GetCall(q))
ParamsOf(q) == Params(q, req[q])

(* The names a document can hold: of path segments and of parameters.      *)
NodeKeys ==
    (UNION {{<<a.field.path[i]>> : i \in DOMAIN a.field.path} : a \in Arrivals})
        \cup {a.field.key : a \in Arrivals}
        \cup {SuffixedKey(a.field.key) : a \in Arrivals}
        \cup {TimestampKey}

(* The types the steps need; TypeOK follows from the whole invariant.      *)
Types ==
    /\ db \in [StoreKeys -> [by : Calls \cup {NoCall}, left : Nat]]
    /\ DOMAIN args = Calls
    /\ DOMAIN seen = Calls
    /\ effect \in [Calls -> {"none", "pending", "applied", "dropped"}]
    /\ answer \in [Calls -> {"none", "ok", "refused", "unknown"}]
    /\ req \in [Requests -> Arrivals \cup {NoRequest}]
    /\ pc \in [Requests -> {"idle", "get", "put", "returned"}]
    /\ result \in [Requests ->
                     {"none", "ok", "refused", "unknown", "invalid", "notfound"}]
    /\ before \in [Requests -> SUBSET Requests]

(* The calls of a request are the ones its operation makes. *)
CallOK(c) ==
    /\ ~Began(c) => args[c].op = "none"
    /\ answer[c] # "none" => Began(c)
    /\ answer[c] = "ok" => effect[c] = "applied"
    /\ answer[c] = "refused" => effect[c] = "dropped"

(* A call that has begun is the one the code of its request makes: the     *)
(* GetJSON of a patch or a download, the StoreJSON or Delete of a write,   *)
(* which a patch makes only after it has read.                             *)
GetOK(r) ==
    Began(GetCall(r)) =>
        /\ args[GetCall(r)].op \in Store!Reads
        /\ args[GetCall(r)].key = StoreKey(req[r])
        /\ req[r].op \in {"Patch"} \cup Downloading
        /\ pc[r] # "idle"

PutOK(r) ==
    Began(PutCall(r)) =>
        /\ args[PutCall(r)].op = IF req[r].op = "Delete" THEN "Delete" ELSE "Store"
        /\ args[PutCall(r)].key = StoreKey(req[r])
        /\ req[r].op \in Writing
        /\ req[r].op = "Patch" => effect[GetCall(r)] = "applied"
        /\ pc[r] # "idle"

(* Where a request is and what its calls have come to. *)
PcOK(r) ==
    /\ pc[r] # "idle" => req[r] \in Arrivals
    /\ pc[r] = "idle" => req[r] = NoRequest
    /\ pc[r] # "returned" => result[r] = "none"
    /\ pc[r] = "returned" => result[r] # "none"
    /\ pc[r] = "get" => Began(GetCall(r)) /\ ~Began(PutCall(r))
    /\ pc[r] = "put" => Began(PutCall(r))

(* What a request answers agrees with what its calls have come to.         *)
ResultOK(r) ==
    /\ pc[r] = "returned" /\ result[r] # "unknown" => effect[PutCall(r)] # "pending"
    /\ Acked(r) /\ req[r].op \in Writing => Applied(r)
    /\ result[r] \in {"ok", "notfound"} /\ req[r].op \in Downloading =>
          effect[GetCall(r)] = "applied"

(* before is a strict order between requests that were made. *)
InOrder ==
    \A q, r \in Requests :
        q \in before[r] => pc[q] = "returned" /\ pc[r] # "idle" /\ r \notin before[q]

(* Call c is the write of a document under this key, and took effect.      *)
StoredFor(c, key) ==
    \E q \in Requests :
        c = PutCall(q) /\ Stored(q) /\ Applied(q) /\ StoreKey(req[q]) = key

(* What can be seen was stored, and under this key. *)
EntriesWereStored ==
    \A k \in StoreKeys : Store!Visible(db[k]) => StoredFor(db[k].by, k)

ReadsWereStored ==
    \A r \in Requests :
        effect[GetCall(r)] = "applied" /\ seen[GetCall(r)].visible =>
            StoredFor(seen[GetCall(r)].by, StoreKey(req[r]))

SeenWasStored == EntriesWereStored /\ ReadsWereStored

(* The part of the invariant every other part needs.                       *)
BasicInv ==
    /\ Types
    /\ \A c \in Calls : CallOK(c)
    /\ \A r \in Requests : GetOK(r) /\ PutOK(r) /\ PcOK(r) /\ ResultOK(r)
    /\ InOrder
    /\ SeenWasStored

(* The current entry and what a read saw are not older than a write that   *)
(* was over before.                                                        *)
EntriesNeverOlder ==
    \A q, d \in Requests :
        Applied(d) /\ StoreKey(req[d]) \in StoreKeys /\ db[StoreKey(req[d])].by = PutCall(q)
            => ~Before(q, d)

ReadsNeverOlder ==
    \A g, d, q \in Requests :
        (/\ effect[GetCall(g)] = "applied"
         /\ d \in before[g] /\ Acked(d) /\ req[d].op \in Writing /\ SameData(d, g)
         /\ seen[GetCall(g)].by = PutCall(q))
            => ~Before(q, d)

(* An overwritten document is not read again by a later request.           *)
NeverOlder == EntriesNeverOlder /\ ReadsNeverOlder

(* A document that is stored is a tree and the patch of its base: the      *)
(* empty document for an upload, what was read for a patch.                *)
DocumentOK(q) ==
    /\ Tree(DocOf(q), NodeKeys)
    /\ \A n \in DOMAIN DocOf(q) : DocOf(q)[n] \in Requests \cup {Now, Map}
    /\ IsPatch(Base(q), DocOf(q), PathSegments(req[q].field.path), ParamsOf(q), Now)

DocumentsOK == \A q \in Requests : Stored(q) => DocumentOK(q)

(* Why a document stored by q lacks the parameter of p: o itself has taken *)
(* effect, or it is the request that stores the document.                  *)
Explained(p, q) ==
    \/ StillHolds(DocOf(q), p)
    \/ \E o \in Requests : (Applied(o) \/ o = q) /\ Removes(o, p)

(* A stored document should hold the parameter of p: p was acknowledged,   *)
(* and q, which writes the same data, was not over before p began.         *)
MayMiss(p, q) ==
    /\ req[p].op \in {"Upload", "Patch"} /\ Acked(p)
    /\ Stored(q) /\ SameData(q, p) /\ ~Before(q, p)

(* LossNeedsOverlap for stored documents instead of for downloads.         *)
NoLoss == \A p, q \in Requests : MayMiss(p, q) => Explained(p, q)

(* Why a document stored by q has a value that was over before d.          *)
Revived(d, q) ==
    \E o \in Requests : /\ Applied(o) \/ o = q
                        /\ req[o].op = "Patch" /\ SameData(o, d) /\ Overlap(o, d)

(* A stored document still has a value p wrote, though an upload or a      *)
(* delete that began after p was acknowledged.                             *)
MayRevive(d, p, q) ==
    /\ req[d].op \in {"Upload", "Delete"} /\ Acked(d)
    /\ Before(p, d)
    /\ Stored(q) /\ SameData(q, d) /\ ~Before(q, d)
    /\ \E n \in DOMAIN DocOf(q) : DocOf(q)[n] = p

(* ResurrectionNeedsOverlap for stored documents.                          *)
NoResurrection == \A d, p, q \in Requests : MayRevive(d, p, q) => Revived(d, q)

(* Only a request with an acceptable key reaches the store.                *)
KeysOK == \A r \in Requests : pc[r] # "idle" /\ result[r] # "invalid" => AcceptsKey(req[r])

(* A download is answered by what it has read.                             *)
DownloadsOK ==
    \A g \in Requests :
        pc[g] = "returned" /\ req[g].op \in Downloading =>
            /\ answer[GetCall(g)] # "none"
            /\ answer[GetCall(g)] = "ok" =>
                  result[g] \in {"unknown", IF Found(g) THEN "ok" ELSE "notfound"}

(* Call c is a write or delete of this key that took effect.               *)
WrittenFor(c, key) ==
    \E q \in Requests : c = PutCall(q) /\ Applied(q) /\ StoreKey(req[q]) = key

(* An entry, and what a read found of it, bears the name of a write for    *)
(* this key from the first one that has taken effect on.                   *)
EntriesNamed ==
    /\ \A k \in StoreKeys : db[k].by # NoCall => WrittenFor(db[k].by, k)
    /\ \A d \in Requests : Applied(d) => db[StoreKey(req[d])].by # NoCall

(* What was read bears the name of a write if one was over before.         *)
ReadsNamed ==
    \A g \in Requests :
        effect[GetCall(g)] = "applied" =>
            /\ seen[GetCall(g)].by # NoCall =>
                  WrittenFor(seen[GetCall(g)].by, StoreKey(req[g]))
            /\ \A d \in before[g] : Acked(d) /\ req[d].op \in Writing /\ SameData(d, g) =>
                  seen[GetCall(g)].by # NoCall

(* Entries and reads bear the names of writes.                             *)
LastWrites == EntriesNamed /\ ReadsNamed

(* The inductive invariant of the service.                                 *)
IInv ==
    /\ BasicInv /\ NeverOlder /\ DocumentsOK /\ NoLoss /\ NoResurrection
    /\ KeysOK /\ DownloadsOK /\ LastWrites

-----------------------------------------------------------------------------
(* The two calls of a request are its own.                                 *)
LEMMA CallIdentities ==
    /\ \A r \in Requests : GetCall(r) \in Calls /\ PutCall(r) \in Calls
    /\ \A q, r \in Requests : /\ GetCall(q) = GetCall(r) => q = r
                             /\ PutCall(q) = PutCall(r) => q = r
                             /\ GetCall(q) # PutCall(r)
    /\ \A c \in Calls : \E r \in Requests : c = GetCall(r) \/ c = PutCall(r)
    /\ NoCall \notin Calls
BY DataServiceAssumption DEF Calls, GetCall, PutCall

(* A request in the model has a key and an operation of the API.           *)
LEMMA KeysOfArrivals ==
    /\ \A a \in Arrivals : /\ StoreKey(a) \in StoreKeys
                           /\ a.op \in Writing \cup Downloading
                           /\ a # NoRequest
    /\ NoRequest.op = "none"
BY DataServiceAssumption DEF StoreKeys, NoRequest, Writing, Downloading

(* Nothing has begun.                                                      *)
LEMMA InitialState == Init => BasicInv
<1> SUFFICES ASSUME Init PROVE BasicInv
  OBVIOUS
<1>1. /\ \A c \in Calls : effect[c] = "none" /\ answer[c] = "none" /\ args[c].op = "none"
      /\ \A k \in StoreKeys : ~Store!Visible(db[k])
      /\ \A r \in Requests : /\ req[r] = NoRequest /\ pc[r] = "idle"
                              /\ result[r] = "none" /\ before[r] = {}
  BY DEF Init, Store!Init, Store!NoEntry, Store!Visible, Store!NoArgs
<1>2. Types
  BY DEF Init, Store!Init, Store!NoEntry, Types
<1>3. \A c \in Calls : CallOK(c)
  BY <1>1, CallIdentities DEF CallOK, Began
<1>4. \A r \in Requests : GetOK(r) /\ PutOK(r) /\ PcOK(r) /\ ResultOK(r)
  BY <1>1, CallIdentities DEF GetOK, PutOK, PcOK, ResultOK, Began, Acked
<1>5. InOrder
  BY <1>1 DEF InOrder
<1>6. SeenWasStored
  BY <1>1, CallIdentities DEF SeenWasStored, EntriesWereStored, ReadsWereStored
<1> QED
  BY <1>2, <1>3, <1>4, <1>5, <1>6 DEF BasicInv

-----------------------------------------------------------------------------
(* A request that was not made has no calls.                               *)
LEMMA IdleBeforeMade ==
    ASSUME BasicInv, NEW r \in Requests, pc[r] = "idle"
    PROVE  /\ ~Began(GetCall(r)) /\ ~Began(PutCall(r)) /\ result[r] = "none"
           /\ req[r] = NoRequest
BY DEF BasicInv, GetOK, PutOK, PcOK

(* What no step undoes: a request that was made stays the one it is, what  *)
(* it returned stays, and so do its calls and what has become of them.     *)
Kept ==
    /\ \A r \in Requests :
          /\ pc[r] # "idle" => pc'[r] # "idle" /\ req'[r] = req[r] /\ before'[r] = before[r]
          /\ pc[r] = "returned" => pc'[r] = "returned" /\ result'[r] = result[r]
    /\ \A c \in Calls :
          /\ Began(c) => Began(c)' /\ args'[c] = args[c]
          /\ effect[c] \in {"applied", "dropped"} =>
                effect'[c] = effect[c] /\ seen'[c] = seen[c]

(* What no step undoes, for the invariants about what was stored.          *)
LEMMA StoredForStays ==
    ASSUME BasicInv, Kept, NEW c, NEW k, StoredFor(c, k)
    PROVE  StoredFor(c, k)'
<1>1. PICK q \in Requests : c = PutCall(q) /\ Stored(q) /\ Applied(q) /\ StoreKey(req[q]) = k
  BY DEF StoredFor
<1>2. PutCall(q) \in Calls /\ Began(PutCall(q)) /\ pc[q] # "idle"
  BY <1>1, CallIdentities DEF Stored, BasicInv, PutOK
<1>3. Stored(q)' /\ Applied(q)' /\ req'[q] = req[q]
  BY <1>1, <1>2 DEF Kept, Stored, Applied
<1> QED
  BY <1>1, <1>3 DEF StoredFor

LEMMA EntryStays ==
    ASSUME BasicInv, Kept, NEW k \in StoreKeys, Store!Visible(db[k]), NEW c, c = db[k].by
    PROVE  StoredFor(c, k)'
BY StoredForStays DEF BasicInv, SeenWasStored, EntriesWereStored

LEMMA ReadStays ==
    ASSUME BasicInv, Kept, NEW r \in Requests,
           effect[GetCall(r)] = "applied", seen'[GetCall(r)].visible,
           NEW c, c = seen'[GetCall(r)].by, NEW k, k = StoreKey(req'[r])
    PROVE  StoredFor(c, k)'
<1>1. GetCall(r) \in Calls /\ pc[r] # "idle"
  BY CallIdentities DEF BasicInv, GetOK, Began
<1>2. req'[r] = req[r] /\ seen'[GetCall(r)] = seen[GetCall(r)]
  BY <1>1 DEF Kept
<1>3. StoredFor(c, k)
  BY <1>2 DEF BasicInv, SeenWasStored, ReadsWereStored
<1> QED
  BY <1>3, StoredForStays

(* A step that applies no read and changes no entry.                       *)
LEMMA SeenStays ==
    ASSUME BasicInv, Kept, db' = db,
           \A r \in Requests : effect'[GetCall(r)] = "applied" => effect[GetCall(r)] = "applied"
    PROVE  SeenWasStored'
<1>1. EntriesWereStored'
  BY EntryStays DEF EntriesWereStored, Store!Visible
<1>2. ReadsWereStored'
  BY ReadStays DEF ReadsWereStored
<1> QED
  BY <1>1, <1>2 DEF SeenWasStored

RequestOK(r) == GetOK(r) /\ PutOK(r) /\ PcOK(r) /\ ResultOK(r)

SameCall(c) == effect'[c] = effect[c] /\ args'[c] = args[c]
SamePlace(r) == req'[r] = req[r] /\ pc'[r] = pc[r] /\ result'[r] = result[r]

(* A request neither of whose calls a step touches.                        *)
LEMMA UntouchedStaysOK ==
    ASSUME BasicInv, NEW r \in Requests,
           SameCall(GetCall(r)), SameCall(PutCall(r)), SamePlace(r)
    PROVE  RequestOK(r)'
BY DEF BasicInv, RequestOK, GetOK, PutOK, PcOK, ResultOK, Began, Acked, Applied,
       SameCall, SamePlace

(* Calls of different requests are different.                              *)
LEMMA CallsDiffer ==
    ASSUME NEW q \in Requests, NEW r \in Requests, q # r
    PROVE  /\ GetCall(q) # GetCall(r) /\ PutCall(q) # PutCall(r)
           /\ GetCall(q) # PutCall(r) /\ PutCall(q) # GetCall(r)
           /\ GetCall(r) # PutCall(r)
           /\ GetCall(q) \in Calls /\ PutCall(q) \in Calls
BY DEF Calls, GetCall, PutCall

(* The steps of the basic invariant, one lemma for each kind of action.    *)
LEMMA RejectKeyStep ==
    ASSUME BasicInv, NEW r \in Requests, NEW request \in Arrivals, RejectKey(r, request)
    PROVE  BasicInv' /\ Kept
<1>1. /\ pc[r] = "idle" /\ effect' = effect /\ args' = args /\ seen' = seen
      /\ answer' = answer /\ db' = db
      /\ req' = [req EXCEPT ![r] = request]
      /\ pc' = [pc EXCEPT ![r] = "returned"]
      /\ result' = [result EXCEPT ![r] = "invalid"]
      /\ before' = [before EXCEPT ![r] = {q \in Requests : pc[q] = "returned"}]
  BY DEF RejectKey, Made, Return, storeVars
<1>2. Types'
  BY <1>1 DEF BasicInv, Types
<1>3. ~Began(GetCall(r)) /\ ~Began(PutCall(r)) /\ result[r] = "none"
  BY <1>1, IdleBeforeMade
<1>4. ASSUME NEW c \in Calls PROVE CallOK(c)'
  BY <1>1 DEF BasicInv, CallOK, Began
<1>5. ASSUME NEW q \in Requests PROVE RequestOK(q)'
  <2>1. CASE q = r
    BY <1>1, <1>3, <2>1, KeysOfArrivals
    DEF BasicInv, Types, RequestOK, GetOK, PutOK, PcOK, ResultOK, Began, Acked, Applied
  <2>2. CASE q # r
    BY <1>1, <2>2, UntouchedStaysOK DEF BasicInv, Types, SameCall, SamePlace
  <2> QED
    BY <2>1, <2>2
<1>6. InOrder'
  BY <1>1 DEF BasicInv, Types, InOrder
<1>7. Kept
  BY <1>1 DEF BasicInv, Types, Kept, Began
<1>8. SeenWasStored'
  BY <1>1, <1>7, SeenStays
<1> QED
  BY <1>2, <1>4, <1>5, <1>6, <1>7, <1>8 DEF BasicInv, RequestOK

(* A request that is made and begins a call.                               *)
LEMMA BeginStep ==
    ASSUME BasicInv, NEW r \in Requests, NEW request \in Arrivals, Made(r, request),
           NEW c \in {GetCall(r), PutCall(r)}, NEW op, NEW doc,
           Store!Begin(c, op, StoreKey(request), doc),
           \/ c = PutCall(r) /\ Continue(r, "put") /\ request.op = "Upload" /\ op = "Store"
           \/ c = PutCall(r) /\ Continue(r, "put") /\ request.op = "Delete" /\ op = "Delete"
           \/ c = GetCall(r) /\ Continue(r, "get") /\ op \in Store!Reads
                 /\ request.op \in {"Patch"} \cup Downloading
    PROVE  BasicInv' /\ Kept
<1>1. /\ pc[r] = "idle" /\ seen' = seen /\ answer' = answer /\ db' = db /\ result' = result
      /\ effect' = [effect EXCEPT ![c] = "pending"]
      /\ args' = [args EXCEPT ![c] = [op |-> op, key |-> StoreKey(request), doc |-> doc]]
      /\ req' = [req EXCEPT ![r] = request]
      /\ before' = [before EXCEPT ![r] = {q \in Requests : pc[q] = "returned"}]
  BY DEF Made, Continue, Store!Begin
<1>2. pc' \in {[pc EXCEPT ![r] = "put"], [pc EXCEPT ![r] = "get"]}
  BY DEF Continue
<1>3. c \in Calls
  BY CallIdentities
<1>4. Types'
  BY <1>1, <1>2, <1>3 DEF BasicInv, Types
<1>5. ~Began(GetCall(r)) /\ ~Began(PutCall(r)) /\ ~Began(c) /\ result[r] = "none"
  BY <1>1, IdleBeforeMade
<1>6. ASSUME NEW d \in Calls PROVE CallOK(d)'
  <2>1. CASE d = c
    BY <1>1, <1>3, <1>5, <2>1 DEF BasicInv, Types, CallOK, Began
  <2>2. CASE d # c
    BY <1>1, <2>2 DEF BasicInv, Types, CallOK, Began
  <2> QED
    BY <2>1, <2>2
<1>7. RequestOK(r)'
  <2>1. /\ effect'[c] = "pending" /\ args'[c] = [op |-> op, key |-> StoreKey(request), doc |-> doc]
        /\ req'[r] = request /\ result'[r] = "none"
    BY <1>1, <1>3, <1>5 DEF BasicInv, Types
  <2>2. CASE c = PutCall(r)
    <3>1. ~Began(GetCall(r))' /\ pc'[r] = "put"
      BY <1>1, <1>2, <1>5, <2>2, CallIdentities DEF BasicInv, Types, Began, Continue
    <3> QED
      BY <2>1, <2>2, <3>1, CallIdentities
      DEF RequestOK, GetOK, PutOK, PcOK, ResultOK, Began, Acked, Writing
  <2>3. CASE c = GetCall(r)
    <3>1. ~Began(PutCall(r))' /\ pc'[r] = "get"
      BY <1>1, <1>2, <1>5, <2>3, CallIdentities DEF BasicInv, Types, Began, Continue
    <3> QED
      BY <2>1, <2>3, <3>1, CallIdentities
      DEF RequestOK, GetOK, PutOK, PcOK, ResultOK, Began, Acked
  <2> QED
    BY <2>2, <2>3
<1>8. ASSUME NEW q \in Requests, q # r PROVE RequestOK(q)'
  <2>1. SameCall(GetCall(q)) /\ SameCall(PutCall(q))
    BY <1>1, <1>8, CallsDiffer DEF BasicInv, Types, SameCall
  <2>2. SamePlace(q)
    BY <1>1, <1>2, <1>8 DEF BasicInv, Types, SamePlace
  <2> QED
    BY <2>1, <2>2, UntouchedStaysOK
<1>9. InOrder'
  BY <1>1, <1>2 DEF BasicInv, Types, InOrder
<1>10. Kept
  BY <1>1, <1>2, <1>3, <1>5 DEF BasicInv, Types, Kept, Began
<1>11. \A q \in Requests : effect'[GetCall(q)] = "applied" => effect[GetCall(q)] = "applied"
  BY <1>1, CallIdentities DEF BasicInv, Types
<1>12. SeenWasStored'
  BY <1>1, <1>10, <1>11, SeenStays
<1> QED
  BY <1>4, <1>6, <1>7, <1>8, <1>9, <1>10, <1>12 DEF BasicInv, RequestOK

LEMMA MergeAndStoreStep ==
    ASSUME BasicInv, NEW r \in Requests, MergeAndStore(r)
    PROVE  BasicInv' /\ Kept
<1> DEFINE c == PutCall(r)
<1>1. /\ pc[r] = "get" /\ req[r].op = "Patch" /\ answer[GetCall(r)] = "ok"
      /\ seen' = seen /\ answer' = answer /\ db' = db /\ result' = result
      /\ effect' = [effect EXCEPT ![c] = "pending"]
      /\ args' = [args EXCEPT ![c] =
                     [op |-> "Store", key |-> StoreKey(req[r]), doc |-> MergedDocument(r)]]
      /\ pc' = [pc EXCEPT ![r] = "put"]
      /\ req' = req /\ before' = before
  BY DEF MergeAndStore, Continue, Store!Begin
<1>2. c \in Calls /\ GetCall(r) \in Calls /\ GetCall(r) # c
  BY CallIdentities
<1>3. Types'
  BY <1>1, <1>2 DEF BasicInv, Types
<1>4. ~Began(c) /\ result[r] = "none" /\ effect[GetCall(r)] = "applied"
  BY <1>1, <1>2 DEF BasicInv, PcOK, CallOK
<1>5. ASSUME NEW d \in Calls PROVE CallOK(d)'
  <2>1. CASE d = c
    BY <1>1, <1>2, <1>4, <2>1 DEF BasicInv, Types, CallOK, Began
  <2>2. CASE d # c
    BY <1>1, <2>2 DEF BasicInv, Types, CallOK, Began
  <2> QED
    BY <2>1, <2>2
<1>6. RequestOK(r)'
  <2>1. /\ effect'[c] = "pending" /\ effect'[GetCall(r)] = "applied"
        /\ args'[c].op = "Store" /\ args'[c].key = StoreKey(req[r])
        /\ args'[GetCall(r)] = args[GetCall(r)]
        /\ result'[r] = "none" /\ pc'[r] = "put" /\ req'[r] = req[r]
    BY <1>1, <1>2, <1>4 DEF BasicInv, Types
  <2>2. GetOK(r)'
    BY <1>4, <2>1 DEF BasicInv, GetOK, Began
  <2>3. PutOK(r)'
    BY <1>1, <2>1 DEF PutOK, Writing
  <2>4. PcOK(r)' /\ ResultOK(r)'
    BY <1>1, <2>1 DEF BasicInv, PcOK, ResultOK, Began, Acked
  <2> QED
    BY <2>2, <2>3, <2>4 DEF RequestOK
<1>7. ASSUME NEW q \in Requests, q # r PROVE RequestOK(q)'
  <2>1. SameCall(GetCall(q)) /\ SameCall(PutCall(q))
    BY <1>1, <1>7, CallsDiffer DEF BasicInv, Types, SameCall
  <2>2. SamePlace(q)
    BY <1>1, <1>7 DEF BasicInv, Types, SamePlace
  <2> QED
    BY <2>1, <2>2, UntouchedStaysOK
<1>8. InOrder'
  BY <1>1 DEF BasicInv, Types, InOrder
<1>9. Kept
  BY <1>1, <1>2, <1>4 DEF BasicInv, Types, Kept, Began
<1>10. \A q \in Requests : effect'[GetCall(q)] = "applied" => effect[GetCall(q)] = "applied"
  BY <1>1, CallIdentities DEF BasicInv, Types
<1>11. SeenWasStored'
  BY <1>1, <1>9, <1>10, SeenStays
<1> QED
  BY <1>3, <1>5, <1>6, <1>7, <1>8, <1>9, <1>11 DEF BasicInv, RequestOK

LEMMA ReturnStep ==
    ASSUME BasicInv, NEW r \in Requests, AnswerDownload(r) \/ ReadFails(r) \/ AnswerWrite(r)
    PROVE  BasicInv' /\ Kept
<1>1. PICK answered \in {"ok", "refused", "unknown", "notfound"} :
      /\ db' = db /\ args' = args /\ effect' = effect /\ seen' = seen /\ answer' = answer
      /\ req' = req /\ before' = before
      /\ pc' = [pc EXCEPT ![r] = "returned"]
      /\ result' = [result EXCEPT ![r] = answered]
      /\ \/ /\ pc[r] = "get" /\ req[r].op \in Downloading /\ answer[GetCall(r)] = "ok"
            /\ answered \in {"ok", "notfound"}
         \/ pc[r] = "get" /\ answered \in {"refused", "unknown"}
         \/ pc[r] = "put" /\ answered = answer[PutCall(r)]
  <2>1. CASE AnswerDownload(r)
    BY <2>1 DEF AnswerDownload, Return, storeVars
  <2>2. CASE ReadFails(r)
    BY <2>2 DEF ReadFails, Return, storeVars
  <2>3. CASE AnswerWrite(r)
    BY <2>3, CallIdentities DEF AnswerWrite, Return, storeVars, BasicInv, Types
  <2> QED
    BY <2>1, <2>2, <2>3
<1>2. Types'
  BY <1>1 DEF BasicInv, Types
<1>3. ASSUME NEW c \in Calls PROVE CallOK(c)'
  BY <1>1 DEF BasicInv, CallOK, Began
<1>4. RequestOK(r)'
  <2>1. /\ pc'[r] = "returned" /\ result'[r] = answered /\ req'[r] = req[r]
        /\ req[r] \in Arrivals
    BY <1>1 DEF BasicInv, Types, PcOK
  <2>2. GetOK(r)' /\ PutOK(r)'
    BY <1>1, <2>1 DEF BasicInv, GetOK, PutOK, Began
  <2>3. PcOK(r)'
    BY <1>1, <2>1 DEF PcOK
  <2>4. CASE pc[r] = "get"
    <3>1. ~Began(PutCall(r)) /\ req[r].op \in {"Patch"} \cup Downloading
      BY <2>4 DEF BasicInv, PcOK, GetOK
    <3>2. answered \in {"ok", "notfound"} =>
             effect[GetCall(r)] = "applied" /\ req[r].op \in Downloading
      BY <1>1, <2>4, CallIdentities DEF BasicInv, CallOK
    <3>3. ResultOK(r)'
      BY <1>1, <2>1, <3>1, <3>2 DEF ResultOK, Began, Acked, Writing, Downloading
    <3> QED
      BY <2>2, <2>3, <3>3 DEF RequestOK
  <2>5. CASE pc[r] = "put"
    <3>1. req[r].op \in Writing /\ answered = answer[PutCall(r)]
      BY <1>1, <2>5 DEF BasicInv, PcOK, PutOK
    <3>2. /\ answered = "ok" => effect[PutCall(r)] = "applied"
          /\ answered = "refused" => effect[PutCall(r)] = "dropped"
          /\ answered # "notfound"
      BY <3>1, CallIdentities DEF BasicInv, CallOK, Types
    <3>3. ResultOK(r)'
      BY <1>1, <2>1, <3>1, <3>2 DEF ResultOK, Acked, Applied, Writing, Downloading
    <3> QED
      BY <2>2, <2>3, <3>3 DEF RequestOK
  <2> QED
    BY <1>1, <2>4, <2>5
<1>5. ASSUME NEW q \in Requests, q # r PROVE RequestOK(q)'
  BY <1>1, <1>5, UntouchedStaysOK DEF BasicInv, Types, SameCall, SamePlace
<1>6. InOrder'
  BY <1>1 DEF BasicInv, Types, InOrder, PcOK
<1>7. Kept
  <2>1. pc[r] # "returned"
    BY <1>1
  <2> QED
    BY <1>1, <2>1 DEF BasicInv, Types, Kept, Began
<1>8. SeenWasStored'
  BY <1>1, <1>7, SeenStays
<1> QED
  BY <1>2, <1>3, <1>4, <1>5, <1>6, <1>7, <1>8 DEF BasicInv, RequestOK

-----------------------------------------------------------------------------
(* Steps of the store leave the requests where they are.                   *)
LEMMA StoreStepKeeps ==
    ASSUME BasicInv, Types', UNCHANGED ownVars, args' = args,
           \A c \in Calls : CallOK(c)',
           \A c \in Calls : /\ effect[c] = "none" => effect'[c] = "none"
                            /\ effect[c] = "pending" => effect'[c] # "none"
                            /\ effect[c] \in {"applied", "dropped"} =>
                                  effect'[c] = effect[c] /\ seen'[c] = seen[c]
    PROVE  /\ Kept
           /\ \A r \in Requests : RequestOK(r)'
           /\ InOrder'
<1>1. req' = req /\ pc' = pc /\ result' = result /\ before' = before
  BY DEF ownVars
<1>2. Kept
  BY <1>1 DEF Kept, Began, BasicInv, Types
<1>3. ASSUME NEW r \in Requests PROVE RequestOK(r)'
  <2>1. GetCall(r) \in Calls /\ PutCall(r) \in Calls
    BY CallIdentities
  <2>2. \A c \in {GetCall(r), PutCall(r)} : Began(c)' <=> Began(c)
    BY <2>1 DEF Began, BasicInv, Types
  <2>3. GetOK(r)' /\ PutOK(r)' /\ PcOK(r)'
    BY <1>1, <2>1, <2>2 DEF BasicInv, GetOK, PutOK, PcOK
  <2>4. ResultOK(r)'
    BY <1>1, <2>1 DEF BasicInv, Types, ResultOK, Acked, Applied
  <2> QED
    BY <2>3, <2>4 DEF RequestOK
<1>4. InOrder'
  BY <1>1 DEF BasicInv, InOrder
<1> QED
  BY <1>2, <1>3, <1>4

(* A write of the store is the put of a request, a read its get.           *)
LEMMA WritesArePuts ==
    ASSUME BasicInv, NEW c \in Calls, Began(c)
    PROVE  \E r \in Requests :
              /\ pc[r] # "idle" /\ args[c].key = StoreKey(req[r]) /\ StoreKey(req[r]) \in StoreKeys
              /\ \/ /\ c = PutCall(r) /\ args[c].op \in Store!Writes /\ args[c].op \notin Store!Reads
                    /\ args[c].op = "Store" => req[r].op \in {"Upload", "Patch"}
                 \/ c = GetCall(r) /\ args[c].op \in Store!Reads /\ args[c].op \notin Store!Writes
<1>1. PICK r \in Requests : c = GetCall(r) \/ c = PutCall(r)
  BY CallIdentities
<1>2. CASE c = GetCall(r)
  <2>1. /\ args[c].op \in Store!Reads /\ args[c].key = StoreKey(req[r])
        /\ pc[r] # "idle" /\ req[r] \in Arrivals
    BY <1>2 DEF BasicInv, GetOK, PcOK
  <2> QED
    BY <1>2, <2>1, KeysOfArrivals DEF Store!Reads, Store!Writes
<1>3. CASE c = PutCall(r)
  <2>1. /\ args[c].op = IF req[r].op = "Delete" THEN "Delete" ELSE "Store"
        /\ req[r].op \in Writing /\ args[c].key = StoreKey(req[r])
        /\ pc[r] # "idle" /\ req[r] \in Arrivals
    BY <1>3 DEF BasicInv, PutOK, PcOK
  <2>2. /\ args[c].op \in Store!Writes /\ args[c].op \notin Store!Reads
        /\ args[c].op = "Store" => req[r].op \in {"Upload", "Patch"}
    BY <2>1 DEF Store!Reads, Store!Writes, Writing
  <2> QED
    BY <1>3, <2>1, <2>2, KeysOfArrivals
<1> QED
  BY <1>1, <1>2, <1>3

LEMMA ApplyWriteStep ==
    ASSUME BasicInv, NEW c \in Calls, Store!ApplyWrite(c), UNCHANGED ownVars
    PROVE  BasicInv' /\ Kept
<1>1. PICK left \in Nat :
      /\ effect[c] = "pending" /\ args[c].op \in Store!Writes
      /\ args[c].op # "Store" => left = 0
      /\ db' = [db EXCEPT ![args[c].key] = [by |-> c, left |-> left]]
      /\ effect' = [effect EXCEPT ![c] = "applied"]
      /\ args' = args /\ seen' = seen /\ answer' = answer
  <2>1. PICK left \in IF args[c].op = "Store" THEN 0..PersistDuration ELSE {0} :
           db' = [db EXCEPT ![args[c].key] = [by |-> c, left |-> left]]
    BY DEF Store!ApplyWrite
  <2>2. left \in Nat /\ (args[c].op # "Store" => left = 0)
    BY <2>1, DataServiceAssumption
  <2> QED
    BY <2>1, <2>2 DEF Store!ApplyWrite
<1>2. PICK r \in Requests :
         /\ c = PutCall(r) /\ args[c].key = StoreKey(req[r]) /\ StoreKey(req[r]) \in StoreKeys
         /\ pc[r] # "idle" /\ (args[c].op = "Store" => req[r].op \in {"Upload", "Patch"})
  BY <1>1, WritesArePuts DEF Began
<1>3. Types'
  BY <1>1, <1>2 DEF BasicInv, Types, ownVars
<1>4. \A d \in Calls : CallOK(d)'
  BY <1>1 DEF BasicInv, Types, CallOK, Began
<1>5. Kept /\ (\A q \in Requests : RequestOK(q)') /\ InOrder'
  <2>1. \A d \in Calls : /\ effect[d] = "none" => effect'[d] = "none"
                         /\ effect[d] = "pending" => effect'[d] # "none"
                         /\ effect[d] \in {"applied", "dropped"} =>
                               effect'[d] = effect[d] /\ seen'[d] = seen[d]
    BY <1>1 DEF BasicInv, Types
  <2> QED
    BY <1>1, <1>3, <1>4, <2>1, StoreStepKeeps
<1>6. EntriesWereStored'
  <2>1. ASSUME NEW k \in StoreKeys, Store!Visible(db[k])' PROVE StoredFor(db[k].by, k)'
    <3>1. CASE k = args[c].key
      <4>1. db'[k] = [by |-> c, left |-> left]
        BY <1>1, <3>1 DEF BasicInv, Types
      <4>2. args[c].op = "Store"
        BY <1>1, <2>1, <4>1 DEF Store!Visible
      <4>3. Stored(r)' /\ Applied(r)' /\ req'[r] = req[r]
        BY <1>1, <1>2, <4>2 DEF BasicInv, Types, Stored, Applied, Began, ownVars
      <4> QED
        BY <1>2, <3>1, <4>1, <4>3 DEF StoredFor
    <3>2. CASE k # args[c].key
      <4>1. db'[k] = db[k]
        BY <1>1, <3>2 DEF BasicInv, Types
      <4> QED
        BY <1>5, <2>1, <4>1, EntryStays DEF Store!Visible
    <3> QED
      BY <3>1, <3>2
  <2> QED
    BY <2>1 DEF EntriesWereStored
<1>7. ReadsWereStored'
  <2>1. ASSUME NEW q \in Requests, effect'[GetCall(q)] = "applied"
        PROVE  effect[GetCall(q)] = "applied"
    <3>1. GetCall(q) # c /\ GetCall(q) \in Calls
      BY <1>2 DEF Calls, GetCall, PutCall
    <3> QED
      BY <1>1, <2>1, <3>1 DEF BasicInv, Types
  <2> QED
    BY <1>5, <2>1, ReadStays DEF ReadsWereStored
<1> QED
  BY <1>3, <1>4, <1>5, <1>6, <1>7 DEF BasicInv, RequestOK, SeenWasStored

LEMMA ApplyReadStep ==
    ASSUME BasicInv, NEW c \in Calls, Store!ApplyRead(c), UNCHANGED ownVars
    PROVE  BasicInv' /\ Kept
<1>1. PICK entry : entry = db[args[c].key]
  OBVIOUS
<1>2. /\ effect[c] = "pending" /\ args[c].op \in Store!Reads
      /\ seen' = [seen EXCEPT ![c] = [by |-> entry.by, visible |-> Store!Visible(entry)]]
      /\ effect' = [effect EXCEPT ![c] = "applied"]
      /\ db' = db /\ args' = args /\ answer' = answer
  BY <1>1 DEF Store!ApplyRead
<1>3. PICK r \in Requests :
         /\ c = GetCall(r) /\ args[c].key = StoreKey(req[r]) /\ StoreKey(req[r]) \in StoreKeys
         /\ pc[r] # "idle"
  BY <1>2, WritesArePuts DEF Began
<1>4. Types'
  BY <1>2 DEF BasicInv, Types, ownVars
<1>5. \A d \in Calls : CallOK(d)'
  BY <1>2 DEF BasicInv, Types, CallOK, Began
<1>6. Kept /\ (\A q \in Requests : RequestOK(q)') /\ InOrder'
  <2>1. \A d \in Calls : /\ effect[d] = "none" => effect'[d] = "none"
                         /\ effect[d] = "pending" => effect'[d] # "none"
                         /\ effect[d] \in {"applied", "dropped"} =>
                               effect'[d] = effect[d] /\ seen'[d] = seen[d]
    BY <1>2 DEF BasicInv, Types
  <2> QED
    BY <1>2, <1>4, <1>5, <2>1, StoreStepKeeps
<1>7. EntriesWereStored'
  BY <1>2, <1>6, EntryStays DEF EntriesWereStored, Store!Visible
<1>8. ReadsWereStored'
  <2>1. ASSUME NEW q \in Requests, (effect[GetCall(q)] = "applied" /\ seen[GetCall(q)].visible)'
        PROVE  StoredFor(seen[GetCall(q)].by, StoreKey(req[q]))'
    <3>1. CASE q = r
      <4>1. seen'[c] = [by |-> entry.by, visible |-> Store!Visible(entry)] /\ req'[q] = req[q]
        BY <1>2 DEF BasicInv, Types, ownVars
      <4>2. PICK k \in StoreKeys : k = StoreKey(req[q]) /\ entry = db[k]
        BY <1>1, <1>3, <3>1
      <4>3. Store!Visible(db[k])
        BY <1>3, <2>1, <3>1, <4>1, <4>2
      <4>4. \A by : by = entry.by => StoredFor(by, k)'
        BY <1>6, <4>2, <4>3, EntryStays
      <4> QED
        BY <1>3, <3>1, <4>1, <4>2, <4>4
    <3>2. CASE q # r
      <4>1. effect[GetCall(q)] = "applied"
        BY <1>2, <1>3, <2>1, <3>2, CallsDiffer DEF BasicInv, Types
      <4> QED
        BY <1>6, <2>1, <4>1, ReadStays
    <3> QED
      BY <3>1, <3>2
  <2> QED
    BY <2>1 DEF ReadsWereStored
<1> QED
  BY <1>4, <1>5, <1>6, <1>7, <1>8 DEF BasicInv, RequestOK, SeenWasStored

(* Dropped, answered or turned away.                                       *)
LEMMA OtherCallStep ==
    ASSUME BasicInv, NEW c \in Calls, UNCHANGED ownVars,
           Store!Drop(c) \/ \E a \in {"ok", "refused", "unknown"} :
                               Store!Answer(c, a) \/ Store!TurnAway(c, a)
    PROVE  BasicInv' /\ Kept
<1>1. /\ db' = db /\ args' = args /\ seen' = seen
      /\ \/ effect' = effect
         \/ effect[c] = "pending" /\ effect' = [effect EXCEPT ![c] = "dropped"]
      /\ \/ answer' = answer
         \/ \E a \in {"ok", "refused", "unknown"} :
               /\ answer' = [answer EXCEPT ![c] = a]
               /\ effect'[c] # "none"
               /\ a = "ok" => effect'[c] = "applied"
               /\ a = "refused" => effect'[c] = "dropped"
  <2>1. CASE Store!Drop(c)
    BY <2>1 DEF Store!Drop
  <2>2. CASE \E a \in {"ok", "refused", "unknown"} : Store!Answer(c, a)
    BY <2>2 DEF Store!Answer
  <2>3. CASE \E a \in {"ok", "refused", "unknown"} : Store!TurnAway(c, a)
    BY <2>3 DEF Store!TurnAway, BasicInv, Types
  <2> QED
    BY <2>1, <2>2, <2>3
<1>2. Types'
  BY <1>1 DEF BasicInv, Types, ownVars
<1>3. ASSUME NEW d \in Calls PROVE CallOK(d)'
  <2>1. CASE d = c
    BY <1>1, <2>1 DEF BasicInv, Types, CallOK, Began
  <2>2. CASE d # c
    BY <1>1, <2>2 DEF BasicInv, Types, CallOK, Began
  <2> QED
    BY <2>1, <2>2
<1>4. Kept /\ (\A q \in Requests : RequestOK(q)') /\ InOrder'
  <2>1. \A d \in Calls : /\ effect[d] = "none" => effect'[d] = "none"
                         /\ effect[d] = "pending" => effect'[d] # "none"
                         /\ effect[d] \in {"applied", "dropped"} =>
                               effect'[d] = effect[d] /\ seen'[d] = seen[d]
    BY <1>1 DEF BasicInv, Types
  <2> QED
    BY <1>1, <1>2, <1>3, <2>1, StoreStepKeeps
<1>5. ASSUME NEW q \in Requests, effect'[GetCall(q)] = "applied"
      PROVE  effect[GetCall(q)] = "applied"
  BY <1>1, <1>5, CallIdentities DEF BasicInv, Types
<1>6. SeenWasStored'
  BY <1>1, <1>4, <1>5, SeenStays
<1> QED
  BY <1>2, <1>3, <1>4, <1>6 DEF BasicInv, RequestOK

LEMMA TickStep ==
    ASSUME BasicInv, Tick
    PROVE  BasicInv' /\ Kept
<1>1. /\ db' = [k \in StoreKeys |-> [db[k] EXCEPT !.left = IF @ > 0 THEN @ - 1 ELSE @]]
      /\ args' = args /\ effect' = effect /\ seen' = seen /\ answer' = answer
      /\ UNCHANGED ownVars
  BY DEF Tick, Store!Age
<1>2. ASSUME NEW k \in StoreKeys
      PROVE  /\ db'[k] \in [by : Calls \cup {NoCall}, left : Nat]
             /\ db'[k].by = db[k].by
             /\ db'[k].left # 0 => db[k].left # 0
  <2>1. db[k] \in [by : Calls \cup {NoCall}, left : Nat]
    BY DEF BasicInv, Types
  <2>2. db'[k] = [db[k] EXCEPT !.left = IF @ > 0 THEN @ - 1 ELSE @]
    BY <1>1
  <2> QED
    BY <2>1, <2>2
<1>3. db' \in [StoreKeys -> [by : Calls \cup {NoCall}, left : Nat]]
  BY <1>1, <1>2
<1>4. Types'
  BY <1>1, <1>3 DEF BasicInv, Types, ownVars
<1>5. \A c \in Calls : CallOK(c)'
  BY <1>1 DEF BasicInv, CallOK, Began
<1>6. Kept /\ (\A q \in Requests : RequestOK(q)') /\ InOrder'
  <2>1. \A d \in Calls : /\ effect[d] = "none" => effect'[d] = "none"
                         /\ effect[d] = "pending" => effect'[d] # "none"
                         /\ effect[d] \in {"applied", "dropped"} =>
                               effect'[d] = effect[d] /\ seen'[d] = seen[d]
    BY <1>1
  <2> QED
    BY <1>1, <1>4, <1>5, <2>1, StoreStepKeeps
<1>7. EntriesWereStored'
  BY <1>2, <1>6, EntryStays DEF EntriesWereStored, Store!Visible
<1>8. ReadsWereStored'
  BY <1>1, <1>6, ReadStays DEF ReadsWereStored
<1> QED
  BY <1>4, <1>5, <1>6, <1>7, <1>8 DEF BasicInv, RequestOK, SeenWasStored

LEMMA CrashStep ==
    ASSUME BasicInv, Crash
    PROVE  BasicInv' /\ Kept
<1>1. /\ effect' = [c \in Calls |-> IF effect[c] = "pending" THEN "dropped" ELSE effect[c]]
      /\ answer' = [c \in Calls |-> IF effect[c] # "none" /\ answer[c] = "none"
                                    THEN "unknown" ELSE answer[c]]
      /\ db' = db /\ args' = args /\ seen' = seen /\ req' = req /\ before' = before
      /\ pc' = [r \in Requests |-> IF r \in InService THEN "returned" ELSE pc[r]]
      /\ result' = [r \in Requests |-> IF r \in InService THEN "unknown" ELSE result[r]]
  BY DEF Crash, Store!Crash
<1>2. Types'
  BY <1>1 DEF BasicInv, Types
<1>3. \A c \in Calls : CallOK(c)'
  BY <1>1 DEF BasicInv, Types, CallOK, Began
<1>4. ASSUME NEW c \in Calls
      PROVE  /\ Began(c)' <=> Began(c)
             /\ effect'[c] = "applied" <=> effect[c] = "applied"
             /\ effect[c] = "dropped" => effect'[c] = "dropped"
  BY <1>1 DEF BasicInv, Types, Began
<1>5. ASSUME NEW r \in Requests
      PROVE  /\ pc'[r] # "idle" <=> pc[r] # "idle"
             /\ pc[r] \in {"idle", "returned"} => pc'[r] = pc[r] /\ result'[r] = result[r]
             /\ pc[r] \in {"get", "put"} => pc'[r] = "returned" /\ result'[r] = "unknown"
  BY <1>1 DEF BasicInv, Types, InService
<1>6. Kept
  BY <1>1, <1>4, <1>5 DEF BasicInv, Types, Kept
<1>7. ASSUME NEW r \in Requests PROVE RequestOK(r)'
  <2>1. GetCall(r) \in Calls /\ PutCall(r) \in Calls
    BY CallIdentities
  <2>2. GetOK(r)' /\ PutOK(r)'
    BY <1>1, <1>4, <1>5, <2>1 DEF BasicInv, GetOK, PutOK
  <2>3. pc[r] \in {"idle", "get", "put", "returned"}
    BY DEF BasicInv, Types
  <2>4. PcOK(r)'
    BY <1>1, <1>5, <2>3 DEF BasicInv, PcOK
  <2>5. ResultOK(r)'
    <3>1. effect[PutCall(r)] # "pending" => effect'[PutCall(r)] # "pending"
      BY <1>1, <2>1
    <3> QED
      BY <1>1, <1>4, <1>5, <2>1, <2>3, <3>1 DEF BasicInv, ResultOK, Acked, Applied
  <2> QED
    BY <2>2, <2>4, <2>5 DEF RequestOK
<1>8. InOrder'
  BY <1>1, <1>5 DEF BasicInv, InOrder
<1>9. SeenWasStored'
  BY <1>1, <1>4, <1>6, CallIdentities, SeenStays
<1> QED
  BY <1>2, <1>3, <1>6, <1>7, <1>8, <1>9 DEF BasicInv, RequestOK

(* Together: every step keeps the basic invariant.                         *)
LEMMA NextKeepsBasics ==
    ASSUME BasicInv, Next
    PROVE  BasicInv' /\ Kept
<1>1. ASSUME NEW r \in Requests, NEW request \in Arrivals,
             Upload(r, request) \/ Delete(r, request) \/ Read(r, request)
      PROVE  BasicInv' /\ Kept
  <2>1. CASE Upload(r, request)
    <3>1. /\ Made(r, request) /\ Continue(r, "put") /\ request.op = "Upload"
          /\ Store!Begin(PutCall(r), "Store", StoreKey(request), Uploaded(Params(r, request), Now))
      BY <2>1 DEF Upload
    <3> QED
      BY <3>1, BeginStep
  <2>2. CASE Delete(r, request)
    <3>1. /\ Made(r, request) /\ Continue(r, "put") /\ request.op = "Delete"
          /\ Store!Begin(PutCall(r), "Delete", StoreKey(request), EmptyDocument)
      BY <2>2 DEF Delete
    <3> QED
      BY <3>1, BeginStep
  <2>3. CASE Read(r, request)
    <3>1. PICK op \in Store!Reads :
             /\ Made(r, request) /\ Continue(r, "get")
             /\ request.op \in {"Patch"} \cup Downloading
             /\ Store!Begin(GetCall(r), op, StoreKey(request), EmptyDocument)
      BY <2>3 DEF Read, Store!Reads
    <3> QED
      BY <3>1, BeginStep
  <2> QED
    BY <1>1, <2>1, <2>2, <2>3
<1>2. ASSUME NEW r \in Requests, Arrive(r) PROVE BasicInv' /\ Kept
  BY <1>1, <1>2, RejectKeyStep DEF Arrive
<1>3. ASSUME NEW r \in Requests, RequestStep(r) PROVE BasicInv' /\ Kept
  BY <1>3, MergeAndStoreStep, ReturnStep DEF RequestStep
<1>4. CASE StoreStep
  <2>1. PICK c \in Calls : Store!CallStep(c) /\ UNCHANGED ownVars
    BY <1>4 DEF StoreStep
  <2> QED
    BY <2>1, ApplyWriteStep, ApplyReadStep, OtherCallStep DEF Store!CallStep
<1> QED
  BY <1>2, <1>3, <1>4, TickStep, CrashStep DEF Next

-----------------------------------------------------------------------------
(* The order of requests that were made is fixed.                          *)
LEMMA BeforeStays ==
    ASSUME BasicInv, Kept, NEW q \in Requests, NEW r \in Requests, pc[r] # "idle"
    PROVE  Before(q, r)' <=> Before(q, r)
<1>1. before'[r] = before[r]
  BY DEF Kept
<1>2. q \in before[r] => result'[q] = result[q]
  BY DEF BasicInv, InOrder, Kept
<1> QED
  BY <1>1, <1>2 DEF Before

(* What it means that a call takes effect in this step.                    *)
LEMMA TakesEffect ==
    ASSUME BasicInv, Next, NEW c \in Calls, effect'[c] = "applied", effect[c] # "applied"
    PROVE  /\ effect[c] = "pending"
           /\ \/ /\ args[c].op \in Store!Writes
                 /\ args[c].key \in StoreKeys => db'[args[c].key].by = c
              \/ /\ args[c].op \in Store!Reads
                 /\ seen'[c].by = db[args[c].key].by
<1>1. effect \in [Calls -> {"none", "pending", "applied", "dropped"}]
  BY DEF BasicInv, Types
<1>2. ~(effect' = effect)
  OBVIOUS
<1>3. ~(\E d \in Calls : effect' \in {[effect EXCEPT ![d] = "pending"], [effect EXCEPT ![d] = "dropped"]})
  BY <1>1
<1>4. ASSUME NEW r \in Requests, Arrive(r) \/ RequestStep(r) PROVE FALSE
  <2>1. PICK d \in Calls : effect' = effect \/ effect' = [effect EXCEPT ![d] = "pending"]
    <3>1. GetCall(r) \in Calls /\ PutCall(r) \in Calls
      BY CallIdentities
    <3> QED
      BY <1>4, <3>1 DEF Arrive, RejectKey, Upload, Delete, Read, RequestStep, MergeAndStore,
         AnswerDownload, ReadFails, AnswerWrite, storeVars, Store!Begin
  <2> QED
    BY <1>2, <1>3, <2>1
<1>5. ~Tick
  BY <1>2 DEF Tick, Store!Age
<1>6. ~Crash
  BY <1>1 DEF Crash, Store!Crash
<1>7. PICK d \in Calls : Store!CallStep(d)
  BY <1>4, <1>5, <1>6 DEF Next, StoreStep
<1>8. Store!ApplyWrite(d) \/ Store!ApplyRead(d)
  BY <1>2, <1>3, <1>7 DEF Store!CallStep, Store!Drop, Store!Answer, Store!TurnAway
<1>9. effect[d] = "pending" /\ effect' = [effect EXCEPT ![d] = "applied"]
  BY <1>8 DEF Store!ApplyWrite, Store!ApplyRead
<1>10. d = c
  BY <1>1, <1>9
<1>11. CASE Store!ApplyWrite(c)
  <2>1. PICK left : db' = [db EXCEPT ![args[c].key] = [by |-> c, left |-> left]]
    BY <1>11 DEF Store!ApplyWrite
  <2>2. args[c].key \in StoreKeys => db'[args[c].key].by = c
    BY <2>1 DEF BasicInv, Types
  <2> QED
    BY <1>9, <1>10, <1>11, <2>2 DEF Store!ApplyWrite
<1>12. CASE Store!ApplyRead(c)
  BY <1>9, <1>10, <1>12 DEF Store!ApplyRead, BasicInv, Types
<1> QED
  BY <1>8, <1>10, <1>11, <1>12

(* Only a write that takes effect puts its name on an entry.               *)
LEMMA EntryChanges ==
    ASSUME BasicInv, Next, NEW k \in StoreKeys, NEW c, db'[k].by = c, db[k].by # c
    PROVE  /\ c \in Calls /\ effect[c] = "pending" /\ effect'[c] = "applied"
           /\ args[c].op \in Store!Writes /\ args[c].key = k
<1>1. ~(db' = db)
  OBVIOUS
<1>2. ASSUME NEW r \in Requests, Arrive(r) \/ RequestStep(r) PROVE FALSE
  BY <1>1, <1>2 DEF Arrive, RejectKey, Upload, Delete, Read, RequestStep, MergeAndStore,
     AnswerDownload, ReadFails, AnswerWrite, storeVars, Store!Begin
<1>3. ~Tick
  <2>1. SUFFICES ASSUME Tick PROVE FALSE
    OBVIOUS
  <2>2. db'[k] = [db[k] EXCEPT !.left = IF @ > 0 THEN @ - 1 ELSE @]
    BY <2>1 DEF Tick, Store!Age
  <2>3. db[k] \in [by : Calls \cup {NoCall}, left : Nat]
    BY DEF BasicInv, Types
  <2> QED
    BY <2>2, <2>3
<1>4. ~Crash
  BY <1>1 DEF Crash, Store!Crash
<1>5. PICK d \in Calls : Store!CallStep(d)
  BY <1>2, <1>3, <1>4 DEF Next, StoreStep
<1>6. Store!ApplyWrite(d)
  BY <1>1, <1>5 DEF Store!CallStep, Store!ApplyRead, Store!Drop, Store!Answer, Store!TurnAway
<1>7. PICK left : db' = [db EXCEPT ![args[d].key] = [by |-> d, left |-> left]]
  BY <1>6 DEF Store!ApplyWrite
<1>8. c = d /\ args[d].key = k
  BY <1>7 DEF BasicInv, Types
<1>9. effect'[d] = "applied"
  BY <1>6 DEF Store!ApplyWrite, BasicInv, Types
<1> QED
  BY <1>6, <1>8, <1>9 DEF Store!ApplyWrite

(* A write takes effect while its request is under way, so the entry it    *)
(* leaves is of a request that was not over before any other.              *)
LEMMA NextKeepsOrder ==
    ASSUME BasicInv, NeverOlder, Next
    PROVE  NeverOlder'
<1>1. BasicInv' /\ Kept
  BY NextKeepsBasics
<1>2. ASSUME NEW q \in Requests, NEW d \in Requests,
             (Applied(d) /\ StoreKey(req[d]) \in StoreKeys
                /\ db[StoreKey(req[d])].by = PutCall(q) /\ Before(q, d))'
      PROVE  FALSE
  <2>1. PutCall(d) \in Calls /\ PutCall(q) \in Calls
    BY CallIdentities
  <2>2. Began(PutCall(d))
    BY <1>2, <2>1, TakesEffect DEF Applied, Began
  <2>3. pc[d] # "idle" /\ req'[d] = req[d] /\ args[PutCall(d)].key = StoreKey(req[d])
    BY <1>1, <2>2 DEF BasicInv, PutOK, Kept
  <2>4. Before(q, d)
    BY <1>1, <1>2, <2>3, BeforeStays
  <2>5. effect[PutCall(q)] # "pending" /\ q # d
    BY <2>4 DEF Before, BasicInv, InOrder, ResultOK
  <2>6. db[StoreKey(req[d])].by = PutCall(q)
    BY <1>2, <2>3, <2>5, EntryChanges
  <2>7. CASE Applied(d)
    BY <1>2, <2>3, <2>4, <2>6, <2>7 DEF NeverOlder, EntriesNeverOlder
  <2>8. CASE ~Applied(d)
    <3>1. args[PutCall(d)].op \notin Store!Reads
      BY <2>2 DEF BasicInv, PutOK, Store!Reads
    <3>2. db'[StoreKey(req[d])].by = PutCall(d)
      BY <1>2, <2>1, <2>3, <2>8, <3>1, TakesEffect DEF Applied
    <3>3. PutCall(d) = PutCall(q)
      BY <1>2, <2>3, <3>2
    <3> QED
      BY <2>5, <3>3 DEF PutCall
  <2> QED
    BY <2>7, <2>8
<1>3. ASSUME NEW g \in Requests, NEW d \in Requests, NEW q \in Requests,
             (/\ effect[GetCall(g)] = "applied"
              /\ d \in before[g] /\ Acked(d) /\ req[d].op \in Writing /\ SameData(d, g)
              /\ seen[GetCall(g)].by = PutCall(q) /\ Before(q, d))'
      PROVE  FALSE
  <2>1. GetCall(g) \in Calls
    BY CallIdentities
  <2>2. Began(GetCall(g))
    BY <1>3, <2>1, TakesEffect DEF Began
  <2>3. /\ pc[g] # "idle" /\ req'[g] = req[g] /\ before'[g] = before[g]
        /\ args[GetCall(g)].op \in Store!Reads
        /\ args[GetCall(g)].key = StoreKey(req[g])
    BY <1>1, <2>2 DEF BasicInv, GetOK, Kept
  <2>4. /\ d \in before[g] /\ pc[d] = "returned" /\ result'[d] = result[d]
        /\ req'[d] = req[d] /\ req[d] \in Arrivals
    BY <1>1, <1>3, <2>3 DEF BasicInv, InOrder, PcOK, Kept
  <2>5. Acked(d) /\ req[d].op \in Writing /\ SameData(d, g) /\ Before(q, d)
    BY <1>1, <1>3, <2>3, <2>4, BeforeStays DEF Acked, SameData
  <2>6. CASE effect[GetCall(g)] = "applied"
    <3>1. seen'[GetCall(g)] = seen[GetCall(g)]
      BY <1>1, <2>1, <2>6 DEF Kept
    <3> QED
      BY <1>3, <2>4, <2>5, <2>6, <3>1 DEF NeverOlder, ReadsNeverOlder
  <2>7. CASE effect[GetCall(g)] # "applied"
    <3>1. args[GetCall(g)].op \notin Store!Writes
      BY <2>3 DEF Store!Reads, Store!Writes
    <3>2. seen'[GetCall(g)].by = db[StoreKey(req[g])].by
      BY <1>3, <2>1, <2>3, <2>7, <3>1, TakesEffect
    <3>3. Applied(d) /\ StoreKey(req[d]) \in StoreKeys /\ StoreKey(req[d]) = StoreKey(req[g])
      BY <2>4, <2>5, KeysOfArrivals DEF BasicInv, ResultOK, SameData
    <3> QED
      BY <1>3, <2>5, <3>2, <3>3 DEF NeverOlder, EntriesNeverOlder
  <2> QED
    BY <2>6, <2>7
<1> QED
  BY <1>2, <1>3 DEF NeverOlder, EntriesNeverOlder, ReadsNeverOlder

-----------------------------------------------------------------------------
(* Requests and their parameters stay within the names of documents.       *)
LEMMA ArrivalNodes ==
    ASSUME NEW a \in Arrivals
    PROVE  /\ PathSegments(a.field.path) \in Seq(NodeKeys)
           /\ {a.field.key, SuffixedKey(a.field.key), TimestampKey} \subseteq NodeKeys
<1>1. PICK path \in Seq(STRING) : path = a.field.path
  BY DataServiceAssumption
<1>2. ASSUME NEW i \in DOMAIN path PROVE <<path[i]>> \in NodeKeys
  BY <1>1 DEF NodeKeys
<1>3. Split(path) \in Seq(NodeKeys)
  BY <1>2 DEF Split
<1>4. PathSegments(a.field.path) \in Seq(NodeKeys)
  BY <1>1, <1>3 DEF PathSegments
<1>5. {a.field.key, SuffixedKey(a.field.key), TimestampKey} \subseteq NodeKeys
  BY DEF NodeKeys
<1> QED
  BY <1>4, <1>5

LEMMA ParamsNodes ==
    ASSUME NEW q \in Requests, NEW a \in Arrivals, NEW params, params = Params(q, a)
    PROVE  /\ DOMAIN params \subseteq NodeKeys
           /\ a.field.key \in DOMAIN params
           /\ \A k \in DOMAIN params : params[k] \in {q, Now}
<1>1. PICK sent : sent = [k \in {a.field.key} |-> q]
  OBVIOUS
<1>2. PICK all : all = AddTimestamps(sent, a.field.path, Now)
  OBVIOUS
<1>3. params = sent \/ params = all
  BY <1>1, <1>2 DEF Params
<1>4. DOMAIN sent = {a.field.key} /\ \A k \in DOMAIN sent : sent[k] = q
  BY <1>1
<1>5. /\ DOMAIN sent \subseteq DOMAIN all
      /\ \A k \in DOMAIN all :
            \/ k \in DOMAIN sent /\ all[k] = sent[k]
            \/ all[k] = Now /\ (k = TimestampKey \/ \E p \in DOMAIN sent : k = SuffixedKey(p))
  BY <1>2, AddTimestampsNodes
<1> QED
  BY <1>3, <1>4, <1>5, ArrivalNodes

(* The document a call has seen: a stored one, or the empty one.           *)
LEMMA DocumentSeenWasStored ==
    ASSUME BasicInv, NEW r \in Requests, effect[GetCall(r)] = "applied"
    PROVE  \/ ~seen[GetCall(r)].visible /\ DocumentSeen(GetCall(r)) = EmptyDocument
           \/ \E w \in Requests :
                 /\ seen[GetCall(r)].visible /\ seen[GetCall(r)].by = PutCall(w)
                 /\ Stored(w) /\ Applied(w) /\ SameData(w, r)
                 /\ DocumentSeen(GetCall(r)) = DocOf(w)
<1>1. CASE ~seen[GetCall(r)].visible
  BY <1>1 DEF DocumentSeen
<1>2. CASE seen[GetCall(r)].visible
  <2>1. StoredFor(seen[GetCall(r)].by, StoreKey(req[r]))
    BY <1>2 DEF BasicInv, SeenWasStored, ReadsWereStored
  <2>2. DocumentSeen(GetCall(r)) = args[seen[GetCall(r)].by].doc
    BY <1>2 DEF DocumentSeen
  <2> QED
    BY <1>2, <2>1, <2>2 DEF StoredFor, SameData, DocOf
<1> QED
  BY <1>1, <1>2

(* A document that is stored stays what it is.                             *)
LEMMA StoredStays ==
    ASSUME BasicInv, Kept, NEW q \in Requests, Stored(q)
    PROVE  /\ Stored(q)' /\ req'[q] = req[q] /\ pc[q] # "idle" /\ pc'[q] # "idle"
           /\ DocOf(q)' = DocOf(q)
           /\ Base(q)' = Base(q)
           /\ seen'[GetCall(q)].visible = seen[GetCall(q)].visible \/ req[q].op = "Upload"
<1>1. PutCall(q) \in Calls /\ GetCall(q) \in Calls
  BY CallIdentities
<1>2. /\ Began(PutCall(q)) /\ pc[q] # "idle"
      /\ req[q].op = "Patch" => effect[GetCall(q)] = "applied"
  BY DEF Stored, BasicInv, PutOK
<1>3. Stored(q)' /\ req'[q] = req[q] /\ pc'[q] # "idle" /\ DocOf(q)' = DocOf(q)
  BY <1>1, <1>2 DEF Kept, Stored, DocOf
<1>4. CASE req[q].op = "Upload"
  BY <1>2, <1>3, <1>4 DEF Base
<1>5. CASE req[q].op = "Patch"
  <2>1. effect[GetCall(q)] = "applied" /\ seen'[GetCall(q)] = seen[GetCall(q)]
    BY <1>1, <1>2, <1>5 DEF Kept
  <2>2. DocumentSeen(GetCall(q))' = DocumentSeen(GetCall(q))
    <3>1. CASE ~seen[GetCall(q)].visible
      BY <2>1, <3>1 DEF DocumentSeen
    <3>2. CASE seen[GetCall(q)].visible
      <4>1. PICK w \in Requests : seen[GetCall(q)].by = PutCall(w) /\ Stored(w)
        BY <2>1, <3>2, DocumentSeenWasStored
      <4>2. args'[PutCall(w)] = args[PutCall(w)]
        BY <4>1, CallIdentities DEF Stored, Kept
      <4> QED
        BY <2>1, <3>2, <4>1, <4>2 DEF DocumentSeen
    <3> QED
      BY <3>1, <3>2
  <2>3. Base(q)' = Base(q)
    BY <1>3, <1>5, <2>2 DEF Base
  <2> QED
    BY <1>2, <1>3, <2>1, <2>3
<1> QED
  BY <1>4, <1>5 DEF Stored

(* A document is begun to be stored by an upload or at the end of a patch. *)
LEMMA BecomesStored ==
    ASSUME BasicInv, Next, NEW q \in Requests, Stored(q)', ~Stored(q)
    PROVE  (\E request \in Arrivals : Upload(q, request)) \/ MergeAndStore(q)
<1>1. BasicInv' /\ Kept
  BY NextKeepsBasics
<1>2. PutCall(q) \in Calls
  BY CallIdentities
<1>3. ~Began(PutCall(q))
  <2>1. SUFFICES ASSUME Began(PutCall(q)) PROVE FALSE
    OBVIOUS
  <2>2. req'[q] = req[q]
    BY <1>1, <2>1 DEF BasicInv, PutOK, Kept
  <2> QED
    BY <2>1, <2>2 DEF Stored
<1>4. effect[PutCall(q)] = "none" /\ effect'[PutCall(q)] # "none"
  BY <1>3 DEF Began, Stored
<1>5. ~StoreStep
  BY <1>2, <1>4 DEF BasicInv, Types, StoreStep, Store!CallStep, Store!ApplyWrite,
     Store!ApplyRead, Store!Drop, Store!Answer, Store!TurnAway
<1>6. ~Tick /\ ~Crash
  BY <1>2, <1>4 DEF Tick, Store!Age, Crash, Store!Crash
<1>7. PICK r \in Requests : Arrive(r) \/ RequestStep(r)
  BY <1>5, <1>6 DEF Next
<1>8. r = q
  <2>1. SUFFICES ASSUME r # q PROVE FALSE
    OBVIOUS
  <2>2. GetCall(r) # PutCall(q) /\ PutCall(r) # PutCall(q)
    BY <2>1 DEF GetCall, PutCall
  <2>3. effect'[PutCall(q)] = effect[PutCall(q)]
    BY <1>2, <1>7, <2>2 DEF BasicInv, Types, Arrive, RejectKey, Upload, Delete, Read,
       RequestStep, MergeAndStore, AnswerDownload, ReadFails, AnswerWrite, storeVars, Store!Begin
  <2> QED
    BY <1>4, <2>3
<1>9. CASE Arrive(q)
  <2>1. PICK request \in Arrivals : \/ RejectKey(q, request) \/ Upload(q, request)
                                   \/ Delete(q, request) \/ Read(q, request)
    BY <1>9 DEF Arrive
  <2>2. ~RejectKey(q, request)
    BY <1>4 DEF RejectKey, storeVars
  <2>3. ~Delete(q, request)
    <3>1. Delete(q, request) => req'[q].op = "Delete"
      BY DEF Delete, Made, BasicInv, Types
    <3> QED
      BY <3>1 DEF Stored
  <2>4. ~Read(q, request)
    <3>1. GetCall(q) # PutCall(q)
      BY DEF GetCall, PutCall
    <3>2. Read(q, request) => effect'[PutCall(q)] = effect[PutCall(q)]
      BY <1>2, <3>1 DEF Read, Store!Begin, BasicInv, Types
    <3> QED
      BY <1>4, <3>2
  <2> QED
    BY <2>1, <2>2, <2>3, <2>4
<1>10. CASE RequestStep(q)
  BY <1>4, <1>10 DEF RequestStep, AnswerDownload, ReadFails, AnswerWrite, storeVars
<1> QED
  BY <1>7, <1>8, <1>9, <1>10

(* What Documents proves of Patched, for the patch of a request.           *)
LEMMA PatchOfDocument ==
    ASSUME NEW q \in Requests, NEW a \in Arrivals, NEW doc, Tree(doc, NodeKeys),
           \A n \in DOMAIN doc : doc[n] \in Requests \cup {Now, Map},
           NEW params, params = Params(q, a),
           NEW new, new = Patched(doc, a.field.path, params, Now)
    PROVE  /\ Tree(new, NodeKeys)
           /\ \A n \in DOMAIN new : new[n] \in Requests \cup {Now, Map}
           /\ IsPatch(doc, new, PathSegments(a.field.path), params, Now)
<1>1. /\ DOMAIN params \subseteq NodeKeys
      /\ \A k \in DOMAIN params : params[k] \in {q, Now}
  BY ParamsNodes
<1>2. PICK path : path = a.field.path
  OBVIOUS
<1>3. PathSegments(path) \in Seq(NodeKeys) /\ TimestampKey \in NodeKeys
  BY <1>2, ArrivalNodes
<1>4. Tree(new, NodeKeys) /\ IsPatch(doc, new, PathSegments(path), params, Now)
  BY <1>1, <1>2, <1>3, PatchedNodes
<1>5. \A n \in DOMAIN new : new[n] \in Requests \cup {Now, Map}
  BY <1>1, <1>4 DEF IsPatch
<1> QED
  BY <1>2, <1>4, <1>5

(* A document is made by an upload or by a merge, and then stays.          *)
LEMMA UploadedDocumentOK ==
    ASSUME BasicInv, NEW q \in Requests, NEW request \in Arrivals, Upload(q, request)
    PROVE  DocumentOK(q)'
<1>1. /\ request.op = "Upload"
      /\ req' = [req EXCEPT ![q] = request]
      /\ args' = [args EXCEPT ![PutCall(q)] =
                     [op |-> "Store", key |-> StoreKey(request),
                      doc |-> Uploaded(Params(q, request), Now)]]
  BY DEF Upload, Made, Store!Begin
<1>2. req'[q] = request /\ DocOf(q)' = Uploaded(Params(q, request), Now)
  BY <1>1, CallIdentities DEF BasicInv, Types, DocOf
<1>3. PICK params : params = Params(q, request)
  OBVIOUS
<1>4. PICK new : new = Patched(EmptyDocument, request.field.path, params, Now)
  OBVIOUS
<1>5. DocOf(q)' = new
  <2>1. request.field.path = EmptyString
    BY <1>1, DataServiceAssumption
  <2> QED
    BY <1>2, <1>3, <1>4, <2>1, UploadIsPatchOfEmptyDocument
<1>6. /\ Tree(EmptyDocument, NodeKeys)
      /\ \A n \in DOMAIN EmptyDocument : EmptyDocument[n] \in Requests \cup {Now, Map}
  BY EmptyDocumentIsTree
<1>7. /\ Tree(new, NodeKeys)
      /\ \A n \in DOMAIN new : new[n] \in Requests \cup {Now, Map}
      /\ IsPatch(EmptyDocument, new, PathSegments(request.field.path), params, Now)
  BY <1>3, <1>4, <1>6, PatchOfDocument
<1>8. Base(q)' = EmptyDocument /\ ParamsOf(q)' = params
  BY <1>1, <1>2, <1>3 DEF Base, ParamsOf
<1> QED
  BY <1>2, <1>5, <1>7, <1>8 DEF DocumentOK

LEMMA MergedDocumentOK ==
    ASSUME BasicInv, DocumentsOK, NEW q \in Requests, MergeAndStore(q)
    PROVE  DocumentOK(q)'
<1>1. /\ pc[q] = "get" /\ req[q].op = "Patch" /\ answer[GetCall(q)] = "ok"
      /\ req' = req /\ seen' = seen
      /\ args' = [args EXCEPT ![PutCall(q)] =
                     [op |-> "Store", key |-> StoreKey(req[q]), doc |-> MergedDocument(q)]]
  BY DEF MergeAndStore, Store!Begin
<1>2. DocOf(q)' = MergedDocument(q)
  BY <1>1, CallIdentities DEF BasicInv, Types, DocOf
<1>3. effect[GetCall(q)] = "applied" /\ ~Began(PutCall(q)) /\ req[q] \in Arrivals
  BY <1>1, CallIdentities DEF BasicInv, CallOK, PcOK
<1>4. PICK doc : doc = DocumentSeen(GetCall(q))
  OBVIOUS
<1>5. Tree(doc, NodeKeys) /\ \A n \in DOMAIN doc : doc[n] \in Requests \cup {Now, Map}
  <2>1. CASE doc = EmptyDocument
    BY <2>1, EmptyDocumentIsTree
  <2>2. CASE \E w \in Requests : Stored(w) /\ doc = DocOf(w)
    BY <2>2 DEF DocumentsOK, DocumentOK
  <2> QED
    BY <1>3, <1>4, <2>1, <2>2, DocumentSeenWasStored
<1>6. Base(q)' = doc
  <2>1. CASE ~seen[GetCall(q)].visible
    BY <1>1, <1>4, <2>1 DEF Base, DocumentSeen
  <2>2. CASE seen[GetCall(q)].visible
    <3>1. PICK w \in Requests : seen[GetCall(q)].by = PutCall(w) /\ Stored(w)
      BY <1>3, <2>2, DocumentSeenWasStored
    <3>2. PutCall(w) # PutCall(q)
      BY <1>3, <3>1 DEF Stored
    <3>3. args'[PutCall(w)] = args[PutCall(w)]
      BY <1>1, <3>2, CallIdentities DEF BasicInv, Types
    <3> QED
      BY <1>1, <1>4, <2>2, <3>1, <3>3 DEF Base, DocumentSeen
  <2> QED
    BY <2>1, <2>2
<1>7. PICK a \in Arrivals : a = req[q]
  BY <1>3
<1>8. PICK params : params = Params(q, a)
  OBVIOUS
<1>9. PICK new : new = Patched(doc, a.field.path, params, Now)
  OBVIOUS
<1>10. DocOf(q)' = new
  BY <1>2, <1>4, <1>7, <1>8, <1>9 DEF MergedDocument
<1>11. /\ Tree(new, NodeKeys)
       /\ \A n \in DOMAIN new : new[n] \in Requests \cup {Now, Map}
       /\ IsPatch(doc, new, PathSegments(a.field.path), params, Now)
  BY <1>5, <1>8, <1>9, PatchOfDocument
<1>12. ParamsOf(q)' = params /\ req'[q] = a
  BY <1>1, <1>7, <1>8 DEF ParamsOf
<1> QED
  BY <1>6, <1>10, <1>11, <1>12 DEF DocumentOK

LEMMA DocumentStaysOK ==
    ASSUME BasicInv, Kept, NEW q \in Requests, Stored(q), DocumentOK(q)
    PROVE  DocumentOK(q)'
<1>1. req'[q] = req[q] /\ DocOf(q)' = DocOf(q) /\ Base(q)' = Base(q)
  BY StoredStays
<1>2. ParamsOf(q)' = ParamsOf(q)
  BY <1>1 DEF ParamsOf
<1> QED
  BY <1>1, <1>2 DEF DocumentOK

(* Together: every stored document is a patch of its base.                 *)
LEMMA NextKeepsDocuments ==
    ASSUME BasicInv, DocumentsOK, Next
    PROVE  DocumentsOK'
<1>1. BasicInv' /\ Kept
  BY NextKeepsBasics
<1>2. ASSUME NEW q \in Requests, Stored(q)' PROVE DocumentOK(q)'
  <2>1. CASE Stored(q)
    BY <1>1, <2>1, DocumentStaysOK DEF DocumentsOK
  <2>2. CASE ~Stored(q)
    BY <1>2, <2>2, BecomesStored, UploadedDocumentOK, MergedDocumentOK
  <2> QED
    BY <2>1, <2>2
<1> QED
  BY <1>2 DEF DocumentsOK

-----------------------------------------------------------------------------
(* The document of a request has its own parameter, unless the request     *)
(* itself put another value in its place.                                  *)
LEMMA OwnParameterIsStored ==
    ASSUME BasicInv, DocumentsOK, NEW p \in Requests, Stored(p), Acked(p)
    PROVE  StillHolds(DocOf(p), p) \/ Removes(p, p)
<1>1. PICK doc : doc = DocOf(p)
  OBVIOUS
<1>2. PICK node : node = PathSegments(req[p].field.path)
  OBVIOUS
<1>3. PICK params : params = ParamsOf(p)
  OBVIOUS
<1>4. IsPatch(Base(p), doc, node, params, Now)
  BY <1>1, <1>2, <1>3 DEF DocumentsOK, DocumentOK
<1>5. req[p] \in Arrivals /\ req[p].op \in {"Upload", "Patch"}
  BY DEF BasicInv, PutOK, PcOK, Stored
<1>6. req[p].field.key \in DOMAIN params /\ \A k \in DOMAIN params : params[k] \in {p, Now}
  BY <1>3, <1>5, ParamsNodes DEF ParamsOf
<1>7. Written(p) = Append(node, req[p].field.key)
  BY <1>2 DEF Written
<1>8. ~Before(p, p)
  BY DEF Before, BasicInv, InOrder
<1>9. CASE IsStrictPrefix(TimestampNode, Written(p))
  <2>1. Replaces(p, p)
    BY <1>5, <1>9 DEF Replaces, TimestampNode
  <2> QED
    BY <1>8, <2>1 DEF Removes, SameData
<1>10. CASE ~IsStrictPrefix(TimestampNode, Written(p))
  <2>1. Written(p) \in DOMAIN doc /\ doc[Written(p)] \in {p, Now}
    <3>1. CASE TimestampNode = Written(p)
      BY <1>4, <3>1 DEF IsPatch
    <3>2. CASE TimestampNode # Written(p)
      <4>1. ~IsPrefix(TimestampNode, Written(p))
        BY <1>10, <3>2 DEF IsStrictPrefix
      <4> QED
        BY <1>4, <1>6, <1>7, <4>1 DEF IsPatch
    <3> QED
      BY <3>1, <3>2
  <2>2. StillHolds(doc, p)
    BY <1>8, <2>1, DataServiceAssumption DEF StillHolds
  <2> QED
    BY <1>1, <2>2
<1> QED
  BY <1>9, <1>10

(* A patch keeps a parameter it does not remove.                           *)
LEMMA PatchKeepsParameter ==
    ASSUME BasicInv, DocumentsOK, NEW p \in Requests, NEW q \in Requests, Stored(q),
           Acked(p), SameData(q, p), ~Before(q, p), ~Replaces(q, p),
           NEW base, base = Base(q), StillHolds(base, p)
    PROVE  StillHolds(DocOf(q), p)
<1>1. PICK doc : doc = DocOf(q)
  OBVIOUS
<1>2. PICK node : node = PathSegments(req[q].field.path)
  OBVIOUS
<1>3. PICK params : params = ParamsOf(q)
  OBVIOUS
<1>4. IsPatch(base, doc, node, params, Now)
  BY <1>1, <1>2, <1>3 DEF DocumentsOK, DocumentOK
<1>5. req[q] \in Arrivals /\ req[q].op \in {"Upload", "Patch"}
  BY DEF BasicInv, PutOK, PcOK, Stored
<1>6. \A k \in DOMAIN params : params[k] \in {q, Now}
  BY <1>3, <1>5, ParamsNodes DEF ParamsOf
<1>7. PICK n \in DOMAIN base : n = Written(p) /\ ~\E r \in Requests : base[n] = r /\ Before(r, p)
  BY DEF StillHolds
<1>8. /\ ~IsStrictPrefix(TimestampNode, n)
      /\ \A k \in DOMAIN params : ~IsStrictPrefix(Append(node, k), n)
  BY <1>2, <1>3, <1>5, <1>7 DEF Replaces, TimestampNode, ParamsOf
<1>9. n \in DOMAIN doc
  BY <1>4, <1>8 DEF IsPatch, IsStrictPrefix
<1>10. doc[n] = base[n] \/ doc[n] \in {q, Now, Map}
  BY <1>4, <1>6, <1>9 DEF IsPatch
<1>11. ~\E r \in Requests : doc[n] = r /\ Before(r, p)
  BY <1>7, <1>10, DataServiceAssumption
<1> QED
  BY <1>1, <1>7, <1>9, <1>11 DEF StillHolds

(* What the document of a patch is explained by, is that of the document   *)
(* it has read.                                                            *)
ReadsExplained(p, q) ==
    Before(p, q) /\ req[q].op = "Patch" =>
        \A w \in Requests : Stored(w) /\ Applied(w) /\ MayMiss(p, w) => Explained(p, w)

(* A document that is new in this step lacks the parameter of p for a      *)
(* reason.                                                                 *)
NewDocumentsExplained ==
    BasicInv /\ NeverOlder /\ DocumentsOK =>
        \A p, q \in Requests : MayMiss(p, q) /\ ReadsExplained(p, q) => Explained(p, q)

(* An upload or a patch that lacks it removes it; a patch that has not     *)
(* read it has read a document that lacks it, or overlaps p.               *)
LEMMA LossOfNewDocument == NewDocumentsExplained
<1> SUFFICES ASSUME BasicInv, NeverOlder, DocumentsOK, NEW p \in Requests, NEW q \in Requests,
                    MayMiss(p, q), ReadsExplained(p, q)
             PROVE  Explained(p, q)
  BY DEF NewDocumentsExplained
<1>1. /\ req[p].op \in {"Upload", "Patch"} /\ Acked(p)
      /\ Stored(q) /\ SameData(q, p) /\ ~Before(q, p)
      /\ req[q].op \in {"Upload", "Patch"}
  BY DEF MayMiss, Stored
<1>2. CASE q = p
  BY <1>1, <1>2, OwnParameterIsStored DEF Explained
<1>3. CASE q # p /\ req[q].op = "Upload"
  BY <1>1, <1>3 DEF Explained, Removes
<1>4. CASE q # p /\ req[q].op = "Patch" /\ (~Before(p, q) \/ ~seen[GetCall(q)].visible)
  BY <1>1, <1>4 DEF Explained, Removes, Overlap
<1>5. CASE q # p /\ req[q].op = "Patch" /\ Replaces(q, p)
  BY <1>1, <1>5 DEF Explained, Removes
<1>6. CASE q # p /\ req[q].op = "Patch" /\ Before(p, q) /\ seen[GetCall(q)].visible /\ ~Replaces(q, p)
  <2>1. effect[GetCall(q)] = "applied"
    BY <1>1, <1>6 DEF BasicInv, PutOK, Stored
  <2>2. PICK w \in Requests :
           /\ seen[GetCall(q)].by = PutCall(w) /\ Stored(w) /\ Applied(w) /\ SameData(w, q)
           /\ DocumentSeen(GetCall(q)) = DocOf(w)
    BY <1>6, <2>1, DocumentSeenWasStored
  <2>3. ~Before(w, p)
    BY <1>1, <1>6, <2>1, <2>2 DEF NeverOlder, ReadsNeverOlder, Before, SameData, Writing
  <2>4. MayMiss(p, w)
    BY <1>1, <2>2, <2>3 DEF MayMiss, SameData
  <2>5. Explained(p, w)
    BY <1>6, <2>2, <2>4 DEF ReadsExplained
  <2>6. CASE \E o \in Requests : (Applied(o) \/ o = w) /\ Removes(o, p)
    BY <2>2, <2>6 DEF Explained
  <2>7. CASE StillHolds(DocOf(w), p)
    <3>1. Base(q) = DocOf(w)
      BY <1>6, <2>2 DEF Base
    <3> QED
      BY <1>1, <1>6, <2>7, <3>1, PatchKeepsParameter DEF Explained
  <2> QED
    BY <2>5, <2>6, <2>7 DEF Explained
<1> QED
  BY <1>1, <1>2, <1>3, <1>4, <1>5, <1>6

(* An explanation given once is good for ever.                             *)
LEMMA RemovesStays ==
    ASSUME BasicInv, Kept, NEW o \in Requests, Began(PutCall(o)),
           NEW p \in Requests, pc[p] # "idle", Removes(o, p)
    PROVE  Removes(o, p)'
<1>1. pc[o] # "idle" /\ (req[o].op = "Patch" => effect[GetCall(o)] = "applied")
  BY DEF BasicInv, PutOK
<1>2. req'[o] = req[o] /\ req'[p] = req[p]
  BY <1>1 DEF Kept
<1>3. (Before(o, p)' <=> Before(o, p)) /\ (Before(p, o)' <=> Before(p, o))
  BY <1>1, BeforeStays
<1>4. req[o].op = "Patch" => seen'[GetCall(o)] = seen[GetCall(o)]
  BY <1>1, CallIdentities DEF Kept
<1>5. Replaces(o, p)' <=> Replaces(o, p)
  BY <1>2 DEF Replaces, Written
<1> QED
  BY <1>2, <1>3, <1>4, <1>5 DEF Removes, SameData, Overlap

LEMMA ExplainedStays ==
    ASSUME BasicInv, Kept, NEW p \in Requests, pc[p] # "idle",
           NEW q \in Requests, Stored(q), Explained(p, q)
    PROVE  Explained(p, q)'
<1>1. req'[p] = req[p] /\ Written(p)' = Written(p)
  BY DEF Kept, Written
<1>2. DocOf(q)' = DocOf(q)
  BY StoredStays
<1>3. \A r \in Requests : Before(r, p)' <=> Before(r, p)
  BY BeforeStays
<1>4. CASE StillHolds(DocOf(q), p)
  <2>1. StillHolds(DocOf(q), p)'
    BY <1>1, <1>2, <1>3, <1>4 DEF StillHolds
  <2> QED
    BY <2>1 DEF Explained
<1>5. CASE \E o \in Requests : (Applied(o) \/ o = q) /\ Removes(o, p)
  <2>1. PICK o \in Requests : (Applied(o) \/ o = q) /\ Removes(o, p)
    BY <1>5
  <2>2. Began(PutCall(o)) /\ PutCall(o) \in Calls
    BY <2>1, CallIdentities DEF Applied, Began, Stored
  <2>3. Removes(o, p)' /\ (Applied(o) => Applied(o)')
    BY <2>1, <2>2, RemovesStays DEF Kept, Applied
  <2> QED
    BY <2>1, <2>3 DEF Explained
<1> QED
  BY <1>4, <1>5 DEF Explained

(* A document that was stored, of a write that was acknowledged.           *)
LEMMA NoLossStays ==
    ASSUME BasicInv, NoLoss, Kept, NEW p \in Requests, Acked(p),
           NEW q \in Requests, Stored(q), MayMiss(p, q)'
    PROVE  Explained(p, q)'
<1>1. pc[p] # "idle" /\ req'[p] = req[p]
  BY DEF BasicInv, PcOK, Acked, Kept
<1>2. req'[q] = req[q]
  BY StoredStays
<1>3. MayMiss(p, q)
  BY <1>1, <1>2, BeforeStays DEF MayMiss, SameData
<1> QED
  BY <1>1, <1>3, ExplainedStays DEF NoLoss

(* Together: every step keeps NoLoss.                                      *)
LEMMA NextKeepsLoss ==
    ASSUME BasicInv, NeverOlder, DocumentsOK, NoLoss, Next
    PROVE  NoLoss'
<1>1. BasicInv' /\ Kept /\ NeverOlder' /\ DocumentsOK'
  BY NextKeepsBasics, NextKeepsOrder, NextKeepsDocuments
<1>2. NewDocumentsExplained'
  BY LossOfNewDocument, PTL
<1>3. ASSUME NEW p \in Requests, NEW q \in Requests, MayMiss(p, q)' PROVE Explained(p, q)'
  <2>1. CASE Stored(q) /\ Acked(p)
    BY <1>1, <1>3, <2>1, NoLossStays
  <2>2. CASE ~(Stored(q) /\ Acked(p))
    <3>1. ReadsExplained(p, q)'
      <4>1. SUFFICES ASSUME Before(p, q)', (req[q].op = "Patch")', NEW w \in Requests,
                            (Stored(w) /\ Applied(w) /\ MayMiss(p, w))'
                     PROVE  Explained(p, w)'
        BY DEF ReadsExplained
      <4>2. Stored(q)' /\ Acked(p)'
        BY <1>3 DEF MayMiss
      <4>3. ~Stored(q)
        <5>1. SUFFICES ASSUME Stored(q) PROVE FALSE
          OBVIOUS
        <5>2. Before(p, q)
          BY <1>1, <4>1, <5>1, StoredStays, BeforeStays
        <5>3. Acked(p)
          BY <1>1, <4>2, <5>2 DEF Before, BasicInv, InOrder, Kept, Acked
        <5> QED
          BY <2>2, <5>1, <5>3
      <4>4. MergeAndStore(q)
        <5>1. ASSUME NEW request \in Arrivals, Upload(q, request) PROVE FALSE
          <6>1. req'[q].op = "Upload"
            BY <5>1 DEF Upload, Made, BasicInv, Types
          <6> QED
            BY <4>1, <6>1
        <5> QED
          BY <4>2, <4>3, <5>1, BecomesStored
      <4>5. /\ result' = result /\ req' = req
            /\ effect' = [effect EXCEPT ![PutCall(q)] = "pending"]
        BY <4>4 DEF MergeAndStore, Continue, Store!Begin
      <4>6. Stored(w) /\ Acked(p)
        BY <4>1, <4>2, <4>5, CallIdentities DEF BasicInv, Types, Stored, Applied, Began, Acked
      <4> QED
        BY <1>1, <4>1, <4>6, NoLossStays
    <3> QED
      BY <1>1, <1>2, <1>3, <3>1 DEF NewDocumentsExplained
  <2> QED
    BY <2>1, <2>2
<1> QED
  BY <1>3 DEF NoLoss

-----------------------------------------------------------------------------
(* The same argument for values that are back: the document a patch has    *)
(* read is the reason, or the patch overlaps what removed the value.       *)
ReadsRevived(d, p, q) ==
    Before(d, q) /\ req[q].op = "Patch" =>
        \A w \in Requests : Stored(w) /\ Applied(w) /\ MayRevive(d, p, w) => Revived(d, w)

(* A document that is new in this step has a value back for a reason.      *)
NewDocumentsRevived ==
    BasicInv /\ NeverOlder /\ DocumentsOK =>
        \A d, p, q \in Requests : MayRevive(d, p, q) /\ ReadsRevived(d, p, q) => Revived(d, q)

(* A document has a value of its own request or of the document before it. *)
LEMMA ValuesAreOwnOrKept ==
    ASSUME BasicInv, DocumentsOK, NEW q \in Requests, Stored(q), NEW p \in Requests, p # q,
           NEW n \in DOMAIN DocOf(q), DocOf(q)[n] = p
    PROVE  /\ seen[GetCall(q)].visible /\ req[q].op = "Patch"
           /\ n \in DOMAIN DocumentSeen(GetCall(q)) /\ DocumentSeen(GetCall(q))[n] = p
<1>1. PICK doc : doc = DocOf(q)
  OBVIOUS
<1>2. PICK base : base = Base(q)
  OBVIOUS
<1>3. PICK params : params = ParamsOf(q)
  OBVIOUS
<1>4. IsPatch(base, doc, PathSegments(req[q].field.path), params, Now)
  BY <1>1, <1>2, <1>3 DEF DocumentsOK, DocumentOK
<1>5. req[q] \in Arrivals /\ req[q].op \in {"Upload", "Patch"}
  BY DEF BasicInv, PutOK, PcOK, Stored
<1>6. \A k \in DOMAIN params : params[k] \in {q, Now}
  BY <1>3, <1>5, ParamsNodes DEF ParamsOf
<1>7. n \in DOMAIN base /\ base[n] = p
  BY <1>1, <1>4, <1>6, DataServiceAssumption DEF IsPatch
<1>8. base # EmptyDocument
  BY <1>7, EmptyDocumentIsTree, DataServiceAssumption
<1> QED
  BY <1>2, <1>5, <1>7, <1>8 DEF Base, DocumentSeen

(* Only a patch keeps a value it did not write, and it has read it.        *)
LEMMA ResurrectionInNewDocument == NewDocumentsRevived
<1> SUFFICES ASSUME BasicInv, NeverOlder, DocumentsOK,
                    NEW d \in Requests, NEW p \in Requests, NEW q \in Requests,
                    MayRevive(d, p, q), ReadsRevived(d, p, q)
             PROVE  Revived(d, q)
  BY DEF NewDocumentsRevived
<1>1. /\ req[d].op \in {"Upload", "Delete"} /\ Acked(d)
      /\ Before(p, d) /\ Stored(q) /\ SameData(q, d) /\ ~Before(q, d)
  BY DEF MayRevive
<1>2. PICK n \in DOMAIN DocOf(q) : DocOf(q)[n] = p
  BY DEF MayRevive
<1>3. /\ seen[GetCall(q)].visible /\ req[q].op = "Patch"
      /\ n \in DOMAIN DocumentSeen(GetCall(q)) /\ DocumentSeen(GetCall(q))[n] = p
  <2>1. p # q
    BY <1>1
  <2> QED
    BY <1>1, <1>2, <2>1, ValuesAreOwnOrKept
<1>4. CASE ~Before(d, q)
  BY <1>1, <1>3, <1>4 DEF Revived, Overlap
<1>5. CASE Before(d, q)
  <2>1. effect[GetCall(q)] = "applied"
    BY <1>1, <1>3 DEF BasicInv, PutOK, Stored
  <2>2. PICK w \in Requests :
           /\ seen[GetCall(q)].by = PutCall(w) /\ Stored(w) /\ Applied(w) /\ SameData(w, q)
           /\ DocumentSeen(GetCall(q)) = DocOf(w)
    BY <1>3, <2>1, DocumentSeenWasStored
  <2>3. ~Before(w, d)
    BY <1>1, <1>5, <2>1, <2>2 DEF NeverOlder, ReadsNeverOlder, Before, SameData, Writing
  <2>4. MayRevive(d, p, w)
    BY <1>1, <1>3, <2>2, <2>3 DEF MayRevive, SameData
  <2>5. Revived(d, w)
    BY <1>3, <1>5, <2>2, <2>4 DEF ReadsRevived
  <2> QED
    BY <2>2, <2>5 DEF Revived
<1> QED
  BY <1>4, <1>5

(* A value back in a document that was stored before this step.            *)
LEMMA NoResurrectionStays ==
    ASSUME BasicInv, NoResurrection, Kept, NEW d \in Requests, Acked(d), NEW p \in Requests,
           NEW q \in Requests, Stored(q), MayRevive(d, p, q)'
    PROVE  Revived(d, q)'
<1>1. pc[d] # "idle" /\ req'[d] = req[d]
  BY DEF BasicInv, PcOK, Acked, Kept
<1>2. req'[q] = req[q] /\ DocOf(q)' = DocOf(q)
  BY StoredStays
<1>3. MayRevive(d, p, q)
  BY <1>1, <1>2, BeforeStays DEF MayRevive, SameData
<1>4. PICK o \in Requests : /\ Applied(o) \/ o = q
                            /\ req[o].op = "Patch" /\ SameData(o, d) /\ Overlap(o, d)
  BY <1>1, <1>3 DEF NoResurrection, Revived
<1>5. Began(PutCall(o)) /\ PutCall(o) \in Calls /\ pc[o] # "idle"
  BY <1>4, CallIdentities DEF Applied, Began, Stored, BasicInv, PutOK
<1>6. req'[o] = req[o] /\ (Applied(o) => Applied(o)')
  BY <1>5 DEF Kept, Applied
<1>7. Overlap(o, d)'
  BY <1>1, <1>4, <1>5, BeforeStays DEF Overlap
<1> QED
  BY <1>1, <1>4, <1>6, <1>7 DEF Revived, SameData

(* Together: every step keeps NoResurrection.                              *)
LEMMA NextKeepsResurrection ==
    ASSUME BasicInv, NeverOlder, DocumentsOK, NoResurrection, Next
    PROVE  NoResurrection'
<1>1. BasicInv' /\ Kept /\ NeverOlder' /\ DocumentsOK'
  BY NextKeepsBasics, NextKeepsOrder, NextKeepsDocuments
<1>2. NewDocumentsRevived'
  BY ResurrectionInNewDocument, PTL
<1>3. ASSUME NEW d \in Requests, NEW p \in Requests, NEW q \in Requests, MayRevive(d, p, q)'
      PROVE  Revived(d, q)'
  <2>1. CASE Stored(q) /\ Acked(d)
    BY <1>1, <1>3, <2>1, NoResurrectionStays
  <2>2. CASE ~(Stored(q) /\ Acked(d))
    <3>1. ReadsRevived(d, p, q)'
      <4>1. SUFFICES ASSUME Before(d, q)', (req[q].op = "Patch")', NEW w \in Requests,
                            (Stored(w) /\ Applied(w) /\ MayRevive(d, p, w))'
                     PROVE  Revived(d, w)'
        BY DEF ReadsRevived
      <4>2. Stored(q)' /\ Acked(d)'
        BY <1>3 DEF MayRevive
      <4>3. ~Stored(q)
        <5>1. SUFFICES ASSUME Stored(q) PROVE FALSE
          OBVIOUS
        <5>2. Before(d, q)
          BY <1>1, <4>1, <5>1, StoredStays, BeforeStays
        <5>3. Acked(d)
          BY <1>1, <4>2, <5>2 DEF Before, BasicInv, InOrder, Kept, Acked
        <5> QED
          BY <2>2, <5>1, <5>3
      <4>4. MergeAndStore(q)
        <5>1. ASSUME NEW request \in Arrivals, Upload(q, request) PROVE FALSE
          <6>1. req'[q].op = "Upload"
            BY <5>1 DEF Upload, Made, BasicInv, Types
          <6> QED
            BY <4>1, <6>1
        <5> QED
          BY <4>2, <4>3, <5>1, BecomesStored
      <4>5. /\ result' = result /\ req' = req
            /\ effect' = [effect EXCEPT ![PutCall(q)] = "pending"]
        BY <4>4 DEF MergeAndStore, Continue, Store!Begin
      <4>6. Stored(w) /\ Acked(d)
        BY <4>1, <4>2, <4>5, CallIdentities DEF BasicInv, Types, Stored, Applied, Began, Acked
      <4> QED
        BY <1>1, <4>1, <4>6, NoResurrectionStays
    <3> QED
      BY <1>1, <1>2, <1>3, <3>1 DEF NewDocumentsRevived
  <2> QED
    BY <2>1, <2>2
<1> QED
  BY <1>3 DEF NoResurrection

-----------------------------------------------------------------------------
(* A request is made with one of the arrivals, and its key is checked.     *)
LEMMA MadeByArrival ==
    ASSUME BasicInv, Next, NEW r \in Requests, pc[r] = "idle", pc'[r] # "idle"
    PROVE  \E request \in Arrivals : /\ req'[r] = request
                                     /\ AcceptsKey(request) \/ result'[r] = "invalid"
                                     /\ pc'[r] # "returned" \/ result'[r] = "invalid"
<1>1. ~StoreStep /\ ~Tick
  BY DEF StoreStep, Tick, ownVars
<1>2. ~Crash
  BY DEF Crash, InService, BasicInv, Types
<1>3. PICK q \in Requests : Arrive(q) \/ RequestStep(q)
  BY <1>1, <1>2 DEF Next
<1>4. q = r /\ ~RequestStep(r)
  BY <1>3 DEF BasicInv, Types, Arrive, RejectKey, Upload, Delete, Read, RequestStep,
     MergeAndStore, AnswerDownload, ReadFails, AnswerWrite, Return, Continue
<1>5. PICK request \in Arrivals : \/ RejectKey(r, request) \/ Upload(r, request)
                                 \/ Delete(r, request) \/ Read(r, request)
  BY <1>3, <1>4 DEF Arrive
<1>6. req'[r] = request
  BY <1>5 DEF BasicInv, Types, RejectKey, Upload, Delete, Read, Made
<1>7. CASE RejectKey(r, request)
  BY <1>6, <1>7 DEF BasicInv, Types, RejectKey, Return
<1>8. CASE Upload(r, request) \/ Delete(r, request) \/ Read(r, request)
  <2>1. AcceptsKey(request)
    BY <1>8 DEF Upload, Delete, Read
  <2>2. pc'[r] # "returned"
    BY <1>8 DEF Upload, Delete, Read, Continue, BasicInv, Types
  <2> QED
    BY <1>6, <2>1, <2>2
<1> QED
  BY <1>5, <1>7, <1>8

(* Every step keeps KeysOK.                                                *)
LEMMA NextKeepsKeys ==
    ASSUME BasicInv, KeysOK, Next
    PROVE  KeysOK'
<1>1. BasicInv' /\ Kept
  BY NextKeepsBasics
<1>2. ASSUME NEW r \in Requests, pc'[r] # "idle", result'[r] # "invalid"
      PROVE  AcceptsKey(req'[r])
  <2>1. CASE pc[r] = "idle"
    BY <1>2, <2>1, MadeByArrival
  <2>2. CASE pc[r] # "idle"
    <3>1. result[r] # "invalid" /\ req'[r] = req[r]
      BY <1>1, <1>2, <2>2 DEF Kept, BasicInv, PcOK
    <3> QED
      BY <2>2, <3>1 DEF KeysOK
  <2> QED
    BY <2>1, <2>2
<1> QED
  BY <1>2 DEF KeysOK

(* An answer of the store is given once.                                   *)
LEMMA AnswersStay ==
    ASSUME BasicInv, Next, NEW c \in Calls, answer[c] # "none"
    PROVE  answer'[c] = answer[c]
<1>1. answer \in [Calls -> {"none", "ok", "refused", "unknown"}]
  BY DEF BasicInv, Types
<1>2. ASSUME NEW r \in Requests, Arrive(r) \/ RequestStep(r) PROVE answer' = answer
  BY <1>2 DEF Arrive, RejectKey, Upload, Delete, Read, RequestStep, MergeAndStore,
     AnswerDownload, ReadFails, AnswerWrite, storeVars, Store!Begin
<1>3. CASE StoreStep
  BY <1>1, <1>3 DEF StoreStep, Store!CallStep, Store!ApplyWrite, Store!ApplyRead, Store!Drop,
     Store!Answer, Store!TurnAway
<1>4. CASE Tick
  BY <1>4 DEF Tick, Store!Age
<1>5. CASE Crash
  BY <1>1, <1>5 DEF Crash, Store!Crash
<1> QED
  BY <1>2, <1>3, <1>4, <1>5 DEF Next

(* What a read saw stays what it is.                                       *)
LEMMA DocumentSeenStays ==
    ASSUME BasicInv, Kept, NEW r \in Requests, effect[GetCall(r)] = "applied"
    PROVE  /\ seen'[GetCall(r)] = seen[GetCall(r)]
           /\ DocumentSeen(GetCall(r))' = DocumentSeen(GetCall(r))
<1>1. seen'[GetCall(r)] = seen[GetCall(r)]
  BY CallIdentities DEF Kept
<1>2. CASE ~seen[GetCall(r)].visible
  BY <1>1, <1>2 DEF DocumentSeen
<1>3. CASE seen[GetCall(r)].visible
  <2>1. PICK w \in Requests : seen[GetCall(r)].by = PutCall(w) /\ Stored(w)
    BY <1>3, DocumentSeenWasStored
  <2>2. args'[PutCall(w)] = args[PutCall(w)]
    BY <2>1, CallIdentities DEF Stored, Kept
  <2> QED
    BY <1>1, <1>3, <2>1, <2>2 DEF DocumentSeen
<1> QED
  BY <1>1, <1>2, <1>3

(* Every step keeps DownloadsOK.                                           *)
LEMMA NextKeepsDownloads ==
    ASSUME BasicInv, DownloadsOK, Next
    PROVE  DownloadsOK'
<1>1. BasicInv' /\ Kept
  BY NextKeepsBasics
<1>2. SUFFICES ASSUME NEW g \in Requests, pc'[g] = "returned", req'[g].op \in Downloading
               PROVE  /\ answer'[GetCall(g)] # "none"
                      /\ answer'[GetCall(g)] = "ok" =>
                            result'[g] \in {"unknown", IF Found(g)' THEN "ok" ELSE "notfound"}
  BY DEF DownloadsOK
<1>3. GetCall(g) \in Calls
  BY CallIdentities
<1>4. CASE pc[g] = "idle"
  <2>1. PICK request \in Arrivals : req'[g] = request /\ result'[g] = "invalid"
    BY <1>2, <1>4, MadeByArrival
  <2>2. ResultOK(g)'
    BY <1>1 DEF BasicInv
  <2>3. RejectKey(g, request)
    <3>1. ~StoreStep /\ ~Tick /\ ~Crash
      BY <1>2, <1>4 DEF StoreStep, Tick, ownVars, Crash, InService, BasicInv, Types
    <3>2. PICK q \in Requests : Arrive(q) \/ RequestStep(q)
      BY <3>1 DEF Next
    <3>3. q = g /\ ~RequestStep(g)
      BY <1>2, <1>4, <3>2 DEF BasicInv, Types, Arrive, RejectKey, Upload, Delete, Read,
         RequestStep, MergeAndStore, AnswerDownload, ReadFails, AnswerWrite, Return, Continue
    <3>4. \E a \in Arrivals : RejectKey(g, a) /\ req'[g] = a
      BY <1>2, <1>4, <3>2, <3>3 DEF BasicInv, Types, Arrive, RejectKey, Upload, Delete, Read,
         Continue, Made
    <3> QED
      BY <2>1, <3>4
  <2>4. ~AcceptsKey(request) /\ request.op \notin Writing
    BY <1>2, <2>1, <2>3 DEF RejectKey, Writing, Downloading
  <2> QED
    BY <2>4 DEF AcceptsKey
<1>5. CASE pc[g] = "returned"
  <2>1. req'[g] = req[g] /\ result'[g] = result[g]
    BY <1>1, <1>5 DEF Kept
  <2>2. answer[GetCall(g)] # "none" /\ answer'[GetCall(g)] = answer[GetCall(g)]
    BY <1>2, <1>3, <1>5, <2>1, AnswersStay DEF DownloadsOK
  <2>3. ASSUME answer[GetCall(g)] = "ok" PROVE Found(g)' <=> Found(g)
    <3>1. effect[GetCall(g)] = "applied"
      BY <1>3, <2>3 DEF BasicInv, CallOK
    <3>2. FieldPath(g)' = FieldPath(g)
      BY <2>1 DEF FieldPath
    <3> QED
      BY <1>1, <2>1, <3>1, <3>2, DocumentSeenStays DEF Found
  <2> QED
    BY <1>2, <1>5, <2>1, <2>2, <2>3 DEF DownloadsOK
<1>6. CASE pc[g] \in {"get", "put"}
  <2>1. req'[g] = req[g] /\ pc[g] = "get" /\ Began(GetCall(g))
    BY <1>1, <1>2, <1>6 DEF Kept, BasicInv, PcOK, PutOK, Writing, Downloading
  <2>2. CASE Crash
    BY <1>3, <2>1, <2>2 DEF Crash, Store!Crash, InService, Began, BasicInv, Types
  <2>3. CASE ~Crash
    <3>1. ~StoreStep /\ ~Tick
      BY <1>2, <1>6 DEF StoreStep, Tick, ownVars
    <3>2. PICK q \in Requests : Arrive(q) \/ RequestStep(q)
      BY <2>3, <3>1 DEF Next
    <3>3. q = g /\ ~Arrive(g)
      BY <1>2, <1>6, <3>2 DEF BasicInv, Types, Arrive, RejectKey, Upload, Delete, Read, Made,
         RequestStep, MergeAndStore, AnswerDownload, ReadFails, AnswerWrite, Return, Continue
    <3>4. AnswerDownload(g) \/ ReadFails(g)
      BY <1>2, <2>1, <3>2, <3>3 DEF RequestStep, MergeAndStore, AnswerWrite, Continue,
         BasicInv, Types
    <3>5. CASE AnswerDownload(g)
      <4>1. /\ answer'[GetCall(g)] = "ok"
            /\ result'[g] = IF Found(g) THEN "ok" ELSE "notfound"
        BY <3>5 DEF AnswerDownload, Return, storeVars, BasicInv, Types
      <4>2. Found(g)' <=> Found(g)
        BY <3>5 DEF AnswerDownload, storeVars, Found, FieldPath, DocumentSeen
      <4> QED
        BY <4>1, <4>2
    <3>6. CASE ReadFails(g)
      BY <3>6 DEF ReadFails, storeVars
    <3> QED
      BY <3>4, <3>5, <3>6
  <2> QED
    BY <2>2, <2>3
<1> QED
  BY <1>4, <1>5, <1>6 DEF BasicInv, Types

(* The name of an entry stays the name of a write for its key.             *)
LEMMA WrittenForStays ==
    ASSUME BasicInv, Kept, NEW c, NEW k, WrittenFor(c, k)
    PROVE  WrittenFor(c, k)'
<1>1. PICK q \in Requests : c = PutCall(q) /\ Applied(q) /\ StoreKey(req[q]) = k
  BY DEF WrittenFor
<1>2. PutCall(q) \in Calls /\ pc[q] # "idle"
  BY <1>1, CallIdentities DEF Applied, Began, BasicInv, PutOK
<1>3. Applied(q)' /\ req'[q] = req[q]
  BY <1>1, <1>2 DEF Kept, Applied
<1> QED
  BY <1>1, <1>3 DEF WrittenFor

(* Every step keeps the names of entries.                                  *)
LEMMA NextKeepsEntriesNamed ==
    ASSUME BasicInv, EntriesNamed, Next
    PROVE  EntriesNamed'
<1>1. BasicInv' /\ Kept
  BY NextKeepsBasics
<1>2. ASSUME NEW k \in StoreKeys, NEW c, c = db'[k].by, c # NoCall PROVE WrittenFor(c, k)'
  <2>1. CASE db[k].by = c
    BY <1>1, <1>2, <2>1, WrittenForStays DEF EntriesNamed
  <2>2. CASE db[k].by # c
    <3>1. /\ c \in Calls /\ effect[c] = "pending" /\ effect'[c] = "applied"
          /\ args[c].op \in Store!Writes /\ args[c].key = k
      BY <1>2, <2>2, EntryChanges
    <3>2. PICK r \in Requests : c = PutCall(r) /\ StoreKey(req[r]) = k /\ pc[r] # "idle"
      BY <3>1, WritesArePuts DEF Began
    <3>3. req'[r] = req[r]
      BY <1>1, <3>2 DEF Kept
    <3> QED
      BY <3>1, <3>2, <3>3 DEF WrittenFor, Applied
  <2> QED
    BY <2>1, <2>2
<1>3. ASSUME NEW d \in Requests, Applied(d)' PROVE (db[StoreKey(req[d])].by # NoCall)'
  <2>1. PutCall(d) \in Calls /\ NoCall \notin Calls
    BY CallIdentities
  <2>2. Began(PutCall(d))
    BY <1>3, <2>1, TakesEffect DEF Applied, Began
  <2>3. /\ req'[d] = req[d] /\ args[PutCall(d)].key = StoreKey(req[d])
        /\ req[d] \in Arrivals
    BY <1>1, <2>2 DEF BasicInv, PutOK, PcOK, Kept
  <2>4. PICK k \in StoreKeys : k = StoreKey(req[d])
    BY <2>3, KeysOfArrivals
  <2>5. CASE Applied(d)
    <3>1. db[k].by # NoCall
      BY <2>4, <2>5 DEF EntriesNamed
    <3>2. db'[k].by # NoCall
      BY <2>1, <3>1, EntryChanges
    <3> QED
      BY <2>3, <2>4, <3>2
  <2>6. CASE ~Applied(d)
    <3>1. args[PutCall(d)].op \notin Store!Reads
      BY <2>2 DEF BasicInv, PutOK, Store!Reads
    <3>2. db'[k].by = PutCall(d)
      BY <1>3, <2>1, <2>3, <2>4, <2>6, <3>1, TakesEffect DEF Applied
    <3> QED
      BY <2>1, <2>3, <2>4, <3>2
  <2> QED
    BY <2>5, <2>6
<1> QED
  BY <1>2, <1>3 DEF EntriesNamed

(* Every step keeps the names of reads.                                    *)
LEMMA NextKeepsReadsNamed ==
    ASSUME BasicInv, EntriesNamed, ReadsNamed, Next
    PROVE  ReadsNamed'
<1>1. BasicInv' /\ Kept
  BY NextKeepsBasics
<1>2. SUFFICES ASSUME NEW g \in Requests, effect'[GetCall(g)] = "applied"
               PROVE  (/\ seen[GetCall(g)].by # NoCall =>
                             WrittenFor(seen[GetCall(g)].by, StoreKey(req[g]))
                       /\ \A d \in before[g] :
                             Acked(d) /\ req[d].op \in Writing /\ SameData(d, g) =>
                                seen[GetCall(g)].by # NoCall)'
  BY DEF ReadsNamed
<1>3. GetCall(g) \in Calls
  BY CallIdentities
<1>4. Began(GetCall(g))
  BY <1>2, <1>3, TakesEffect DEF Began
<1>5. /\ pc[g] # "idle" /\ req'[g] = req[g] /\ before'[g] = before[g]
      /\ args[GetCall(g)].op \in Store!Reads /\ req[g] \in Arrivals
      /\ args[GetCall(g)].key = StoreKey(req[g])
  BY <1>1, <1>4 DEF BasicInv, GetOK, PcOK, Kept
<1>6. PICK k \in StoreKeys : k = StoreKey(req[g])
  BY <1>5, KeysOfArrivals
<1>7. ASSUME NEW d \in before[g], (Acked(d) /\ req[d].op \in Writing /\ SameData(d, g))'
      PROVE  /\ d \in Requests /\ Acked(d) /\ req[d].op \in Writing /\ SameData(d, g)
             /\ Applied(d)
  <2>1. d \in Requests /\ pc[d] = "returned"
    BY DEF BasicInv, Types, InOrder
  <2>2. req'[d] = req[d] /\ result'[d] = result[d]
    BY <1>1, <2>1 DEF Kept
  <2>3. Acked(d) /\ req[d].op \in Writing /\ SameData(d, g)
    BY <1>5, <1>7, <2>2 DEF Acked, SameData
  <2> QED
    BY <2>1, <2>3 DEF BasicInv, ResultOK
<1>8. CASE effect[GetCall(g)] = "applied"
  <2>1. seen'[GetCall(g)] = seen[GetCall(g)]
    BY <1>1, <1>3, <1>8 DEF Kept
  <2>2. ASSUME NEW c, c = seen[GetCall(g)].by, c # NoCall PROVE WrittenFor(c, k)'
    BY <1>1, <1>6, <1>8, <2>2, WrittenForStays DEF ReadsNamed
  <2>3. ASSUME NEW d \in before[g], (Acked(d) /\ req[d].op \in Writing /\ SameData(d, g))'
        PROVE  seen[GetCall(g)].by # NoCall
    BY <1>7, <1>8, <2>3 DEF ReadsNamed
  <2> QED
    BY <1>5, <1>6, <2>1, <2>2, <2>3
<1>9. CASE effect[GetCall(g)] # "applied"
  <2>1. args[GetCall(g)].op \notin Store!Writes
    BY <1>5 DEF Store!Reads, Store!Writes
  <2>2. seen'[GetCall(g)].by = db[k].by
    BY <1>2, <1>3, <1>5, <1>6, <1>9, <2>1, TakesEffect
  <2>3. ASSUME NEW c, c = db[k].by, c # NoCall PROVE WrittenFor(c, k)'
    BY <1>1, <2>3, WrittenForStays DEF EntriesNamed
  <2>4. ASSUME NEW d \in before[g], (Acked(d) /\ req[d].op \in Writing /\ SameData(d, g))'
        PROVE  db[k].by # NoCall
    BY <1>6, <1>7, <2>4 DEF EntriesNamed, SameData
  <2> QED
    BY <1>5, <1>6, <2>2, <2>3, <2>4
<1> QED
  BY <1>8, <1>9

-----------------------------------------------------------------------------
(* Nothing is stored at the start.                                         *)
LEMMA InitialInvariant == Init => IInv
<1> SUFFICES ASSUME Init PROVE IInv
  OBVIOUS
<1>1. BasicInv
  BY InitialState
<1>2. \A r \in Requests : /\ ~Stored(r) /\ ~Applied(r) /\ ~Acked(r)
                          /\ effect[GetCall(r)] # "applied" /\ pc[r] = "idle"
  BY CallIdentities
  DEF Init, Store!Init, Stored, Began, Applied, Acked
<1>3. NeverOlder /\ DocumentsOK /\ NoLoss /\ NoResurrection
  BY <1>2 DEF NeverOlder, EntriesNeverOlder, ReadsNeverOlder, DocumentsOK, NoLoss, MayMiss,
     NoResurrection, MayRevive
<1>4. KeysOK /\ DownloadsOK /\ ReadsNamed
  BY <1>2 DEF KeysOK, DownloadsOK, ReadsNamed
<1>5. EntriesNamed
  BY <1>2 DEF EntriesNamed, Init, Store!Init, Store!NoEntry
<1> QED
  BY <1>1, <1>3, <1>4, <1>5 DEF IInv, LastWrites

(* No step of the service breaks the invariant.                            *)
LEMMA InvariantIsInductive == IInv /\ [Next]_vars => IInv'
<1> SUFFICES ASSUME IInv, [Next]_vars PROVE IInv'
  OBVIOUS
<1>1. CASE Next
  BY <1>1, NextKeepsBasics, NextKeepsOrder, NextKeepsDocuments, NextKeepsLoss,
     NextKeepsResurrection, NextKeepsKeys, NextKeepsDownloads, NextKeepsEntriesNamed,
     NextKeepsReadsNamed DEF IInv, LastWrites
<1>2. CASE UNCHANGED vars
  BY <1>2
  DEF vars, storeVars, ownVars, IInv, BasicInv, Types, CallOK, GetOK, PutOK, PcOK, ResultOK,
     InOrder, SeenWasStored, EntriesWereStored, ReadsWereStored, StoredFor, NeverOlder,
     EntriesNeverOlder, ReadsNeverOlder, DocumentsOK, DocumentOK, NoLoss, MayMiss, Explained,
     NoResurrection, MayRevive, Revived, Began, Stored, DocOf, Base, ParamsOf, DocumentSeen,
     Acked, Applied, Before, Overlap, SameData, StillHolds, Written, Removes, Replaces,
     Store!Visible, KeysOK, DownloadsOK, Found, FieldPath, LastWrites, EntriesNamed,
     ReadsNamed, WrittenFor
<1> QED
  BY <1>1, <1>2

(* Each part of the invariant is kept by every step and crash of the       *)
(* service (data.go), so it holds in every run.                            *)
THEOREM ServiceInvariant == Spec => []IInv
  BY InitialInvariant, InvariantIsInductive, PTL DEF Spec

(* What somebody can see after an acknowledged write was stored, and not   *)
(* by a request that was over before it.                                   *)
LEMMA VisibleWasStored ==
    ASSUME BasicInv, NeverOlder, NEW p \in Requests, req[p].op \in Writing, Acked(p),
           NEW doc \in VisibleAfter(p)
    PROVE  \E w \in Requests : /\ doc = DocOf(w) /\ Stored(w) /\ Applied(w)
                               /\ SameData(w, p) /\ ~Before(w, p)
<1>1. Applied(p) /\ req[p] \in Arrivals
  BY DEF BasicInv, ResultOK, PcOK, Acked
<1>2. StoreKey(req[p]) \in StoreKeys
  BY <1>1, KeysOfArrivals
<1>3. CASE /\ Store!Visible(db[StoreKey(req[p])])
           /\ doc = args[db[StoreKey(req[p])].by].doc
  <2>1. PICK k \in StoreKeys : k = StoreKey(req[p])
    BY <1>2
  <2>2. StoredFor(db[k].by, k)
    BY <1>3, <2>1 DEF BasicInv, SeenWasStored, EntriesWereStored
  <2>3. PICK w \in Requests : db[k].by = PutCall(w) /\ Stored(w) /\ Applied(w) /\ StoreKey(req[w]) = k
    BY <2>2 DEF StoredFor
  <2>4. ~Before(w, p)
    BY <1>1, <2>1, <2>3 DEF NeverOlder, EntriesNeverOlder
  <2> QED
    BY <1>3, <2>1, <2>3, <2>4 DEF DocOf, SameData
<1>4. CASE \E g \in Requests :
              /\ req[g].op \in Downloading /\ SameData(g, p) /\ p \in before[g]
              /\ result[g] \in {"ok", "notfound"} /\ seen[GetCall(g)].visible
              /\ doc = args[seen[GetCall(g)].by].doc
  <2>1. PICK g \in Requests :
              /\ req[g].op \in Downloading /\ SameData(g, p) /\ p \in before[g]
              /\ result[g] \in {"ok", "notfound"} /\ seen[GetCall(g)].visible
              /\ doc = args[seen[GetCall(g)].by].doc
    BY <1>4
  <2>2. effect[GetCall(g)] = "applied"
    BY <2>1 DEF BasicInv, ResultOK
  <2>3. PICK w \in Requests : /\ seen[GetCall(g)].by = PutCall(w) /\ Stored(w) /\ Applied(w)
                              /\ SameData(w, g)
    BY <2>1, <2>2, DocumentSeenWasStored
  <2>4. ~Before(w, p)
    BY <2>1, <2>2, <2>3 DEF NeverOlder, ReadsNeverOlder, SameData
  <2> QED
    BY <2>1, <2>3, <2>4 DEF DocOf, SameData
<1> QED
  BY <1>3, <1>4 DEF VisibleAfter

(* The invariant contains the type invariant.                              *)
LEMMA TypesFollow == IInv => TypeOK
<1> SUFFICES ASSUME IInv PROVE TypeOK
  OBVIOUS
<1>1. ASSUME NEW c \in Calls, args[c].op = "Store" PROVE WellFormed(args[c].doc)
  <2>1. Began(c)
    BY <1>1 DEF IInv, BasicInv, CallOK
  <2>2. PICK q \in Requests : c = PutCall(q) /\ req[q].op \in {"Upload", "Patch"}
    BY <1>1, <2>1, WritesArePuts DEF IInv, Store!Writes, Store!Reads
  <2>3. DocumentOK(q) /\ DocOf(q) = args[c].doc
    BY <2>1, <2>2 DEF IInv, DocumentsOK, Stored, DocOf
  <2> QED
    BY <2>3 DEF DocumentOK, Tree, WellFormed, Leaves
<1> QED
  BY <1>1 DEF IInv, BasicInv, Types, TypeOK

(* The requests of the data service (data.go:27-214) and the calls they    *)
(* make of the store have the types and places TypeOK gives them.          *)
THEOREM TypeCorrect == Spec => []TypeOK
BY TypesFollow, ServiceInvariant, PTL

(* A parameter acknowledged to an upload or patch is missing from what is  *)
(* served later only if a request that overlapped it or came after it      *)
(* removed it: the two calls of a patch (data.go:55-84) lose nothing that  *)
(* was stored before them.                                                 *)
THEOREM LossOnlyByOverlap == Spec => []LossNeedsOverlap
<1>1. IInv => LossNeedsOverlap
  <2> SUFFICES ASSUME IInv, NEW p \in Requests, req[p].op \in {"Upload", "Patch"}, Acked(p),
                      NEW doc \in VisibleAfter(p)
               PROVE  StillHolds(doc, p) \/ \E q \in Requests : MayRemove(q, p)
    BY DEF LossNeedsOverlap
  <2>1. PICK w \in Requests : /\ doc = DocOf(w) /\ Stored(w) /\ Applied(w)
                              /\ SameData(w, p) /\ ~Before(w, p)
    BY VisibleWasStored DEF IInv, Writing
  <2>2. Explained(p, w)
    BY <2>1 DEF IInv, NoLoss, MayMiss
  <2> QED
    BY <2>1, <2>2 DEF Explained, MayRemove
<1> QED
  BY <1>1, ServiceInvariant, PTL

(* What was over before an acknowledged delete (data.go:113-128) or        *)
(* replacement is served again only if a patch, whose read and write are   *)
(* two calls (data.go:55-84), overlapped with it.                          *)
THEOREM ResurrectionOnlyByOverlap == Spec => []ResurrectionNeedsOverlap
<1>1. IInv => ResurrectionNeedsOverlap
  <2> SUFFICES ASSUME IInv, NEW d \in Requests, NEW p \in Requests,
                      req[d].op \in {"Upload", "Delete"}, Acked(d),
                      SameData(p, d), Before(p, d),
                      NEW doc \in VisibleAfter(d), NEW n \in Leaves(doc), doc[n] = p
               PROVE  \E q \in Requests : /\ req[q].op = "Patch" /\ SameData(q, d)
                                          /\ Applied(q) /\ Overlap(q, d)
    BY DEF ResurrectionNeedsOverlap
  <2>1. PICK w \in Requests : /\ doc = DocOf(w) /\ Stored(w) /\ Applied(w)
                              /\ SameData(w, d) /\ ~Before(w, d)
    BY VisibleWasStored DEF IInv, Writing
  <2>2. Revived(d, w)
    BY <2>1 DEF IInv, NoResurrection, MayRevive, Leaves
  <2> QED
    BY <2>1, <2>2 DEF Revived
<1> QED
  BY <1>1, ServiceInvariant, PTL
=============================================================================
