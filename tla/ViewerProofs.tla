---------------------------- MODULE ViewerProofs ----------------------------
(* The lists of the viewer for any tabs, keys and calls under way.         *)
EXTENDS Viewer, SequenceTheorems, FiniteSetTheorems, TLAPS

(* Induction over the natural numbers, for a set instead of an operator.   *)
LEMMA NatInductionOnSets ==
    ASSUME NEW S, 0 \in S, \A n \in Nat : n \in S => n + 1 \in S
    PROVE  Nat \subseteq S
<1> DEFINE R == OpToRel(<,Nat)
           T == Nat \ S
<1> SUFFICES ASSUME T # {} PROVE FALSE
  OBVIOUS
<1>1. IsWellFoundedOn(R, Nat)
  BY NatLessThanWellFounded
<1>2. \A x, y \in Nat : y < x => <<y, x>> \in R
  BY DEF OpToRel
<1> HIDE DEF R
<1>3. PICK x \in T : \A y \in T : ~(<<y, x>> \in R)
  BY <1>1, WFMin
<1>4. x \in Nat /\ x # 0 /\ x - 1 \in Nat /\ x - 1 < x
  OBVIOUS
<1>5. x - 1 \in S
  BY <1>2, <1>3, <1>4
<1>6. (x - 1) + 1 \in S
  BY <1>4, <1>5
<1> QED
  BY <1>3, <1>4, <1>6

-----------------------------------------------------------------------------
(* The entries that show nothing the server has not had.                   *)
EntriesUpTo(v) == {e \in [key : Keys, data : Nat] : e.data <= v[e.key]}

(* A list with no key twice.                                               *)
Distinct(entries) ==
    \A i, j \in DOMAIN entries : entries[i].key = entries[j].key => i = j

(* A list as it should be, at these versions of the data.                  *)
ListOK(entries, v) == entries \in Seq(EntriesUpTo(v)) /\ Distinct(entries)

(* The lists the operations make.                                          *)
LEMMA EmptyListOK ==
    ASSUME NEW v
    PROVE  ListOK(<<>>, v) /\ KeysOf(<<>>) = {}
BY DEF ListOK, Distinct, KeysOf

LEMMA AppendedListOK ==
    ASSUME NEW v, NEW entries, ListOK(entries, v), NEW e \in EntriesUpTo(v),
           ~Finds(entries, e.key)
    PROVE  /\ ListOK(Append(entries, e), v)
           /\ KeysOf(Append(entries, e)) = KeysOf(entries) \cup {e.key}
<1> DEFINE new == Append(entries, e)
<1>1. /\ entries \in Seq(EntriesUpTo(v)) /\ Len(entries) \in Nat
      /\ DOMAIN entries = 1..Len(entries)
      /\ DOMAIN new = 1..Len(entries) + 1
      /\ \A i \in 1..Len(entries) : new[i] = entries[i]
      /\ new[Len(entries) + 1] = e
      /\ new \in Seq(EntriesUpTo(v))
  BY DEF ListOK
<1> HIDE DEF new
<1>2. \A i \in DOMAIN entries : entries[i].key # e.key
  BY DEF Finds, KeysOf
<1>3. Distinct(new)
  BY <1>1, <1>2 DEF ListOK, Distinct
<1>4. KeysOf(new) = KeysOf(entries) \cup {e.key}
  BY <1>1 DEF KeysOf
<1> QED
  BY <1>1, <1>3, <1>4 DEF ListOK, new

LEMMA LaterListOK ==
    ASSUME NEW v \in [Keys -> Nat], NEW w \in [Keys -> Nat],
           \A k \in Keys : v[k] <= w[k],
           NEW entries, ListOK(entries, v)
    PROVE  ListOK(entries, w)
<1>1. EntriesUpTo(v) \subseteq EntriesUpTo(w)
  BY DEF EntriesUpTo
<1> QED
  BY <1>1 DEF ListOK

-----------------------------------------------------------------------------
(* Without builds its list entry by entry; its recursive function exists.  *)
KeptNext(kept, e, k) == IF e.key = k THEN kept ELSE Append(kept, e)

KeptStep(entries, k, f) ==
    [i \in 0..Len(entries) |-> IF i = 0 THEN <<>> ELSE KeptNext(f[i - 1], entries[i], k)]

LEMMA KeptExists ==
    ASSUME NEW E, NEW entries \in Seq(E), NEW k
    PROVE  \E f : f = KeptStep(entries, k, f)
<1> DEFINE Step(f, n) == [i \in 0..n |->
               IF i = 0 THEN <<>> ELSE KeptNext(f[i - 1], entries[i], k)]
           S == {n \in Nat : \E f : f = Step(f, n)}
<1>1. 0 \in S
  <2>1. Step(<<>>, 0) = Step(Step(<<>>, 0), 0)
    OBVIOUS
  <2> QED
    BY <2>1
<1>2. ASSUME NEW n \in Nat, n \in S PROVE n + 1 \in S
  <2>1. PICK f : f = Step(f, n)
    BY <1>2
  <2>2. PICK g : g = [i \in 0..n + 1 |->
                        IF i = n + 1 THEN KeptNext(f[n], entries[n + 1], k)
                        ELSE f[i]]
    OBVIOUS
  <2>3. g = Step(g, n + 1)
    BY <2>1, <2>2
  <2> QED
    BY <2>3
<1>3. Len(entries) \in S
  <2> HIDE DEF S
  <2> QED
    BY <1>1, <1>2, NatInductionOnSets
<1> QED
  BY <1>3 DEF KeptStep

(* Removing a key leaves the others, none of them twice.                   *)
LEMMA WithoutListOK ==
    ASSUME NEW v, NEW entries, ListOK(entries, v), NEW k
    PROVE  /\ ListOK(Without(entries, k), v)
           /\ KeysOf(Without(entries, k)) = KeysOf(entries) \ {k}
<1> DEFINE kept == CHOOSE f : f = KeptStep(entries, k, f)
           KeysTo(n) == {entries[i].key : i \in 1..n}
<1>1. entries \in Seq(EntriesUpTo(v)) /\ Len(entries) \in Nat /\ DOMAIN entries = 1..Len(entries)
  BY DEF ListOK
<1>2. kept = KeptStep(entries, k, kept)
  BY <1>1, KeptExists
<1>3. Without(entries, k) = kept[Len(entries)]
  BY DEF Without, KeptStep, KeptNext
<1> HIDE DEF kept
<1>4. kept[0] = <<>>
  BY <1>1, <1>2 DEF KeptStep
<1>5. ASSUME NEW n \in Nat, n + 1 <= Len(entries)
      PROVE  kept[n + 1] = KeptNext(kept[n], entries[n + 1], k)
  BY <1>1, <1>2, <1>5 DEF KeptStep
<1> DEFINE S == {n \in Nat : n <= Len(entries) =>
                    ListOK(kept[n], v) /\ KeysOf(kept[n]) = KeysTo(n) \ {k}}
<1>6. 0 \in S
  BY <1>4, EmptyListOK
<1>7. ASSUME NEW n \in Nat, n \in S PROVE n + 1 \in S
  <2> SUFFICES ASSUME n + 1 <= Len(entries)
               PROVE  ListOK(kept[n + 1], v) /\ KeysOf(kept[n + 1]) = KeysTo(n + 1) \ {k}
    OBVIOUS
  <2>1. ListOK(kept[n], v) /\ KeysOf(kept[n]) = KeysTo(n) \ {k}
    BY <1>1, <1>7
  <2>2. n + 1 \in DOMAIN entries /\ entries[n + 1] \in EntriesUpTo(v)
    BY <1>1
  <2>3. KeysTo(n + 1) = KeysTo(n) \cup {entries[n + 1].key}
    OBVIOUS
  <2>4. entries[n + 1].key \notin KeysTo(n)
    BY <1>1 DEF ListOK, Distinct
  <2>5. CASE entries[n + 1].key = k
    BY <1>5, <2>1, <2>3, <2>5 DEF KeptNext
  <2>6. CASE entries[n + 1].key # k
    <3>1. ~Finds(kept[n], entries[n + 1].key)
      BY <2>1, <2>4 DEF Finds
    <3>2. PICK old, e : old = kept[n] /\ e = entries[n + 1]
      OBVIOUS
    <3>3. ListOK(Append(old, e), v) /\ KeysOf(Append(old, e)) = KeysOf(old) \cup {e.key}
      BY <2>1, <2>2, <3>1, <3>2, AppendedListOK
    <3>4. kept[n + 1] = Append(old, e)
      BY <1>5, <2>6, <3>2 DEF KeptNext
    <3> QED
      BY <2>1, <2>3, <2>6, <3>2, <3>3, <3>4
  <2> QED
    BY <2>5, <2>6
<1>8. Len(entries) \in S
  <2> HIDE DEF S
  <2> QED
    BY <1>1, <1>6, <1>7, NatInductionOnSets
<1>9. KeysTo(Len(entries)) = KeysOf(entries)
  BY <1>1 DEF KeysOf
<1> QED
  BY <1>1, <1>3, <1>8, <1>9

-----------------------------------------------------------------------------
(* Imported builds its list entry by entry; its recursive function exists. *)
MergedNext(merged, e) == IF Finds(merged, e.key) THEN merged ELSE Append(merged, e)

MergedStep(entries, imported, f) ==
    [i \in 0..Len(imported) |->
        IF i = 0 THEN entries ELSE MergedNext(f[i - 1], imported[i])]

LEMMA MergedExists ==
    ASSUME NEW E, NEW imported \in Seq(E), NEW entries
    PROVE  \E f : f = MergedStep(entries, imported, f)
<1> DEFINE Step(f, n) == [i \in 0..n |->
               IF i = 0 THEN entries ELSE MergedNext(f[i - 1], imported[i])]
           S == {n \in Nat : \E f : f = Step(f, n)}
<1>1. 0 \in S
  <2>1. Step(<<>>, 0) = Step(Step(<<>>, 0), 0)
    OBVIOUS
  <2> QED
    BY <2>1
<1>2. ASSUME NEW n \in Nat, n \in S PROVE n + 1 \in S
  <2>1. PICK f : f = Step(f, n)
    BY <1>2
  <2>2. PICK g : g = [i \in 0..n + 1 |->
                        IF i = n + 1 THEN MergedNext(f[n], imported[n + 1])
                        ELSE f[i]]
    OBVIOUS
  <2>3. g = Step(g, n + 1)
    BY <2>1, <2>2
  <2>4. \E h : h = Step(h, n + 1)
    BY <2>3
  <2> HIDE DEF Step
  <2> QED
    BY <2>4
<1>3. Len(imported) \in S
  <2> HIDE DEF S
  <2> QED
    BY <1>1, <1>2, NatInductionOnSets
<1> QED
  BY <1>3 DEF MergedStep

(* An import adds the keys that are not there, each of them once.          *)
LEMMA ImportedListOK ==
    ASSUME NEW v, NEW entries, ListOK(entries, v), NEW imported \in Seq(EntriesUpTo(v))
    PROVE  /\ ListOK(Imported(entries, imported), v)
           /\ KeysOf(Imported(entries, imported)) = KeysOf(entries) \cup KeysOf(imported)
<1> DEFINE merged == CHOOSE f : f = MergedStep(entries, imported, f)
           KeysTo(n) == {imported[i].key : i \in 1..n}
<1>1. Len(imported) \in Nat /\ DOMAIN imported = 1..Len(imported)
  OBVIOUS
<1>2. merged = MergedStep(entries, imported, merged)
  BY MergedExists
<1>3. Imported(entries, imported) = merged[Len(imported)]
  BY DEF Imported, MergedStep, MergedNext
<1> HIDE DEF merged
<1>4. merged[0] = entries
  BY <1>1, <1>2 DEF MergedStep
<1>5. ASSUME NEW n \in Nat, n + 1 <= Len(imported)
      PROVE  merged[n + 1] = MergedNext(merged[n], imported[n + 1])
  BY <1>1, <1>2, <1>5 DEF MergedStep
<1> DEFINE S == {n \in Nat : n <= Len(imported) =>
                    ListOK(merged[n], v) /\ KeysOf(merged[n]) = KeysOf(entries) \cup KeysTo(n)}
<1>6. 0 \in S
  BY <1>4
<1>7. ASSUME NEW n \in Nat, n \in S PROVE n + 1 \in S
  <2> SUFFICES ASSUME n + 1 <= Len(imported)
               PROVE  /\ ListOK(merged[n + 1], v)
                      /\ KeysOf(merged[n + 1]) = KeysOf(entries) \cup KeysTo(n + 1)
    OBVIOUS
  <2>1. ListOK(merged[n], v) /\ KeysOf(merged[n]) = KeysOf(entries) \cup KeysTo(n)
    BY <1>1, <1>7
  <2>2. imported[n + 1] \in EntriesUpTo(v)
    BY <1>1
  <2>3. KeysTo(n + 1) = KeysTo(n) \cup {imported[n + 1].key}
    OBVIOUS
  <2>4. PICK old, e : old = merged[n] /\ e = imported[n + 1]
    OBVIOUS
  <2>5. CASE Finds(old, e.key)
    <3>1. e.key \in KeysOf(entries) \cup KeysTo(n)
      BY <2>1, <2>4, <2>5 DEF Finds
    <3> QED
      BY <1>5, <2>1, <2>3, <2>4, <2>5, <3>1 DEF MergedNext
  <2>6. CASE ~Finds(old, e.key)
    <3>1. ListOK(Append(old, e), v) /\ KeysOf(Append(old, e)) = KeysOf(old) \cup {e.key}
      BY <2>1, <2>2, <2>4, <2>6, AppendedListOK
    <3>2. merged[n + 1] = Append(old, e)
      BY <1>5, <2>4, <2>6 DEF MergedNext
    <3> QED
      BY <2>1, <2>3, <2>4, <3>1, <3>2
  <2> QED
    BY <2>5, <2>6
<1>8. Len(imported) \in S
  <2> HIDE DEF S
  <2> QED
    BY <1>1, <1>6, <1>7, NatInductionOnSets
<1>9. KeysTo(Len(imported)) = KeysOf(imported)
  BY <1>1 DEF KeysOf
<1> QED
  BY <1>1, <1>3, <1>8, <1>9

(* An answer changes what is shown, never which keys are.                  *)
LEMMA UpdatedListOK ==
    ASSUME NEW v, NEW entries, ListOK(entries, v), NEW call, call.found \in Nat,
           call.key \in Keys => call.found <= v[call.key]
    PROVE  /\ ListOK(Updated(entries, call), v)
           /\ KeysOf(Updated(entries, call)) = KeysOf(entries)
<1> DEFINE new == Updated(entries, call)
<1>1. entries \in Seq(EntriesUpTo(v)) /\ Len(entries) \in Nat /\ DOMAIN entries = 1..Len(entries)
  BY DEF ListOK
<1>2. DOMAIN new = 1..Len(entries)
  BY <1>1 DEF Updated
<1>3. ASSUME NEW i \in 1..Len(entries)
      PROVE  new[i] \in EntriesUpTo(v) /\ new[i].key = entries[i].key
  <2>1. entries[i] \in [key : Keys, data : Nat] /\ entries[i] \in EntriesUpTo(v)
    BY <1>1 DEF EntriesUpTo
  <2>2. CASE entries[i].key = call.key /\ call.outcome # "error"
    <3>1. new[i] = [entries[i] EXCEPT !.data = call.found]
      BY <1>1, <2>2 DEF Updated
    <3> QED
      BY <2>1, <2>2, <3>1 DEF EntriesUpTo
  <2>3. CASE ~(entries[i].key = call.key /\ call.outcome # "error")
    BY <1>1, <2>1, <2>3 DEF Updated
  <2> QED
    BY <2>2, <2>3
<1>4. new \in Seq(EntriesUpTo(v))
  <2>1. new = [i \in 1..Len(entries) |-> new[i]]
    BY <1>1 DEF Updated
  <2> HIDE DEF new
  <2> QED
    BY <1>1, <1>3, <2>1
<1> HIDE DEF new
<1>5. Distinct(new)
  BY <1>1, <1>2, <1>3 DEF ListOK, Distinct
<1>6. KeysOf(new) = KeysOf(entries)
  BY <1>1, <1>2, <1>3 DEF KeysOf
<1> QED
  BY <1>4, <1>5, <1>6 DEF ListOK, new

-----------------------------------------------------------------------------
(* The versions of the data stay within their bound.                       *)
VersionOK ==
    /\ version \in [Keys -> Nat]
    /\ \A k \in Keys : /\ version[k] <= MaxVersion + 2
                       /\ HasData(version[k]) => version[k] <= MaxVersion + 1

(* The lists of the tabs and the one in localStorage.                      *)
ListsOK ==
    /\ open \subseteq Tabs
    /\ list \in [Tabs -> Seq(EntriesUpTo(version))]
    /\ \A t \in Tabs : ListOK(list[t], version)
    /\ ListOK(stored, version)
    /\ \A t \in Tabs \ open : list[t] = <<>>

(* The only tab shows what is stored, and that is what is wanted.          *)
AloneOK ==
    alone => /\ KeysOf(stored) = wanted
             /\ \A t \in open : KeysOf(list[t]) = wanted
             /\ \A t, u \in open : t = u

(* The form of a call.                                                     *)
CallRecords ==
    [kind : {"get", "clear", "derive", "pair"}, tab : Tabs, key : Keys \cup {NoKey},
     stage : {"sent", "answered"}, outcome : {"none", "ok", "error", "failed"},
     found : Nat, knew : Nat]

(* A call under way: what it found is no older than what its entry showed  *)
(* when it was sent.                                                       *)
PendingOK(c, v, tabs) ==
    /\ c \in CallRecords
    /\ c.tab \in tabs
    /\ c.kind = "derive" => c.key \in Keys
    /\ c.kind = "pair" /\ c.stage = "answered" /\ c.outcome = "ok" => c.key \in Keys
    /\ c.kind = "pair" /\ c.stage = "sent" => c.key = NoKey
    /\ c.key = NoKey => c.found = 0 /\ c.knew = 0
    /\ c.key \in Keys =>
          /\ c.found <= v[c.key] /\ c.knew <= v[c.key]
          /\ c.stage = "answered" /\ c.kind # "derive" => c.outcome # "none"
          /\ c.stage = "answered" /\ c.outcome = "ok" => c.knew <= c.found

(* Every call is of an open tab and as it should be.                       *)
CallsOK ==
    /\ DOMAIN calls = Slots
    /\ \A s \in Slots : calls[s] = NoCall \/ PendingOK(calls[s], version, open)

(* The inductive invariant.                                                *)
IInv == VersionOK /\ ListsOK /\ AloneOK /\ CallsOK

-----------------------------------------------------------------------------
(* The data of the server never goes back.                                 *)
Grows == \A k \in Keys : version[k] <= version'[k]

(* A step that touches no list.                                            *)
LEMMA ListsStay ==
    ASSUME IInv, VersionOK', Grows, UNCHANGED <<open, list, stored, alone, wanted>>
    PROVE  ListsOK' /\ AloneOK'
<1>1. ASSUME NEW entries, ListOK(entries, version) PROVE ListOK(entries, version')
  BY <1>1, LaterListOK DEF IInv, VersionOK, Grows
<1>2. \A t \in Tabs : list'[t] = list[t] /\ ListOK(list'[t], version')
  BY <1>1 DEF IInv, ListsOK
<1>3. ListOK(stored', version')
  BY <1>1 DEF IInv, ListsOK
<1>4. list' \in [Tabs -> Seq(EntriesUpTo(version'))]
  BY <1>2 DEF IInv, ListsOK, ListOK
<1>5. ListsOK'
  BY <1>2, <1>3, <1>4 DEF IInv, ListsOK
<1>6. AloneOK'
  BY DEF IInv, AloneOK
<1> QED
  BY <1>5, <1>6

(* A tab changes its list and saves it, or changes no key.                 *)
LEMMA ListChanges ==
    ASSUME IInv, NEW t \in open, NEW new, ListOK(new, version),
           list' = [list EXCEPT ![t] = new],
           \/ stored' = new
           \/ stored' = stored /\ KeysOf(new) = KeysOf(list[t]),
           alone => wanted' = KeysOf(new),
           UNCHANGED <<version, open, alone>>
    PROVE  VersionOK' /\ ListsOK' /\ AloneOK'
<1>1. t \in Tabs
  BY DEF IInv, ListsOK
<1>2. list'[t] = new /\ \A u \in Tabs \ {t} : list'[u] = list[u]
  BY <1>1 DEF IInv, ListsOK
<1>3. ListsOK'
  BY <1>1, <1>2 DEF IInv, ListsOK, ListOK
<1>4. AloneOK'
  <2> SUFFICES ASSUME alone PROVE /\ KeysOf(stored') = wanted'
                                  /\ \A u \in open : KeysOf(list'[u]) = wanted'
                                  /\ \A u, w \in open : u = w
    BY DEF AloneOK
  <2>1. /\ \A u \in open : u = t
        /\ KeysOf(stored) = wanted /\ KeysOf(list[t]) = wanted
    BY DEF IInv, AloneOK
  <2> QED
    BY <1>2, <2>1
<1>5. VersionOK'
  BY DEF IInv, VersionOK
<1> QED
  BY <1>3, <1>4, <1>5

(* Newer data leaves a call as it should be.                               *)
LEMMA PendingStays ==
    ASSUME VersionOK, VersionOK', Grows, NEW c, PendingOK(c, version, open),
           c.tab \in open'
    PROVE  PendingOK(c, version', open')
BY DEF VersionOK, Grows, PendingOK, CallRecords

(* One call is sent, answered or ended.                                    *)
LEMMA OneCallChanges ==
    ASSUME IInv, VersionOK', Grows, open' = open, NEW s \in Slots,
           NEW c, c = NoCall \/ PendingOK(c, version', open'),
           calls' = [calls EXCEPT ![s] = c]
    PROVE  CallsOK'
<1>1. calls'[s] = c /\ DOMAIN calls' = Slots /\ \A r \in Slots \ {s} : calls'[r] = calls[r]
  BY DEF IInv, CallsOK
<1>2. ASSUME NEW r \in Slots \ {s}
      PROVE  calls'[r] = NoCall \/ PendingOK(calls'[r], version', open')
  <2>1. calls[r] = NoCall \/ PendingOK(calls[r], version, open)
    BY DEF IInv, CallsOK
  <2>2. PendingOK(calls[r], version, open) => calls[r].tab \in open'
    BY DEF PendingOK
  <2> QED
    BY <1>1, <2>1, <2>2, PendingStays DEF IInv
<1> QED
  BY <1>1, <1>2 DEF CallsOK

(* A step that touches no call.                                            *)
LEMMA CallsStay ==
    ASSUME IInv, VersionOK', Grows, open' = open, calls' = calls
    PROVE  CallsOK'
<1>1. ASSUME NEW r \in Slots
      PROVE  calls'[r] = NoCall \/ PendingOK(calls'[r], version', open')
  <2>1. calls[r] = NoCall \/ PendingOK(calls[r], version, open)
    BY DEF IInv, CallsOK
  <2>2. PendingOK(calls[r], version, open) => calls[r].tab \in open'
    BY DEF PendingOK
  <2> QED
    BY <2>1, <2>2, PendingStays DEF IInv
<1> QED
  BY <1>1 DEF IInv, CallsOK

(* A call is sent as it should be.                                         *)
LEMMA Sends ==
    ASSUME NEW kind \in {"get", "clear", "derive"}, NEW t \in Tabs, NEW k \in Keys,
           NEW v \in [Keys -> Nat], NEW knew \in Nat, knew <= v[k],
           NEW tabs, t \in tabs
    PROVE  PendingOK(Call(kind, t, k, knew), v, tabs)
BY ViewerAssumption DEF Call, PendingOK, CallRecords

(* All entries of a list are fetched.                                      *)
LEMMA FetchAllOK ==
    ASSUME IInv, version' = version, NEW t \in Tabs, t \in open', open \subseteq open',
           NEW entries \in Seq(EntriesUpTo(version)), FetchAll(t, entries)
    PROVE  CallsOK'
<1>1. PICK slotOf \in [DOMAIN entries -> Idle] :
        calls' = [s \in Slots |->
              IF \E i \in DOMAIN entries : slotOf[i] = s
              THEN LET e == entries[CHOOSE i \in DOMAIN entries : slotOf[i] = s]
                   IN  Call("get", t, e.key, e.data)
              ELSE calls[s]]
  BY DEF FetchAll
<1>2. VersionOK' /\ Grows
  BY DEF IInv, VersionOK, Grows
<1>3. ASSUME NEW s \in Slots
      PROVE  calls'[s] = NoCall \/ PendingOK(calls'[s], version', open')
  <2>1. CASE \E i \in DOMAIN entries : slotOf[i] = s
    <3>1. PICK i \in DOMAIN entries : calls'[s] = Call("get", t, entries[i].key, entries[i].data)
      BY <1>1, <2>1
    <3>2. entries[i] \in EntriesUpTo(version)
      OBVIOUS
    <3>3. /\ entries[i].key \in Keys /\ entries[i].data \in Nat
          /\ entries[i].data <= version'[entries[i].key]
      BY <3>2 DEF EntriesUpTo
    <3> QED
      BY <1>2, <3>1, <3>3, Sends DEF VersionOK
  <2>2. CASE ~\E i \in DOMAIN entries : slotOf[i] = s
    <3>1. calls'[s] = calls[s]
      BY <1>1, <2>2
    <3>2. calls[s] = NoCall \/ PendingOK(calls[s], version, open)
      BY DEF IInv, CallsOK
    <3>3. PendingOK(calls[s], version, open) => calls[s].tab \in open'
      BY DEF PendingOK
    <3> QED
      BY <1>2, <3>1, <3>2, <3>3, PendingStays DEF IInv
  <2> QED
    BY <2>1, <2>2
<1> QED
  BY <1>1, <1>3 DEF CallsOK

-----------------------------------------------------------------------------
(* A device or a call changes the data of one key.                         *)
LEMMA VersionsMove ==
    ASSUME VersionOK, NEW k \in Keys, NEW n \in Nat, n >= version[k],
           n <= MaxVersion + 2, HasData(n) => n <= MaxVersion + 1,
           version' = [version EXCEPT ![k] = n]
    PROVE  VersionOK' /\ Grows
BY DEF VersionOK, Grows

LEMMA VersionsRest ==
    ASSUME VersionOK, version' = version
    PROVE  VersionOK' /\ Grows
BY DEF VersionOK, Grows

LEMMA DeletionMoves ==
    ASSUME VersionOK, NEW k \in Keys
    PROVE  /\ Deleted(version[k]) \in Nat /\ Deleted(version[k]) >= version[k]
           /\ Deleted(version[k]) <= MaxVersion + 2
           /\ HasData(Deleted(version[k])) => Deleted(version[k]) <= MaxVersion + 1
<1>1. PICK v \in Nat : v = version[k] /\ v <= MaxVersion + 2 /\ (HasData(v) => v <= MaxVersion + 1)
  BY DEF VersionOK
<1>2. CASE HasData(v)
  BY <1>1, <1>2, ViewerAssumption DEF Deleted, HasData
<1>3. CASE ~HasData(v)
  BY <1>1, <1>3, ViewerAssumption DEF Deleted
<1> QED
  BY <1>2, <1>3

(* Devices and the database, without the viewer.                           *)
LEMMA DeviceStep ==
    ASSUME IInv, NEW k \in Keys, Upload(k) \/ Vanish(k)
    PROVE  IInv'
<1>1. PICK v \in Nat : v = version[k] /\ v <= MaxVersion + 2 /\ (HasData(v) => v <= MaxVersion + 1)
  BY DEF IInv, VersionOK
<1>2. PICK n \in Nat : /\ version' = [version EXCEPT ![k] = n]
                       /\ n >= v /\ n <= MaxVersion + 2
                       /\ HasData(n) => n <= MaxVersion + 1
  <2>1. CASE Upload(k)
    <3>1. PICK n \in {v + 1, v + 2} : version' = [version EXCEPT ![k] = n]
      BY <1>1, <2>1 DEF Upload
    <3>2. v < MaxVersion
      BY <1>1, <2>1 DEF Upload
    <3>3. n \in Nat /\ n >= v /\ n <= MaxVersion + 1 /\ n <= MaxVersion + 2
      BY <3>2, ViewerAssumption
    <3> QED
      BY <3>1, <3>3
  <2>2. CASE Vanish(k)
    <3>1. HasData(v) /\ version' = [version EXCEPT ![k] = v + 1]
      BY <1>1, <2>2 DEF Vanish
    <3>2. ~HasData(v + 1)
      BY <3>1 DEF HasData
    <3>3. v + 1 \in Nat /\ v + 1 >= v /\ v + 1 <= MaxVersion + 2
      BY <1>1, <3>1, ViewerAssumption
    <3> QED
      BY <3>1, <3>2, <3>3
  <2> QED
    BY <2>1, <2>2
<1>3. VersionOK' /\ Grows
  BY <1>1, <1>2, VersionsMove DEF IInv
<1>4. UNCHANGED <<open, list, stored, calls, alone, wanted>>
  BY DEF Upload, Vanish
<1> QED
  BY <1>3, <1>4, ListsStay, CallsStay DEF IInv

(* A step that only sends, answers or ends one call.                       *)
LEMMA CallStep ==
    ASSUME IInv, NEW s \in Slots, NEW c, c = NoCall \/ PendingOK(c, version', open),
           VersionOK', Grows, UNCHANGED <<open, list, stored, alone, wanted>>,
           calls' = [calls EXCEPT ![s] = c]
    PROVE  IInv'
BY ListsStay, OneCallChanges DEF IInv

(* An entry that is found is one of an open tab.                           *)
LEMMA OpenTabIsShown ==
    ASSUME IInv, NEW t \in Tabs, NEW k, Finds(list[t], k)
    PROVE  /\ t \in open
           /\ k \in Keys /\ EntryOf(list[t], k).data \in Nat
           /\ EntryOf(list[t], k).data <= version[k]
<1>1. PICK i \in DOMAIN list[t] : list[t][i].key = k
  BY DEF Finds, KeysOf
<1>2. list[t] # <<>> /\ list[t] \in Seq(EntriesUpTo(version))
  BY <1>1 DEF IInv, ListsOK
<1>3. EntryOf(list[t], k) \in EntriesUpTo(version) /\ EntryOf(list[t], k).key = k
  BY <1>1, <1>2 DEF EntryOf
<1> QED
  BY <1>2, <1>3 DEF IInv, ListsOK, EntriesUpTo

(* The buttons that only send a call.                                      *)
LEMMA UserSends ==
    ASSUME IInv, NEW t \in Tabs, NEW s \in Slots,
           \/ Refresh(t, s) \/ CreateNewKeyPair(t, s)
           \/ \E k \in Keys : AddUploadKey(t, k, s) \/ ClearKeyData(t, k, s)
    PROVE  IInv'
<1>0. version' = version /\ UNCHANGED <<open, list, stored, alone, wanted>>
  BY DEF Refresh, CreateNewKeyPair, AddUploadKey, ClearKeyData
<1>1. VersionOK' /\ Grows
  BY <1>0, VersionsRest DEF IInv
<1>2. version \in [Keys -> Nat]
  BY DEF IInv, VersionOK
<1>3. PICK c : calls' = [calls EXCEPT ![s] = c] /\ PendingOK(c, version, open)
  <2>1. CASE Refresh(t, s)
    <3>1. PICK i \in DOMAIN list[t] :
            calls' = [calls EXCEPT ![s] = Call("get", t, list[t][i].key, list[t][i].data)]
      BY <2>1 DEF Refresh
    <3>2. list[t] \in Seq(EntriesUpTo(version)) /\ t \in open
      BY DEF IInv, ListsOK
    <3>3. list[t][i] \in EntriesUpTo(version)
      BY <3>2
    <3>4. /\ list[t][i].key \in Keys /\ list[t][i].data \in Nat
          /\ list[t][i].data <= version[list[t][i].key]
      BY <3>3 DEF EntriesUpTo
    <3> QED
      BY <1>2, <3>1, <3>2, <3>4, Sends
  <2>2. CASE CreateNewKeyPair(t, s)
    <3>1. t \in open /\ calls' = [calls EXCEPT ![s] = Call("pair", t, NoKey, 0)]
      BY <2>2 DEF CreateNewKeyPair
    <3>2. PendingOK(Call("pair", t, NoKey, 0), version, open)
      BY <3>1, ViewerAssumption DEF Call, PendingOK, CallRecords
    <3> QED
      BY <3>1, <3>2
  <2>3. ASSUME NEW k \in Keys, AddUploadKey(t, k, s)
        PROVE  \E c : calls' = [calls EXCEPT ![s] = c] /\ PendingOK(c, version, open)
    <3>1. /\ t \in open
          /\ calls' = [calls EXCEPT ![s] = [Call("derive", t, k, 0) EXCEPT !.stage = "answered"]]
      BY <2>3 DEF AddUploadKey
    <3>2. PendingOK([Call("derive", t, k, 0) EXCEPT !.stage = "answered"], version, open)
      BY <1>2, <3>1, ViewerAssumption DEF Call, PendingOK, CallRecords
    <3> QED
      BY <3>1, <3>2
  <2>4. ASSUME NEW k \in Keys, ClearKeyData(t, k, s)
        PROVE  \E c : calls' = [calls EXCEPT ![s] = c] /\ PendingOK(c, version, open)
    <3>1. /\ Finds(list[t], k)
          /\ calls' = [calls EXCEPT ![s] = Call("clear", t, k, EntryOf(list[t], k).data)]
      BY <2>4 DEF ClearKeyData
    <3> QED
      BY <1>2, <3>1, OpenTabIsShown, Sends
  <2> QED
    BY <2>1, <2>2, <2>3, <2>4
<1> QED
  BY <1>0, <1>1, <1>3, CallStep

(* The timer fetches all keys.                                             *)
LEMMA PollStep ==
    ASSUME IInv, NEW t \in Tabs, Poll(t)
    PROVE  IInv'
<1>1. /\ t \in open /\ FetchAll(t, list[t])
      /\ version' = version /\ UNCHANGED <<open, list, stored, alone, wanted>>
  BY DEF Poll, Polled
<1>2. VersionOK' /\ Grows
  BY <1>1, VersionsRest DEF IInv
<1>3. list[t] \in Seq(EntriesUpTo(version))
  BY DEF IInv, ListsOK
<1>4. CallsOK'
  BY <1>1, <1>3, FetchAllOK
<1> QED
  BY <1>1, <1>2, <1>4, ListsStay DEF IInv

(* A key is put on the list and saved.                                     *)
LEMMA WatchStep ==
    ASSUME IInv, NEW t \in open, NEW k \in Keys, Watch(t, k),
           UNCHANGED <<version, open, alone>>
    PROVE  VersionOK' /\ ListsOK' /\ AloneOK' /\ Grows
<1>1. t \in Tabs /\ ListOK(list[t], version)
  BY DEF IInv, ListsOK
<1>2. Pending(k) \in EntriesUpTo(version) /\ Pending(k).key = k
  BY DEF IInv, VersionOK, Pending, EntriesUpTo, NoData
<1>3. PICK new : new = Append(list[t], Pending(k))
  OBVIOUS
<1>4. ListOK(new, version) /\ KeysOf(new) = KeysOf(list[t]) \cup {k}
  BY <1>1, <1>2, <1>3, AppendedListOK DEF Watch
<1>5. list' = [list EXCEPT ![t] = new] /\ stored' = new
  BY <1>1, <1>3 DEF Watch, SaveKeysToStorage, IInv, ListsOK
<1>6. alone => wanted' = KeysOf(new)
  BY <1>4 DEF Watch, IInv, AloneOK
<1>7. VersionOK' /\ Grows
  BY VersionsRest DEF IInv
<1> QED
  BY <1>4, <1>5, <1>6, <1>7, ListChanges

(* The steps of a user that change a list.                                 *)
LEMMA AddDownloadKeyStep ==
    ASSUME IInv, NEW t \in Tabs, NEW k \in Keys, NEW s \in Slots, AddDownloadKey(t, k, s)
    PROVE  IInv'
<1>1. /\ t \in open /\ Watch(t, k) /\ UNCHANGED <<version, open, alone>>
      /\ calls' = [calls EXCEPT ![s] = Call("get", t, k, 0)]
  BY DEF AddDownloadKey
<1>2. VersionOK' /\ ListsOK' /\ AloneOK' /\ Grows
  BY <1>1, WatchStep
<1>3. PendingOK(Call("get", t, k, 0), version', open')
  BY <1>1, <1>2, Sends DEF VersionOK
<1> QED
  BY <1>1, <1>2, <1>3, OneCallChanges DEF IInv

LEMMA ImportKeysStep ==
    ASSUME IInv, NEW t \in Tabs, NEW imported \in Exports, ImportKeys(t, imported)
    PROVE  IInv'
<1>1. /\ t \in open /\ UNCHANGED <<version, open, alone>>
      /\ list' = [list EXCEPT ![t] = Imported(list[t], imported)]
      /\ stored' = list'[t]
      /\ wanted' = IF alone THEN wanted \cup KeysOf(imported) ELSE {}
      /\ FetchAll(t, list'[t])
  BY DEF ImportKeys, SaveKeysToStorage
<1>2. imported \in Seq(EntriesUpTo(version))
  <2>1. PICK n \in Nat : imported \in [1..n -> {e \in [key : Keys, data : 0..MaxVersion + 2] :
                                                  e.data <= version[e.key]}]
    BY ViewerAssumption, FS_CardinalityType DEF Exports, BoundedSeq, SeqOf
  <2>2. \A i \in 1..n : imported[i] \in EntriesUpTo(version)
    BY <2>1, ViewerAssumption DEF EntriesUpTo
  <2> QED
    BY <2>1, <2>2
<1>3. ListOK(list[t], version)
  BY DEF IInv, ListsOK
<1>4. PICK new : new = Imported(list[t], imported)
  OBVIOUS
<1>5. ListOK(new, version) /\ KeysOf(new) = KeysOf(list[t]) \cup KeysOf(imported)
  BY <1>2, <1>3, <1>4, ImportedListOK
<1>6. list'[t] = new
  BY <1>1, <1>4 DEF IInv, ListsOK
<1>7. alone => wanted' = KeysOf(new)
  BY <1>1, <1>5 DEF IInv, AloneOK
<1>8. VersionOK' /\ ListsOK' /\ AloneOK'
  BY <1>1, <1>4, <1>5, <1>6, <1>7, ListChanges
<1>9. CallsOK'
  BY <1>1, <1>5, <1>6, FetchAllOK DEF ListOK
<1> QED
  BY <1>8, <1>9 DEF IInv

LEMMA RemoveKeyStep ==
    ASSUME IInv, NEW t \in Tabs, NEW k \in Keys, RemoveKey(t, k)
    PROVE  IInv'
<1>1. /\ Finds(list[t], k) /\ UNCHANGED <<version, open, alone>>
      /\ list' = [list EXCEPT ![t] = Without(list[t], k)]
      /\ stored' = list'[t]
      /\ wanted' = wanted \ {k}
      /\ calls' = [s \in Slots |->
          IF calls[s] # NoCall /\ calls[s].kind \in {"get", "clear"}
                               /\ calls[s].tab = t /\ calls[s].key = k
          THEN Detached(calls[s]) ELSE calls[s]]
  BY DEF RemoveKey, SaveKeysToStorage
<1>2. t \in open
  BY <1>1, OpenTabIsShown
<1>3. PICK new : new = Without(list[t], k)
  OBVIOUS
<1>4. ListOK(new, version) /\ KeysOf(new) = KeysOf(list[t]) \ {k}
  BY <1>3, WithoutListOK DEF IInv, ListsOK
<1>5. list'[t] = new
  BY <1>1, <1>3 DEF IInv, ListsOK
<1>6. alone => wanted' = KeysOf(new)
  BY <1>1, <1>2, <1>4 DEF IInv, AloneOK
<1>7. VersionOK' /\ ListsOK' /\ AloneOK'
  BY <1>1, <1>2, <1>3, <1>4, <1>5, <1>6, ListChanges
<1>8. ASSUME NEW c, PendingOK(c, version, open), c.kind \in {"get", "clear"}
      PROVE  PendingOK(Detached(c), version, open)
  BY <1>8, ViewerAssumption DEF PendingOK, CallRecords, Detached
<1>9. CallsOK'
  BY <1>1, <1>8 DEF IInv, CallsOK
<1> QED
  BY <1>7, <1>9 DEF IInv

(* Tabs come and go; what is stored stays.                                 *)
LEMMA OpenTabStep ==
    ASSUME IInv, NEW t \in Tabs, OpenTab(t)
    PROVE  IInv'
<1>1. /\ t \notin open /\ open' = open \cup {t}
      /\ list' = [list EXCEPT ![t] = stored] /\ stored' = stored /\ version' = version
      /\ FetchAll(t, stored)
      /\ alone' = (alone /\ open = {})
      /\ wanted' = IF open = {} THEN wanted ELSE {}
  BY DEF OpenTab
<1>2. list'[t] = stored /\ \A u \in Tabs \ {t} : list'[u] = list[u]
  BY <1>1 DEF IInv, ListsOK
<1>3. VersionOK' /\ ListsOK'
  BY <1>1, <1>2, VersionsRest DEF IInv, ListsOK, ListOK
<1>4. AloneOK'
  BY <1>1, <1>2 DEF IInv, AloneOK
<1>5. CallsOK'
  BY <1>1, FetchAllOK DEF IInv, ListsOK, ListOK
<1> QED
  BY <1>3, <1>4, <1>5 DEF IInv

LEMMA CloseTabStep ==
    ASSUME IInv, NEW t \in Tabs, CloseTab(t)
    PROVE  IInv'
<1>1. /\ t \in open /\ open' = open \ {t} /\ list' = [list EXCEPT ![t] = <<>>]
      /\ calls' = [s \in Slots |-> IF calls[s] # NoCall /\ calls[s].tab = t THEN NoCall
                                                                         ELSE calls[s]]
      /\ UNCHANGED <<version, stored, alone, wanted>>
  BY DEF CloseTab, CallsWithout
<1>2. list'[t] = <<>> /\ \A u \in Tabs \ {t} : list'[u] = list[u]
  BY <1>1 DEF IInv, ListsOK
<1>3. VersionOK' /\ ListsOK'
  BY <1>1, <1>2, VersionsRest, EmptyListOK DEF IInv, ListsOK, ListOK
<1>4. AloneOK'
  BY <1>1, <1>2 DEF IInv, ListsOK, AloneOK
<1>5. CallsOK'
  BY <1>1 DEF IInv, CallsOK, PendingOK
<1> QED
  BY <1>3, <1>4, <1>5 DEF IInv

-----------------------------------------------------------------------------
(* The answers of the server.                                              *)
(* What an answer must be like for its call to stay as it should.          *)
LEMMA AnswerStep ==
    ASSUME IInv, VersionOK', Grows, NEW s \in Slots, calls[s] # NoCall,
           NEW outcome \in {"ok", "error", "failed"}, NEW found \in Nat,
           Answer(s, outcome, found),
           calls[s].key = NoKey => found = 0,
           calls[s].key \in Keys =>
              /\ found <= version'[calls[s].key]
              /\ outcome = "ok" => calls[s].knew <= found,
           calls[s].kind = "pair" => outcome = "error",
           UNCHANGED <<open, list, stored, alone, wanted>>
    PROVE  IInv'
<1>1. PICK c : c = [calls[s] EXCEPT !.stage = "answered", !.outcome = outcome, !.found = found]
  OBVIOUS
<1>2. calls' = [calls EXCEPT ![s] = c]
  <2>1. calls' = [calls EXCEPT ![s] = [calls[s] EXCEPT !.stage = "answered",
                                          !.outcome = outcome, !.found = found]]
    <3>1. calls[s] \in CallRecords /\ DOMAIN calls = Slots
      BY DEF IInv, CallsOK, PendingOK
    <3>2. calls' = [calls EXCEPT ![s].stage = "answered", ![s].outcome = outcome,
                                 ![s].found = found]
      BY DEF Answer
    <3> QED
      BY <3>1, <3>2
  <2> QED
    BY <1>1, <2>1
<1>3. PICK old : old = calls[s]
  OBVIOUS
<1>4. PendingOK(old, version, open) /\ open' = open /\ NoKey \notin Keys
  BY <1>3, ViewerAssumption DEF IInv, CallsOK
<1>5. /\ c \in CallRecords /\ c.tab = old.tab /\ c.kind = old.kind /\ c.key = old.key
      /\ c.knew = old.knew /\ c.found = found /\ c.outcome = outcome /\ c.stage = "answered"
  BY <1>1, <1>3, <1>4 DEF PendingOK, CallRecords
<1>6. old.key \in Keys => old.knew <= version'[old.key]
  BY <1>4 DEF PendingOK, CallRecords, Grows, VersionOK, IInv
<1>7. PendingOK(c, version', open')
  BY <1>3, <1>4, <1>5, <1>6 DEF PendingOK
<1> QED
  BY <1>2, <1>7, CallStep

(* The server answers a call.                                              *)
LEMMA RespondStep ==
    ASSUME IInv, NEW s \in Slots, Respond(s)
    PROVE  IInv'
<1>1. UNCHANGED <<open, list, stored, alone, wanted>> /\ calls[s] # NoCall
  BY DEF Respond, AnswerGet, FailGet, AnswerClear, AnswerDetached, AnswerPair, Sent
<1>2. PendingOK(calls[s], version, open) /\ VersionOK /\ NoKey \notin Keys
  BY <1>1, ViewerAssumption DEF IInv, CallsOK
<1>3. version \in [Keys -> Nat] /\ calls[s].key \in Keys \cup {NoKey}
  BY <1>2 DEF VersionOK, PendingOK, CallRecords
<1>4. CASE AnswerGet(s)
  <2>1. /\ calls[s].key \in Keys /\ calls[s].kind = "get" /\ version' = version
        /\ Answer(s, "ok", version[calls[s].key])
    BY <1>3, <1>4 DEF AnswerGet, Sent, ServerHas
  <2>2. VersionOK' /\ Grows
    BY <1>2, <2>1, VersionsRest
  <2>3. calls[s].knew <= version[calls[s].key] /\ version[calls[s].key] \in Nat
    BY <1>2, <1>3, <2>1 DEF PendingOK
  <2> QED
    BY <1>1, <1>2, <2>1, <2>2, <2>3, AnswerStep
<1>5. CASE FailGet(s)
  <2>1. /\ calls[s].key \in Keys /\ calls[s].kind = "get" /\ version' = version
        /\ \E outcome \in {"error", "failed"} : Answer(s, outcome, 0)
    BY <1>3, <1>5 DEF FailGet, Sent, NoData
  <2>2. VersionOK' /\ Grows
    BY <1>2, <2>1, VersionsRest
  <2>3. 0 <= version[calls[s].key]
    BY <1>3, <2>1
  <2> QED
    BY <1>1, <1>2, <2>1, <2>2, <2>3, AnswerStep
<1>6. CASE AnswerClear(s)
  <2>1. PICK k \in Keys : calls[s].key = k /\ calls[s].kind = "clear"
    BY <1>3, <1>6 DEF AnswerClear, Sent
  <2>2. PICK n : n = Deleted(version[k])
    OBVIOUS
  <2>3. \/ /\ version' = [version EXCEPT ![k] = n]
           /\ Answer(s, "ok", n) \/ Answer(s, "error", 0)
        \/ version' = version /\ Answer(s, "error", 0)
    BY <1>6, <2>1, <2>2 DEF AnswerClear
  <2>4. /\ n \in Nat /\ n >= version[k] /\ n <= MaxVersion + 2
        /\ HasData(n) => n <= MaxVersion + 1
    BY <1>2, <2>2, DeletionMoves
  <2>5. VersionOK' /\ Grows
    BY <1>2, <2>3, <2>4, VersionsMove, VersionsRest
  <2>6. calls[s].knew <= n
    <3>1. calls[s].knew <= version[k] /\ calls[s].knew \in Nat
      BY <1>2, <2>1 DEF PendingOK, CallRecords
    <3> QED
      BY <1>3, <2>4, <3>1
  <2>7. 0 <= version'[k]
    BY <2>5 DEF VersionOK
  <2>8. CASE Answer(s, "error", 0)
    BY <1>1, <1>2, <2>1, <2>5, <2>7, <2>8, AnswerStep
  <2>9. CASE version' = [version EXCEPT ![k] = n] /\ Answer(s, "ok", n)
    <3>1. n <= version'[k]
      BY <1>3, <2>4, <2>9
    <3> QED
      BY <1>1, <1>2, <2>1, <2>4, <2>5, <2>6, <2>9, <3>1, AnswerStep
  <2> QED
    BY <2>3, <2>8, <2>9
<1>7. CASE AnswerDetached(s)
  <2>1. /\ calls[s].key = NoKey /\ calls[s].kind \in {"get", "clear"} /\ Answer(s, "ok", 0)
        /\ \/ version' = version
           \/ \E k \in Keys : version' = [version EXCEPT ![k] = Deleted(version[k])]
    BY <1>7 DEF AnswerDetached, Sent
  <2>2. VersionOK' /\ Grows
    BY <1>2, <2>1, VersionsRest, VersionsMove, DeletionMoves
  <2> QED
    BY <1>1, <1>2, <2>1, <2>2, AnswerStep
<1>8. CASE AnswerPair(s)
  <2>1. version' = version /\ calls[s].kind = "pair" /\ calls[s].stage = "sent"
    BY <1>8 DEF AnswerPair, Sent
  <2>2. VersionOK' /\ Grows
    BY <1>2, <2>1, VersionsRest
  <2>3. CASE Answer(s, "error", 0)
    <3>1. calls[s].key \in Keys => 0 <= version'[calls[s].key]
      BY <1>3, <2>1
    <3> QED
      BY <1>1, <1>2, <2>1, <2>2, <2>3, <3>1, AnswerStep
  <2>4. CASE \E k \in Fresh : calls' = [calls EXCEPT ![s].stage = "answered",
                                                     ![s].outcome = "ok", ![s].key = k]
    <3>1. PICK k \in Keys : calls' = [calls EXCEPT ![s].stage = "answered",
                                                   ![s].outcome = "ok", ![s].key = k]
      BY <2>4 DEF Fresh
    <3>2. PICK old : old = calls[s]
      OBVIOUS
    <3>3. PICK c : c = [old EXCEPT !.stage = "answered", !.outcome = "ok", !.key = k]
      OBVIOUS
    <3>4. old \in CallRecords /\ DOMAIN calls = Slots
      BY <1>2, <3>2 DEF PendingOK, IInv, CallsOK
    <3>5. calls' = [calls EXCEPT ![s] = c]
      BY <3>1, <3>2, <3>3, <3>4
    <3>6. /\ c \in CallRecords /\ c.tab = old.tab /\ c.kind = "pair" /\ c.key = k
          /\ c.found = old.found /\ c.knew = old.knew /\ c.stage = "answered"
          /\ c.outcome = "ok"
      BY <2>1, <3>2, <3>3, <3>4 DEF CallRecords
    <3>7. old.found = 0 /\ old.knew = 0
      BY <1>2, <2>1, <3>2 DEF PendingOK
    <3>8. PendingOK(c, version', open')
      BY <1>1, <1>2, <1>3, <2>1, <3>2, <3>6, <3>7 DEF PendingOK
    <3> QED
      BY <1>1, <2>2, <3>5, <3>8, CallStep
  <2> QED
    BY <1>8, <2>3, <2>4 DEF AnswerPair
<1> QED
  BY <1>4, <1>5, <1>6, <1>7, <1>8 DEF Respond

-----------------------------------------------------------------------------
(* What follows the await.                                                 *)
LEMMA FreedStep ==
    ASSUME IInv, NEW s \in Slots, Freed(s), VersionOK', Grows, ListsOK', AloneOK',
           open' = open
    PROVE  IInv'
BY OneCallChanges DEF IInv, Freed

(* The answer is shown, or the data cleared.                               *)
LEMMA AnswerShownStep ==
    ASSUME IInv, NEW s \in Slots, FetchKeyData(s) \/ DataCleared(s)
    PROVE  IInv'
<1>1. PICK c : c = calls[s]
  OBVIOUS
<1>2. /\ c # NoCall /\ Freed(s) /\ UNCHANGED <<version, open, alone, wanted>>
      /\ list' = [list EXCEPT ![c.tab] = Updated(list[c.tab], c)]
      /\ stored' = list'[c.tab] \/ stored' = stored
  BY <1>1 DEF FetchKeyData, DataCleared, Answered, SaveAfterFetch, SaveKeysToStorage
<1>3. PendingOK(c, version, open)
  BY <1>1, <1>2 DEF IInv, CallsOK
<1>4. /\ c.tab \in open /\ c.tab \in Tabs /\ c.found \in Nat
      /\ c.key \in Keys => c.found <= version[c.key]
  BY <1>3 DEF PendingOK, CallRecords
<1>5. PICK old, new : old = list[c.tab] /\ new = Updated(old, c)
  OBVIOUS
<1>6. ListOK(old, version)
  BY <1>4, <1>5 DEF IInv, ListsOK
<1>7. ListOK(new, version) /\ KeysOf(new) = KeysOf(old)
  BY <1>4, <1>5, <1>6, UpdatedListOK
<1>8. list'[c.tab] = new
  BY <1>2, <1>4, <1>5 DEF IInv, ListsOK
<1>9. alone => wanted' = KeysOf(new)
  BY <1>2, <1>4, <1>5, <1>7 DEF IInv, AloneOK
<1>10. VersionOK' /\ ListsOK' /\ AloneOK'
  BY <1>2, <1>4, <1>5, <1>7, <1>8, <1>9, ListChanges
<1>11. Grows
  BY <1>2, VersionsRest DEF IInv
<1> QED
  BY <1>2, <1>10, <1>11, FreedStep

(* A key that was derived or created is watched.                           *)
LEMMA KeyWatchedStep ==
    ASSUME IInv, NEW s \in Slots, KeyDerived(s) \/ PairCreated(s)
    PROVE  IInv'
<1>1. PICK c : c = calls[s]
  OBVIOUS
<1>2. /\ c # NoCall /\ c.stage = "answered" /\ UNCHANGED <<version, open, alone>>
      /\ Watch(c.tab, c.key)
      /\ \/ c.kind = "derive" /\ calls' = [calls EXCEPT ![s] = Call("get", c.tab, c.key, 0)]
         \/ c.kind = "pair" /\ c.outcome = "ok" /\ Freed(s)
  BY <1>1 DEF KeyDerived, PairCreated, Answered
<1>3. PendingOK(c, version, open)
  BY <1>1, <1>2 DEF IInv, CallsOK
<1>4. c.tab \in open /\ c.tab \in Tabs /\ c.key \in Keys
  BY <1>2, <1>3 DEF PendingOK, CallRecords
<1>5. VersionOK' /\ ListsOK' /\ AloneOK' /\ Grows
  BY <1>2, <1>4, WatchStep
<1>6. PendingOK(Call("get", c.tab, c.key, 0), version', open')
  BY <1>2, <1>4, <1>5, Sends DEF VersionOK
<1> QED
  BY <1>2, <1>5, <1>6, OneCallChanges, FreedStep DEF IInv

(* An error is shown.                                                      *)
LEMMA AlertedStep ==
    ASSUME IInv, NEW s \in Slots, Alerted(s)
    PROVE  IInv'
<1>1. Freed(s) /\ UNCHANGED <<version, open, list, stored, alone, wanted>>
  BY DEF Alerted
<1>2. VersionOK' /\ Grows
  BY <1>1, VersionsRest DEF IInv
<1> QED
  BY <1>1, <1>2, ListsStay, FreedStep

(* Together: every step keeps the invariant.                               *)
LEMMA InvariantIsInductive == IInv /\ [Next]_vars => IInv'
<1> SUFFICES ASSUME IInv, [Next]_vars PROVE IInv'
  OBVIOUS
<1>1. CASE UNCHANGED vars
  <2>1. version' = version /\ UNCHANGED <<open, list, stored, alone, wanted>> /\ calls' = calls
    BY <1>1 DEF vars
  <2>2. VersionOK' /\ Grows
    BY <2>1, VersionsRest DEF IInv
  <2> QED
    BY <2>1, <2>2, ListsStay, CallsStay DEF IInv
<1>2. CASE User
  BY <1>2, OpenTabStep, CloseTabStep, UserSends, ImportKeysStep, RemoveKeyStep,
     AddDownloadKeyStep DEF User
<1>3. CASE \E t \in Tabs : Poll(t)
  BY <1>3, PollStep
<1>4. CASE \E k \in Keys : Upload(k) \/ Vanish(k)
  BY <1>4, DeviceStep
<1>5. CASE \E s \in Slots : Respond(s) \/ Handle(s)
  BY <1>5, RespondStep, AnswerShownStep, KeyWatchedStep, AlertedStep DEF Handle
<1> QED
  BY <1>1, <1>2, <1>3, <1>4, <1>5 DEF Next

(* It holds in every run of the viewer.                                    *)
THEOREM ViewerInvariant == Spec => []IInv
<1>1. Init => IInv
  <2> SUFFICES ASSUME Init PROVE IInv
    OBVIOUS
  <2>1. VersionOK
    BY ViewerAssumption DEF Init, VersionOK, HasData
  <2>2. ListsOK /\ AloneOK
    BY EmptyListOK DEF Init, ListsOK, ListOK, AloneOK
  <2> QED
    BY <2>1, <2>2 DEF Init, CallsOK, IInv
<1> QED
  BY <1>1, InvariantIsInductive, PTL DEF Spec

(* Lists, versions and calls keep their types, and a call under way is one *)
(* of an open tab.                                                         *)
THEOREM TypeCorrect == Spec => []TypeOK
<1>1. IInv => TypeOK
  <2> SUFFICES ASSUME IInv PROVE TypeOK
    OBVIOUS
  <2>1. version \in [Keys -> 0..MaxVersion + 2]
    BY ViewerAssumption DEF IInv, VersionOK
  <2>2. ASSUME NEW entries \in {stored} \cup {list[t] : t \in Tabs}, NEW i \in DOMAIN entries
        PROVE  /\ entries[i].key \in Keys
               /\ entries[i].data \in 0..version[entries[i].key]
    <3>1. entries \in Seq(EntriesUpTo(version))
      BY DEF IInv, ListsOK, ListOK
    <3>2. entries[i] \in EntriesUpTo(version)
      BY <3>1
    <3> QED
      BY <3>2 DEF EntriesUpTo, IInv, VersionOK
  <2>3. \A s \in Slots : calls[s] # NoCall => calls[s].tab \in open
    BY DEF IInv, CallsOK, PendingOK
  <2> QED
    BY <2>1, <2>2, <2>3 DEF IInv, ListsOK, TypeOK
<1> QED
  BY <1>1, ViewerInvariant, PTL

(* The number of keys of a list without repetition is its length.          *)
LEMMA DistinctListsHaveNoKeyTwice ==
    ASSUME NEW v, NEW entries, ListOK(entries, v)
    PROVE  Cardinality(KeysOf(entries)) = Len(entries)
<1>1. PICK n \in Nat : n = Len(entries) /\ DOMAIN entries = 1..n
  BY DEF ListOK
<1> DEFINE key == [i \in 1..n |-> entries[i].key]
<1>2. key \in Bijection(1..n, KeysOf(entries))
  BY <1>1 DEF Bijection, Injection, Surjection, IsInjective, KeysOf, ListOK, Distinct
<1>3. IsFiniteSet(1..n) /\ Cardinality(1..n) = n
  BY FS_Interval
<1>4. Cardinality(KeysOf(entries)) = Cardinality(1..n)
  BY <1>2, <1>3, FS_Bijection DEF ExistsBijection
<1> QED
  BY <1>1, <1>3, <1>4

(* However additions, imports and hashing overlap (viewer.html:762), no    *)
(* list holds a key twice: each looks for the key in the step that adds    *)
(* it.                                                                     *)
THEOREM NoKeyIsListedTwice == Spec => []NoKeyTwice
<1>1. IInv => NoKeyTwice
  BY DistinctListsHaveNoKeyTwice DEF IInv, ListsOK, NoKeyTwice
<1> QED
  BY <1>1, ViewerInvariant, PTL

(* With one tab at a time localStorage has exactly the keys added and not  *)
(* removed (viewer.html:641): every change is saved in its own step, and   *)
(* late answers change no key.                                             *)
THEOREM OneTabKeepsAll == Spec => []OneTabLosesNothing
<1>1. IInv => OneTabLosesNothing
  BY DEF IInv, AloneOK, OneTabLosesNothing
<1> QED
  BY <1>1, ViewerInvariant, PTL

-----------------------------------------------------------------------------
(* The entry of a key, in a list with no key twice.                        *)
LEMMA EntryIsUnique ==
    ASSUME NEW v, NEW entries, ListOK(entries, v), NEW i \in DOMAIN entries
    PROVE  EntryOf(entries, entries[i].key) = entries[i]
BY DEF EntryOf, ListOK, Distinct

(* What an answer does to the entry of its key.                            *)
LEMMA UpdatedEntry ==
    ASSUME NEW v, NEW entries, ListOK(entries, v), NEW call, call.found \in Nat,
           call.key \in Keys => call.found <= v[call.key], NEW k, Finds(entries, k)
    PROVE  EntryOf(Updated(entries, call), k).data
             = IF k = call.key /\ call.outcome # "error" THEN call.found
                                                        ELSE EntryOf(entries, k).data
<1>1. PICK i \in DOMAIN entries : entries[i].key = k
  BY DEF Finds, KeysOf
<1>2. PICK new : new = Updated(entries, call)
  OBVIOUS
<1>3. ListOK(new, v) /\ DOMAIN new = DOMAIN entries
  BY <1>2, UpdatedListOK DEF Updated
<1>4. new[i] = IF k = call.key /\ call.outcome # "error"
               THEN [entries[i] EXCEPT !.data = call.found] ELSE entries[i]
  BY <1>1, <1>2 DEF Updated
<1>5. entries[i] \in [key : Keys, data : Nat]
  BY DEF ListOK, EntriesUpTo
<1>6. new[i].key = k
  BY <1>1, <1>4, <1>5
<1>7. EntryOf(new, k) = new[i] /\ EntryOf(entries, k) = entries[i]
  BY <1>1, <1>3, <1>6, EntryIsUnique
<1> QED
  BY <1>2, <1>4, <1>5, <1>7

(* A call ends only with its tab or by being handled.                      *)
LEMMA FetchAllEndsNoCall ==
    ASSUME NEW t, NEW entries, FetchAll(t, entries), NEW s \in Slots, calls[s] # NoCall
    PROVE  calls'[s] # NoCall
<1>1. calls'[s] = calls[s] \/ \E k, d : calls'[s] = Call("get", t, k, d)
  BY DEF FetchAll
<1>2. \A k, d : Call("get", t, k, d).kind = "get"
  BY DEF Call
<1>3. NoCall.kind = "none"
  BY DEF NoCall
<1> QED
  BY <1>1, <1>2, <1>3

(* What is shown when a call ends is what it found.                        *)
LEMMA CallsEnd ==
    ASSUME IInv, Next, NEW s \in Slots, calls[s] # NoCall, calls'[s] = NoCall,
           calls[s].tab \in open'
    PROVE  FetchKeyData(s) \/ DataCleared(s) \/ PairCreated(s) \/ Alerted(s)
<1>1. DOMAIN calls = Slots /\ NoCall.kind = "none" /\ PendingOK(calls[s], version, open)
  BY DEF IInv, CallsOK, NoCall
<1>2. \A kind, t, k, d : Call(kind, t, k, d).kind = kind
  BY DEF Call
<1>3. ASSUME NEW r \in Slots, Freed(r) PROVE r = s
  BY <1>1, <1>3 DEF Freed
<1>4. ~User
  <2>1. ASSUME NEW t \in Tabs PROVE ~OpenTab(t)
    BY FetchAllEndsNoCall DEF OpenTab
  <2>2. ASSUME NEW t \in Tabs PROVE ~CloseTab(t)
    BY DEF CloseTab, CallsWithout
  <2>3. ASSUME NEW t \in Tabs, NEW imported \in Exports PROVE ~ImportKeys(t, imported)
    BY FetchAllEndsNoCall DEF ImportKeys
  <2>4. ASSUME NEW t \in Tabs, NEW k \in Keys PROVE ~RemoveKey(t, k)
    <3>1. Detached(calls[s]).kind = calls[s].kind /\ calls[s].kind # "none"
      BY <1>1 DEF Detached, PendingOK, CallRecords
    <3> QED
      BY <1>1, <3>1 DEF RemoveKey
  <2>5. ASSUME NEW t \in Tabs, NEW r \in Slots, NEW kind \in {"get", "clear", "pair", "derive"},
               NEW k, NEW d
        PROVE  /\ ~(calls' = [calls EXCEPT ![r] = Call(kind, t, k, d)])
               /\ ~(calls' = [calls EXCEPT ![r] = [Call(kind, t, k, d) EXCEPT !.stage = "answered"]])
    <3>1. [Call(kind, t, k, d) EXCEPT !.stage = "answered"].kind = kind
      BY DEF Call
    <3>2. ASSUME NEW c, calls' = [calls EXCEPT ![r] = c] PROVE c.kind = "none"
      BY <1>1, <3>2
    <3>3. ~(calls' = [calls EXCEPT ![r] = Call(kind, t, k, d)])
      BY <1>2, <3>2
    <3>4. PICK c : c = [Call(kind, t, k, d) EXCEPT !.stage = "answered"]
      OBVIOUS
    <3>5. ~(calls' = [calls EXCEPT ![r] = c])
      BY <3>1, <3>2, <3>4
    <3> QED
      BY <3>3, <3>4, <3>5
  <2>6. ASSUME NEW t \in Tabs, NEW r \in Slots
        PROVE  /\ ~Refresh(t, r) /\ ~CreateNewKeyPair(t, r)
               /\ \A k \in Keys : /\ ~AddDownloadKey(t, k, r) /\ ~AddUploadKey(t, k, r)
                                  /\ ~ClearKeyData(t, k, r)
    BY <2>5 DEF Refresh, CreateNewKeyPair, AddDownloadKey, AddUploadKey, ClearKeyData
  <2> QED
    BY <2>1, <2>2, <2>3, <2>4, <2>6 DEF User
<1>5. \A t \in Tabs : ~Poll(t)
  BY FetchAllEndsNoCall DEF Poll
<1>6. \A k \in Keys : ~Upload(k) /\ ~Vanish(k)
  BY DEF Upload, Vanish
<1>7. ASSUME NEW r \in Slots PROVE ~Respond(r)
  <2>1. ASSUME NEW outcome, NEW found, calls[r] # NoCall PROVE ~Answer(r, outcome, found)
    <3>1. calls[r] \in CallRecords
      BY <2>1 DEF IInv, CallsOK, PendingOK
    <3>2. Answer(r, outcome, found) => calls'[r].kind = calls[r].kind
      BY <1>1, <3>1 DEF Answer, CallRecords
    <3>3. Answer(r, outcome, found) => (r # s => calls'[s] = calls[s])
      BY <1>1 DEF Answer
    <3> QED
      BY <1>1, <3>1, <3>2, <3>3 DEF CallRecords
  <2>2. ASSUME NEW k, calls[r] # NoCall
        PROVE  ~(calls' = [calls EXCEPT ![r].stage = "answered",
                                        ![r].outcome = "ok", ![r].key = k])
    <3>1. calls[r] \in CallRecords
      BY <2>2 DEF IInv, CallsOK, PendingOK
    <3> QED
      BY <1>1, <3>1 DEF CallRecords
  <2>3. ~AnswerPair(r)
    BY <2>1, <2>2 DEF AnswerPair, Sent
  <2> QED
    BY <2>1, <2>3 DEF Respond, AnswerGet, FailGet, AnswerClear, AnswerDetached, Sent
<1>8. \A r \in Slots : ~KeyDerived(r)
  BY <1>1, <1>2 DEF KeyDerived
<1>9. PICK r \in Slots : Handle(r)
  BY <1>4, <1>5, <1>6, <1>7 DEF Next
<1>10. Freed(r)
  BY <1>8, <1>9 DEF Handle, FetchKeyData, DataCleared, PairCreated, Alerted
<1> QED
  BY <1>3, <1>8, <1>9, <1>10 DEF Handle

(* What is shown of a key goes back only when another answer was shown     *)
(* after the call was sent (viewer.html:560), or the database failed.      *)
THEOREM OvertakenCallsOnly == Spec => OnlyOvertakenCallsGoBack
<1> DEFINE Back(t, k, s) ==
          (/\ calls[s] # NoCall /\ calls'[s] = NoCall
           /\ calls[s].tab = t /\ calls[s].key = k /\ t \in open'
           /\ Finds(list[t], k) /\ Finds(list'[t], k)
           /\ calls[s].outcome # "failed"
           /\ EntryOf(list'[t], k).data < EntryOf(list[t], k).data)
             => calls[s].knew < EntryOf(list[t], k).data
<1>1. IInv /\ [Next]_vars => [\A t \in Tabs, k \in Keys, s \in Slots : Back(t, k, s)]_vars
  <2> SUFFICES ASSUME IInv, Next, NEW t \in Tabs, NEW k \in Keys, NEW s \in Slots,
                      calls[s] # NoCall, calls'[s] = NoCall,
                      calls[s].tab = t, calls[s].key = k, t \in open',
                      Finds(list[t], k), Finds(list'[t], k),
                      calls[s].outcome # "failed",
                      EntryOf(list'[t], k).data < EntryOf(list[t], k).data
               PROVE  calls[s].knew < EntryOf(list[t], k).data
    OBVIOUS
  <2>1. PICK c : c = calls[s]
    OBVIOUS
  <2>2. PendingOK(c, version, open)
    BY <2>1 DEF IInv, CallsOK
  <2>3. FetchKeyData(s) \/ DataCleared(s) \/ PairCreated(s) \/ Alerted(s)
    BY CallsEnd
  <2>4. EntryOf(list[t], k).data \in Nat
    BY OpenTabIsShown
  <2>5. CASE PairCreated(s)
    BY <2>5 DEF PairCreated, Watch
  <2>6. CASE Alerted(s)
    BY <2>4, <2>6 DEF Alerted
  <2>7. CASE FetchKeyData(s) \/ DataCleared(s)
    <3>1. /\ list' = [list EXCEPT ![t] = Updated(list[t], c)]
          /\ c.stage = "answered" /\ c.kind \in {"get", "clear"}
      BY <2>1, <2>7 DEF FetchKeyData, DataCleared, Answered
    <3>2. list'[t] = Updated(list[t], c) /\ ListOK(list[t], version)
      BY <3>1 DEF IInv, ListsOK
    <3>3. c.found \in Nat /\ c.knew \in Nat /\ c.key = k /\ c.found <= version[k]
      BY <2>1, <2>2 DEF PendingOK, CallRecords
    <3>4. EntryOf(list'[t], k).data
            = IF c.outcome # "error" THEN c.found ELSE EntryOf(list[t], k).data
      BY <3>2, <3>3, UpdatedEntry
    <3>5. c.outcome # "error" /\ c.found < EntryOf(list[t], k).data
      BY <2>4, <3>4
    <3>6. c.outcome = "ok" /\ c.knew <= c.found
      BY <2>1, <2>2, <3>1, <3>3, <3>5 DEF PendingOK, CallRecords
    <3> QED
      BY <2>1, <2>4, <3>3, <3>5, <3>6
  <2> QED
    BY <2>3, <2>5, <2>6, <2>7
<1> QED
  BY <1>1, ViewerInvariant, PTL DEF Spec, OnlyOvertakenCallsGoBack
=============================================================================
