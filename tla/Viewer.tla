------------------------------- MODULE Viewer -------------------------------
(***************************************************************************)
(* The viewer page (src/static/viewer.html) in the tabs of one browser.    *)
(* Each tab keeps a list of watched keys with the data last received; the  *)
(* tabs share one copy of the list in localStorage.  Every function runs   *)
(* to its next await without interruption, so what follows an await is a   *)
(* step of its own: a call is sent, answered by the server and handled by  *)
(* the tab in three steps, and calls overtake one another.                 *)
(*                                                                         *)
(* The server is external: the data of a key is a number that grows with   *)
(* every change; odd numbers are documents, even ones are no data.  An     *)
(* entry keeps the number of the state it shows.                           *)
(* Names, rendering, the spelling of keys and who knows an upload key are  *)
(* left out: any entry may be cleared.                                     *)
(***************************************************************************)
EXTENDS Integers, Sequences, SequencesExt

CONSTANTS
    Tabs, Keys,
    Slots,        \* bound: identities of the calls under way
    MaxVersion,   \* bound of the changes by devices
    NoKey         \* the key of a call whose entry was removed

ASSUME ViewerAssumption ==
    /\ NoKey \notin Keys
    /\ IsFiniteSet(Keys)
    /\ MaxVersion \in Nat

VARIABLES
    version,   \* key -> what the server has
    open,      \* the tabs that are open
    list,      \* tab -> its watchedKeys
    stored,    \* the list in localStorage
    calls,     \* slot -> a call that a tab waits for
    alone,     \* history: there were never two tabs open
    wanted     \* history, while alone: the keys added and not removed since

vars == <<version, open, list, stored, calls, alone, wanted>>

NoData == 0
HasData(v) == v % 2 = 1
Shown(v) == IF HasData(v) THEN v ELSE NoData

NoCall == [kind |-> "none"]
Idle == {s \in Slots : calls[s] = NoCall}

Init ==
    /\ version = [k \in Keys |-> 0]
    /\ open = {}
    /\ list = [t \in Tabs |-> <<>>]
    /\ stored = <<>>
    /\ calls = [s \in Slots |-> NoCall]
    /\ wanted = {}
    /\ alone = TRUE

-----------------------------------------------------------------------------
Pending(k) == [key |-> k, data |-> NoData]

KeysOf(entries) == {entries[i].key : i \in DOMAIN entries}

NeverFinds(entries, k) == FALSE                  \* Not the code
Finds(entries, k) == k \in KeysOf(entries)
EntryOf(entries, k) == entries[CHOOSE i \in DOMAIN entries : entries[i].key = k]

(* A call of tab t about its entry of key k; knew is history: what the     *)
(* entry showed when the call was sent.                                    *)
Call(kind, t, k, knew) ==
    [kind |-> kind, tab |-> t, key |-> k, stage |-> "sent",
     outcome |-> "none", found |-> 0, knew |-> knew]

NotSaved(t) == UNCHANGED stored                  \* Not the code
SaveKeysToStorage(t) == stored' = list'[t]

NoSaveAfterFetch(t) == UNCHANGED stored          \* Not the code
SaveAfterFetch(t) == SaveKeysToStorage(t)

(* fetchAllKeys: one fetch for each entry, each in a slot of its own.      *)
FetchAll(t, entries) ==
    \E slotOf \in [DOMAIN entries -> Idle] :
        /\ IsInjective(slotOf)
        /\ calls' = [s \in Slots |->
              IF \E i \in DOMAIN entries : slotOf[i] = s
              THEN LET e == entries[CHOOSE i \in DOMAIN entries : slotOf[i] = s]
                   IN  Call("get", t, e.key, e.data)
              ELSE calls[s]]

(* DOMContentLoaded. *)
OpenTab(t) ==
    /\ t \notin open
    /\ open' = open \cup {t}
    /\ list' = [list EXCEPT ![t] = stored]
    /\ FetchAll(t, stored)
    /\ alone' = (alone /\ open = {})
    /\ wanted' = IF open = {} THEN wanted ELSE {}
    /\ UNCHANGED <<version, stored>>

KeepsCalls(t) == calls                           \* Not the code
CallsWithout(t) ==
    [s \in Slots |-> IF calls[s] # NoCall /\ calls[s].tab = t THEN NoCall ELSE calls[s]]

(* A deletion on its way may still be done: Vanish. *)
CloseTab(t) ==
    /\ t \in open
    /\ open' = open \ {t}
    /\ list' = [list EXCEPT ![t] = <<>>]
    /\ calls' = CallsWithout(t)
    /\ UNCHANGED <<version, stored, alone, wanted>>

OnlyLoaded(entries) == SelectSeq(entries, LAMBDA e : HasData(e.data))
                                                 \* Not the code
Polled(entries) == entries

Poll(t) ==
    /\ t \in open
    /\ FetchAll(t, Polled(list[t]))
    /\ UNCHANGED <<version, open, list, stored, alone, wanted>>

(* The refresh button. *)
Refresh(t, s) ==
    /\ s \in Idle
    /\ \E i \in DOMAIN list[t] :
          calls' = [calls EXCEPT ![s] = Call("get", t, list[t][i].key, list[t][i].data)]
    /\ UNCHANGED <<version, open, list, stored, alone, wanted>>

Watch(t, k) ==
    /\ ~Finds(list[t], k)
    /\ list' = [list EXCEPT ![t] = Append(@, Pending(k))]
    /\ SaveKeysToStorage(t)
    /\ wanted' = IF alone THEN wanted \cup {k} ELSE {}

(* addKey of a download key; of an upload key, which is hashed first; and  *)
(* createNewKeyPair, which asks the server.                                *)
AddDownloadKey(t, k, s) ==
    /\ t \in open
    /\ s \in Idle
    /\ Watch(t, k)
    /\ calls' = [calls EXCEPT ![s] = Call("get", t, k, 0)]
    /\ UNCHANGED <<version, open, alone>>

AddUploadKey(t, k, s) ==
    /\ t \in open
    /\ s \in Idle
    /\ calls' = [calls EXCEPT ![s] =
                    [Call("derive", t, k, 0) EXCEPT !.stage = "answered"]]
    /\ UNCHANGED <<version, open, list, stored, alone, wanted>>

CreateNewKeyPair(t, s) ==
    /\ t \in open
    /\ s \in Idle
    /\ calls' = [calls EXCEPT ![s] = Call("pair", t, NoKey, 0)]
    /\ UNCHANGED <<version, open, list, stored, alone, wanted>>

(* An export made by this page: entries with the data they had then.       *)
Exports ==
    LET entries == {e \in [key : Keys, data : 0..MaxVersion + 2] :
                       e.data <= version[e.key]}
    IN  BoundedSeq(entries, Cardinality(Keys))

(* The loop over the imported keys, of which those not watched are added.  *)
Imported(entries, imported) ==
    LET merged[i \in 0..Len(imported)] ==
            IF i = 0 THEN entries
            ELSE IF Finds(merged[i - 1], imported[i].key) THEN merged[i - 1]
            ELSE Append(merged[i - 1], imported[i])
    IN  merged[Len(imported)]

(* The entries that are not watched yet are added; then all are fetched.   *)
ImportKeys(t, imported) ==
    /\ t \in open
    /\ list' = [list EXCEPT ![t] = Imported(@, imported)]
    /\ SaveKeysToStorage(t)
    /\ wanted' = IF alone THEN wanted \cup KeysOf(imported) ELSE {}
    /\ FetchAll(t, list'[t])
    /\ UNCHANGED <<version, open, alone>>

Without(entries, k) ==
    LET kept[i \in 0..Len(entries)] ==
            IF i = 0 THEN <<>>
            ELSE IF entries[i].key = k THEN kept[i - 1]
            ELSE Append(kept[i - 1], entries[i])
    IN  kept[Len(entries)]

(* A call about an entry that was removed goes on; its answer is for an    *)
(* object nobody shows.                                                    *)
Detached(call) == [call EXCEPT !.key = NoKey, !.knew = 0, !.outcome = "none", !.found = 0]

RemoveKey(t, k) ==
    /\ Finds(list[t], k)
    /\ list' = [list EXCEPT ![t] = Without(@, k)]
    /\ SaveKeysToStorage(t)
    /\ wanted' = wanted \ {k}
    /\ calls' = [s \in Slots |->
          IF calls[s] # NoCall /\ calls[s].kind \in {"get", "clear"}
                               /\ calls[s].tab = t /\ calls[s].key = k
          THEN Detached(calls[s]) ELSE calls[s]]
    /\ UNCHANGED <<version, open, alone>>

ClearKeyData(t, k, s) ==
    /\ s \in Idle
    /\ Finds(list[t], k)
    /\ calls' = [calls EXCEPT ![s] = Call("clear", t, k, EntryOf(list[t], k).data)]
    /\ UNCHANGED <<version, open, list, stored, alone, wanted>>

-----------------------------------------------------------------------------
(* The server and the network.                                             *)

Answer(s, outcome, found) ==
    calls' = [calls EXCEPT ![s].stage = "answered", ![s].outcome = outcome,
                           ![s].found = found]

Sent(s, kind) == calls[s] # NoCall /\ calls[s].stage = "sent" /\ calls[s].kind = kind

FromACache(k) == 0..version[k]                   \* Not the code
ServerHas(k) == {version[k]}

(* The data, or a 404 that tells there are none. *)
AnswerGet(s) ==
    /\ Sent(s, "get")
    /\ calls[s].key # NoKey
    /\ \E v \in ServerHas(calls[s].key) : Answer(s, "ok", v)
    /\ UNCHANGED <<version, open, list, stored, alone, wanted>>

(* A database error is a 404, too, and clears the data; other errors do not. *)
FailGet(s) ==
    /\ Sent(s, "get")
    /\ calls[s].key # NoKey
    /\ Answer(s, "error", 0) \/ Answer(s, "failed", NoData)
    /\ UNCHANGED <<version, open, list, stored, alone, wanted>>

Deleted(v) == IF HasData(v) THEN v + 1 ELSE v

(* The deletion may be done although its answer is an error. *)
AnswerClear(s) ==
    /\ Sent(s, "clear")
    /\ calls[s].key # NoKey
    /\ LET k == calls[s].key IN
       \/ /\ version' = [version EXCEPT ![k] = Deleted(@)]
          /\ \/ Answer(s, "ok", Deleted(version[k]))
             \/ Answer(s, "error", 0)
       \/ /\ UNCHANGED version
          /\ Answer(s, "error", 0)
    /\ UNCHANGED <<open, list, stored, alone, wanted>>

(* What is answered matters little once the entry is removed. *)
AnswerDetached(s) ==
    /\ Sent(s, "get") \/ Sent(s, "clear")
    /\ calls[s].key = NoKey
    /\ \/ UNCHANGED version
       \/ /\ Sent(s, "clear")
          /\ \E k \in Keys : version' = [version EXCEPT ![k] = Deleted(@)]
    /\ Answer(s, "ok", 0)
    /\ UNCHANGED <<open, list, stored, alone, wanted>>

(* A new key is one that nobody has seen. *)
Fresh == {k \in Keys : /\ version[k] = 0
                       /\ k \notin wanted \cup KeysOf(stored)
                       /\ \A t \in Tabs : k \notin KeysOf(list[t])
                       /\ \A s \in Slots : calls[s] # NoCall => calls[s].key # k}

AnswerPair(s) ==
    /\ Sent(s, "pair")
    /\ \/ \E k \in Fresh : calls' = [calls EXCEPT ![s].stage = "answered",
                                                  ![s].outcome = "ok", ![s].key = k]
       \/ Answer(s, "error", 0)
    /\ UNCHANGED <<version, open, list, stored, alone, wanted>>

Upload(k) ==
    /\ version[k] < MaxVersion
    /\ version' = [version EXCEPT ![k] = IF HasData(@) THEN @ + 2 ELSE @ + 1]
    /\ UNCHANGED <<open, list, stored, calls, alone, wanted>>

(* Deleted by its owner, or expired. *)
Vanish(k) ==
    /\ HasData(version[k])
    /\ version' = [version EXCEPT ![k] = @ + 1]
    /\ UNCHANGED <<open, list, stored, calls, alone, wanted>>

-----------------------------------------------------------------------------
(* What follows the await. *)

Answered(s, kind) ==
    calls[s] # NoCall /\ calls[s].stage = "answered" /\ calls[s].kind = kind

Freed(s) == calls' = [calls EXCEPT ![s] = NoCall]

(* The entry the call was made for takes the answer, if it is still shown. *)
Updated(entries, call) ==
    [i \in DOMAIN entries |->
        IF entries[i].key = call.key /\ call.outcome # "error"
        THEN [entries[i] EXCEPT !.data = call.found]
        ELSE entries[i]]

FetchKeyData(s) ==
    /\ Answered(s, "get")
    /\ list' = [list EXCEPT ![calls[s].tab] = Updated(@, calls[s])]
    /\ SaveAfterFetch(calls[s].tab)
    /\ Freed(s)
    /\ UNCHANGED <<version, open, alone, wanted>>

DataCleared(s) ==
    /\ Answered(s, "clear")
    /\ list' = [list EXCEPT ![calls[s].tab] = Updated(@, calls[s])]
    /\ IF calls[s].outcome = "ok" THEN SaveKeysToStorage(calls[s].tab) ELSE UNCHANGED stored
    /\ Freed(s)
    /\ UNCHANGED <<version, open, alone, wanted>>

KeyDerived(s) ==
    /\ Answered(s, "derive")
    /\ Watch(calls[s].tab, calls[s].key)
    /\ calls' = [calls EXCEPT ![s] = Call("get", @.tab, @.key, 0)]
    /\ UNCHANGED <<version, open, alone>>

PairCreated(s) ==
    /\ Answered(s, "pair")
    /\ calls[s].outcome = "ok"
    /\ Watch(calls[s].tab, calls[s].key)
    /\ Freed(s)
    /\ UNCHANGED <<version, open, alone>>

(* The user is told that the key is watched already, or that it failed. *)
Alerted(s) ==
    /\ \/ Answered(s, "derive") /\ Finds(list[calls[s].tab], calls[s].key)
       \/ Answered(s, "pair") /\ \/ calls[s].outcome = "error"
                                 \/ Finds(list[calls[s].tab], calls[s].key)
    /\ Freed(s)
    /\ UNCHANGED <<version, open, list, stored, alone, wanted>>

Handle(s) ==
    \/ FetchKeyData(s)
    \/ DataCleared(s)
    \/ KeyDerived(s)
    \/ PairCreated(s)
    \/ Alerted(s)

Respond(s) ==
    \/ AnswerGet(s)
    \/ FailGet(s)
    \/ AnswerClear(s)
    \/ AnswerDetached(s)
    \/ AnswerPair(s)

User ==
    \E t \in Tabs :
        \/ OpenTab(t)
        \/ CloseTab(t)
        \/ \E s \in Slots : \/ Refresh(t, s)
                            \/ CreateNewKeyPair(t, s)
        \/ \E imported \in Exports : ImportKeys(t, imported)
        \/ \E k \in Keys : RemoveKey(t, k)
        \/ \E k \in Keys, s \in Slots : \/ AddDownloadKey(t, k, s)
                                        \/ AddUploadKey(t, k, s)
                                        \/ ClearKeyData(t, k, s)

Next ==
    \/ User
    \/ \E t \in Tabs : Poll(t)
    \/ \E k \in Keys : Upload(k) \/ Vanish(k)
    \/ \E s \in Slots : Respond(s) \/ Handle(s)

(* Calls are answered, by an error if need be, and the tab goes on; the    *)
(* timer of a tab fires for ever (slots may be taken, which is only the    *)
(* bound's doing, hence SF); and not every fetch fails.  Users and devices *)
(* need never do anything.                                                 *)
Fairness ==
    /\ \A s \in Slots : WF_vars(Respond(s) \/ Handle(s))
    /\ \A t \in Tabs : SF_vars(Poll(t))
    /\ \A t \in Tabs, k \in Keys :
          SF_vars(\E s \in Slots : AnswerGet(s) /\ calls[s].tab = t /\ calls[s].key = k)

Spec == Init /\ [][Next]_vars /\ Fairness

-----------------------------------------------------------------------------
(* The types; a closed tab has neither entries nor calls, and nothing is   *)
(* shown that the server has not had.                                      *)
TypeOK ==
    /\ version \in [Keys -> 0..MaxVersion + 2]
    /\ \A entries \in {stored} \cup {list[t] : t \in Tabs} :
          \A i \in DOMAIN entries :
             /\ entries[i].key \in Keys
             /\ entries[i].data \in 0..version[entries[i].key]
    /\ \A t \in Tabs \ open : list[t] = <<>>
    /\ \A s \in Slots : calls[s] # NoCall => calls[s].tab \in open

(* viewer.html:762: however additions overlap with each other and with     *)
(* their own hashing, no list holds a key twice.                           *)
NoKeyTwice ==
    \A entries \in {stored} \cup {list[t] : t \in Tabs} :
        Cardinality(KeysOf(entries)) = Len(entries)

(* As long as there is one tab at a time, localStorage has exactly the     *)
(* keys that were added and not removed, whatever is still under way when  *)
(* keys are removed or the tab is closed (viewer.html:641).  Two tabs can  *)
(* overwrite each other's keys.                                            *)
OneTabLosesNothing == alone => KeysOf(stored) = wanted

(* The data of an entry never goes back to an older state of the server,   *)
(* unless another answer was shown after its call was sent, or the         *)
(* database failed.                                                        *)
OnlyOvertakenCallsGoBack ==
    [][\A t \in Tabs, k \in Keys, s \in Slots :
          (/\ calls[s] # NoCall /\ calls'[s] = NoCall
           /\ calls[s].tab = t /\ calls[s].key = k /\ t \in open'
           /\ Finds(list[t], k) /\ Finds(list'[t], k)
           /\ calls[s].outcome # "failed"
           /\ EntryOf(list'[t], k).data < EntryOf(list[t], k).data)
             => calls[s].knew < EntryOf(list[t], k).data]_vars

ShowsServer(t, k) ==
    Shown(EntryOf(list[t], k).data) = Shown(version[k])

(* viewer.html:560, "display the latest values": a key that is watched     *)
(* gets to what the server has once devices stop changing it, also after   *)
(* errors, overtaken answers and removals.                                 *)
ViewCatchesUp ==
    \A t \in Tabs, k \in Keys : []<>(Finds(list[t], k) => ShowsServer(t, k))

(* While a tab watches a key, whatever another tab does to the stored list *)
(* is undone by one of the next polls.                                     *)
WatchedKeysAreStored ==
    \A t \in Tabs, k \in Keys : []<>(Finds(list[t], k) => k \in KeysOf(stored))
=============================================================================
