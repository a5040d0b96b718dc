------------------------------ MODULE Storage ------------------------------
(***************************************************************************)
(* The storage component (src/storage/storage.go): a BadgerDB database     *)
(* behind calls that give up on a slow database instead of blocking.       *)
(*                                                                         *)
(* A call runs in its caller's goroutine.  updateWithContext and           *)
(* viewWithContext start the Badger transaction in a second, background    *)
(* goroutine and wait in a select for its answer, for the end of the       *)
(* context or (writes) for WriteTimeout.  A caller that stops waiting      *)
(* leaves the transaction running: nothing cancels it.  A write that times *)
(* out opens the breaker, the flag "degraded", and later writes are        *)
(* refused before a transaction is started.                                *)
(*                                                                         *)
(* Badger is external.  From the way the code uses it a transaction is     *)
(* taken to read or commit at one instant between its start and its        *)
(* answer; it may fail, changing nothing; it may take for ever.  Update    *)
(* transactions here write without reading, so they never conflict.        *)
(*                                                                         *)
(* A payload is identified with the call that wrote it, so the database    *)
(* keeps for each key the call that wrote it last and the time its entry   *)
(* has left to live.  WriteTimeout and the read deadline are not measured: *)
(* every interleaving in which they fire is possible, as a transaction can *)
(* be arbitrarily slow.                                                    *)
(***************************************************************************)
EXTENDS Integers

CONSTANTS
    Calls,            \* identities of the calls of the Storage interface
    Keys,             \* download keys
    Docs,             \* documents handed to Store
    Ops,              \* the operations that are called
    PersistDuration,  \* time to live of an entry, in ticks (<= 0 in Go: 0)
    NoCall,           \* "written by nobody"
    CallersGiveUp,    \* may the context of a call end before the call?
    OperatorResets    \* is ResetDegraded ever called?

Writes == {"Store", "Delete"}
Reads == {"GetJSON", "Retrieve"}

ASSUME StorageAssumption ==
    /\ NoCall \notin Calls
    /\ Ops \subseteq Writes \cup Reads \cup {"CheckHealth"}
    /\ PersistDuration \in Nat
    /\ CallersGiveUp \in BOOLEAN
    /\ OperatorResets \in BOOLEAN

VARIABLES
    db,        \* key -> [by: last call to write it, left: time to live]
    degraded,  \* the atomic flag of the breaker
    args,      \* call -> its operation, key and document
    pc,        \* call -> where its caller is
    ctx,       \* call -> has its (derived) context ended?
    txn,       \* call -> where its background goroutine is
    err,       \* call -> what the transaction answered
    life,      \* call -> time to live of the entry fn has prepared
    got,       \* call -> the captured variable fn reads into
    res,       \* call -> the error returned to the caller
    before     \* history: call -> the calls that had returned, with whatever
               \* result, when it was invoked

vars == <<db, degraded, args, pc, ctx, txn, err, life, got, res, before>>

-----------------------------------------------------------------------------
(* Results that tell the caller whether the write happened.  After any     *)
(* other result it may have happened, or happen later.                     *)
Refused == {"ErrStorageDegraded", "dberror"}
Definite == {"nil", "ErrKeyNotFound"} \cup Refused
Indefinite == {"cancelled", "ErrStorageTimeout", "crashed"}
Reports == {"healthy", "unhealthy", "degraded"}

InFlight == {"started", "ran"}
Active == {"load", "check", "select", "view"}

Visible(entry) == entry.left # 0
NoEntry == [by |-> NoCall, left |-> 0]
NothingRead == [by |-> NoCall, visible |-> FALSE]
NoArgs == [op |-> "none", key |-> "none", doc |-> "none"]

(* What a caller can know to be over when it invokes c. *)
Known(c) == {w \in before[c] : res[w] \in Definite}

Init ==
    /\ db = [k \in Keys |-> NoEntry]
    /\ degraded = FALSE
    /\ args = [c \in Calls |-> NoArgs]
    /\ pc = [c \in Calls |-> "idle"]
    /\ ctx = [c \in Calls |-> "live"]
    /\ txn = [c \in Calls |-> "none"]
    /\ err = [c \in Calls |-> "none"]
    /\ life = [c \in Calls |-> 0]
    /\ got = [c \in Calls |-> NothingRead]
    /\ res = [c \in Calls |-> "none"]
    /\ before = [c \in Calls |-> {}]

-----------------------------------------------------------------------------
(* The caller's side.  Definitions named like a mistake (and marked "Not   *)
(* the code") are what this code could have been; nothing uses them.       *)

CancelledIsSuccess == "nil"                \* Not the code
CancelledError == "cancelled"

TimeoutIsFailure == "dberror"              \* Not the code
TimeoutError == "ErrStorageTimeout"

FlagForgotten == FALSE                     \* Not the code
FlagOnTimeout == TRUE

BreakerIgnored == FALSE                    \* Not the code
BreakerOpen == degraded

Return(c, r) ==
    /\ pc' = [pc EXCEPT ![c] = "returned"]
    /\ res' = [res EXCEPT ![c] = r]

Invoke(c, op, k, d) ==
    /\ pc[c] = "idle"
    /\ args' = [args EXCEPT ![c] = [op |-> op, key |-> k, doc |-> d]]
    /\ pc' = [pc EXCEPT ![c] = IF op \in Reads THEN "check" ELSE "load"]
    /\ before' = [before EXCEPT ![c] = {w \in Calls : pc[w] = "returned"}]
    /\ UNCHANGED <<db, degraded, ctx, txn, err, life, got, res>>

(* degraded.Load() at the head of updateWithContext and of CheckHealth. *)
LoadDegraded(c) ==
    /\ pc[c] = "load"
    /\ \/ /\ ~BreakerOpen
          /\ pc' = [pc EXCEPT ![c] = IF args[c].op \in Writes THEN "check"
                                                              ELSE "view"]
          /\ UNCHANGED res
       \/ /\ BreakerOpen
          /\ Return(c, IF args[c].op \in Writes THEN "ErrStorageDegraded"
                                                ELSE "degraded")
    /\ UNCHANGED <<db, degraded, args, ctx, txn, err, life, got, before>>

(* The ctx.Err() test, and the go statement when the context is live. *)
CheckCtx(c) ==
    /\ pc[c] = "check"
    /\ \/ /\ ctx[c] = "done"
          /\ Return(c, CancelledError)
          /\ UNCHANGED txn
       \/ /\ ctx[c] = "live"
          /\ pc' = [pc EXCEPT ![c] = "select"]
          /\ txn' = [txn EXCEPT ![c] = "started"]
          /\ UNCHANGED res
    /\ UNCHANGED <<db, degraded, args, ctx, err, life, got, before>>

(* The three branches of the select; Go picks any that is ready. *)
AckedBeforeCommit(c) ==                    \* Not the code
    /\ pc[c] = "select"
    /\ txn[c] \in {"ran", "exited"}
    /\ Return(c, IF txn[c] = "ran" THEN "nil" ELSE err[c])
    /\ UNCHANGED <<db, degraded, args, ctx, txn, err, life, got, before>>

ReceiveDone(c) ==
    /\ pc[c] = "select"
    /\ txn[c] = "exited"
    /\ Return(c, err[c])
    /\ UNCHANGED <<db, degraded, args, ctx, txn, err, life, got, before>>

CtxWins(c) ==
    /\ pc[c] = "select"
    /\ ctx[c] = "done"
    /\ Return(c, CancelledError)
    /\ UNCHANGED <<db, degraded, args, ctx, txn, err, life, got, before>>

TimerWins(c) ==
    /\ pc[c] = "select"
    /\ args[c].op \in Writes
    /\ degraded' = FlagOnTimeout
    /\ Return(c, TimeoutError)
    /\ UNCHANGED <<db, args, ctx, txn, err, life, got, before>>

(* CheckHealth reads the database, and the free disk space, in the         *)
(* caller's own goroutine and without a context.                           *)
HealthView(c) ==
    /\ pc[c] = "view"
    /\ \E r \in {"healthy", "unhealthy"} : Return(c, r)
    /\ UNCHANGED <<db, degraded, args, ctx, txn, err, life, got, before>>

(* Every read has a deadline: its caller's or the fallback. *)
NoFallbackTimeout(c) == FALSE              \* Not the code
HasDeadline(c) == args[c].op \in Reads

EndCtx(c) ==
    /\ pc[c] \in {"load", "check", "select"}
    /\ ctx[c] = "live"
    /\ CallersGiveUp \/ HasDeadline(c)
    /\ ctx' = [ctx EXCEPT ![c] = "done"]
    /\ UNCHANGED <<db, degraded, args, pc, txn, err, life, got, res, before>>

-----------------------------------------------------------------------------
(* The background goroutine.  It does not look at its caller.              *)

(* WithTTL is evaluated when fn runs, before the commit. *)
NoTTL(op) == -1                            \* Not the code
Lifetime(op) == IF op = "Store" THEN PersistDuration ELSE 0

RunUpdate(c) ==
    /\ txn[c] = "started"
    /\ args[c].op \in Writes
    /\ txn' = [txn EXCEPT ![c] = "ran"]
    /\ life' = [life EXCEPT ![c] = Lifetime(args[c].op)]
    /\ UNCHANGED <<db, degraded, args, pc, ctx, err, got, res, before>>

CommitRenews(c) ==                         \* Not the code
    /\ txn[c] = "ran"
    /\ db' = [db EXCEPT ![args[c].key] = [by |-> c, left |-> Lifetime(args[c].op)]]
    /\ txn' = [txn EXCEPT ![c] = "sending"]
    /\ err' = [err EXCEPT ![c] = "nil"]
    /\ life' = [life EXCEPT ![c] = 0]
    /\ UNCHANGED <<degraded, args, pc, ctx, got, res, before>>

Commit(c) ==
    /\ txn[c] = "ran"
    /\ db' = [db EXCEPT ![args[c].key] = [by |-> c, left |-> life[c]]]
    /\ txn' = [txn EXCEPT ![c] = "sending"]
    /\ err' = [err EXCEPT ![c] = "nil"]
    /\ life' = [life EXCEPT ![c] = 0]
    /\ UNCHANGED <<degraded, args, pc, ctx, got, res, before>>

(* GetJSON reports a missing key; Retrieve answers with an empty map. *)
RunView(c) ==
    LET entry == db[args[c].key] IN
    /\ txn[c] = "started"
    /\ args[c].op \in Reads
    /\ got' = [got EXCEPT ![c] = [by |-> entry.by, visible |-> Visible(entry)]]
    /\ err' = [err EXCEPT ![c] =
                 IF args[c].op = "GetJSON" /\ ~Visible(entry)
                 THEN "ErrKeyNotFound" ELSE "nil"]
    /\ txn' = [txn EXCEPT ![c] = "sending"]
    /\ UNCHANGED <<db, degraded, args, pc, ctx, life, res, before>>

DbError(c) ==
    /\ txn[c] \in InFlight
    /\ err' = [err EXCEPT ![c] = "dberror"]
    /\ txn' = [txn EXCEPT ![c] = "sending"]
    /\ life' = [life EXCEPT ![c] = 0]
    /\ UNCHANGED <<db, degraded, args, pc, ctx, got, res, before>>

(* done has room for the one answer, so the send needs no receiver. *)
Unbuffered(c) == pc[c] = "select"          \* Not the code
DoneHasRoom(c) == TRUE

Send(c) ==
    /\ txn[c] = "sending"
    /\ DoneHasRoom(c)
    /\ txn' = [txn EXCEPT ![c] = "exited"]
    /\ UNCHANGED <<db, degraded, args, pc, ctx, err, life, got, res, before>>

-----------------------------------------------------------------------------
ResetDegraded ==
    /\ OperatorResets
    /\ degraded
    /\ degraded' = FALSE
    /\ UNCHANGED <<db, args, pc, ctx, txn, err, life, got, res, before>>

Older(n) == IF n > 0 THEN n - 1 ELSE n

Tick ==
    /\ \/ \E k \in Keys : db[k].left > 0
       \/ \E c \in Calls : life[c] > 0
    /\ db' = [k \in Keys |-> [by |-> db[k].by, left |-> Older(db[k].left)]]
    /\ life' = [c \in Calls |-> Older(life[c])]
    /\ UNCHANGED <<degraded, args, pc, ctx, txn, err, got, res, before>>

(* The process dies and main opens the store again: what was committed is  *)
(* still there, the flag starts at zero, every goroutine is gone.          *)
Restart ==
    /\ \/ degraded
       \/ \E c \in Calls : pc[c] \in Active \/ txn[c] \in InFlight
    /\ degraded' = FALSE
    /\ pc' = [c \in Calls |-> IF pc[c] \in Active THEN "returned" ELSE pc[c]]
    /\ res' = [c \in Calls |-> IF pc[c] \in Active THEN "crashed" ELSE res[c]]
    /\ txn' = [c \in Calls |-> CASE txn[c] \in InFlight -> "killed"
                                 [] txn[c] = "sending"  -> "exited"
                                 [] OTHER               -> txn[c]]
    /\ life' = [c \in Calls |-> 0]
    /\ UNCHANGED <<db, args, ctx, err, got, before>>

-----------------------------------------------------------------------------
CallerStep(c) ==
    \/ LoadDegraded(c)
    \/ CheckCtx(c)
    \/ ReceiveDone(c)
    \/ CtxWins(c)
    \/ TimerWins(c)

DbStep(c) ==
    \/ RunUpdate(c)
    \/ Commit(c)
    \/ RunView(c)
    \/ DbError(c)
    \/ Send(c)
    \/ HealthView(c)

(* Everything but the arrival of calls. *)
InternalStep ==
    \/ \E c \in Calls : CallerStep(c) \/ EndCtx(c) \/ DbStep(c)
    \/ ResetDegraded
    \/ Tick
    \/ Restart

Next ==
    \/ \E c \in Calls, op \in Ops, k \in Keys, d \in Docs : Invoke(c, op, k, d)
    \/ InternalStep

Spec == Init /\ [][Next]_vars

(* What the Go runtime gives even when Badger hangs: runnable callers run, *)
(* timers and read deadlines fire, time passes.                            *)
LiveSpec ==
    /\ Spec
    /\ \A c \in Calls : /\ WF_vars(CallerStep(c))
                        /\ WF_vars(HasDeadline(c) /\ EndCtx(c))
    /\ WF_vars(Tick)

(* What a database that works adds: every transaction is answered. *)
DatabaseAnswers == \A c \in Calls : WF_vars(DbStep(c))

-----------------------------------------------------------------------------
(* Every variable keeps its type; in particular no entry is given a longer *)
(* life than PersistDuration, nor one without end.                         *)
TypeOK ==
    /\ db \in [Keys -> [by : Calls \cup {NoCall}, left : 0..PersistDuration]]
    /\ degraded \in BOOLEAN
    /\ args \in [Calls -> [op : Ops, key : Keys, doc : Docs] \cup {NoArgs}]
    /\ pc \in [Calls -> {"idle", "returned"} \cup Active]
    /\ ctx \in [Calls -> {"live", "done"}]
    /\ txn \in [Calls -> {"none", "sending", "exited", "killed"} \cup InFlight]
    /\ err \in [Calls -> {"none", "nil", "ErrKeyNotFound", "dberror"}]
    /\ life \in [Calls -> 0..PersistDuration]
    /\ got \in [Calls -> [by : Calls \cup {NoCall}, visible : BOOLEAN]]
    /\ res \in [Calls -> {"none"} \cup Definite \cup Indefinite \cup Reports]
    /\ before \in [Calls -> SUBSET Calls]

Acked(c) == pc[c] = "returned" /\ args[c].op \in Writes /\ res[c] = "nil"

(* Once a write is acknowledged its key holds it, or something that was    *)
(* not already over when the write was invoked: what an earlier call did   *)
(* whose outcome was known by then never comes back.  Calls abandoned by   *)
(* their callers (ErrStorageTimeout, cancelled) are the only exception.    *)
LastWriteStands ==
    \A c \in Calls :
        Acked(c) => db[args[c].key].by \in Calls \ Known(c)

ReadDone(c) ==
    /\ pc[c] = "returned"
    /\ args[c].op \in Reads
    /\ res[c] \in {"nil", "ErrKeyNotFound"}

(* A read that completes never returns a state older than a write that was *)
(* acknowledged before the read was invoked, through restarts, timeouts    *)
(* and expiry (got.by names the writer also of a deleted or expired entry).*)
ReadsAreFresh ==
    \A c, w \in Calls :
        (/\ ReadDone(c)
         /\ w \in before[c]
         /\ Acked(w)
         /\ args[w].key = args[c].key)
            => got[c].by \in Calls \ Known(w)

(* A write the caller was told is refused (breaker open, database error)   *)
(* is never what a key holds.                                              *)
NoRefusedWrite == \A k \in Keys, c \in Calls : db[k].by = c => res[c] \notin Refused

RunningWrites == {c \in Calls : args[c].op \in Writes /\ txn[c] \in InFlight}

(* While the breaker is open the writes that have passed it, and so the    *)
(* goroutines a hung database can hold, only become fewer: those that had  *)
(* loaded the flag before it opened are the last to start a transaction.   *)
PassedBreaker ==
    {c \in Calls : args[c].op \in Writes
                   /\ (pc[c] = "check" \/ txn[c] \in InFlight)}

BreakerStopsAccumulation ==
    [][degraded /\ degraded' => PassedBreaker' \subseteq PassedBreaker]_vars

(* The breaker's purpose as storage.go:68-69 states it: no write goroutine *)
(* is left behind by its caller unless the flag is set.                    *)
OrphansOpenBreaker ==
    \A c \in RunningWrites : pc[c] = "returned" => degraded

(* Store, Delete, GetJSON and Retrieve return even if Badger never answers.*)
EveryCallReturns ==
    \A c \in Calls :
        (pc[c] \in {"load", "check", "select"}) ~> (pc[c] \in {"returned", "view"})

(* With a database that answers, every background goroutine ends, also the *)
(* one whose caller stopped waiting for it.                                *)
GoroutinesExit ==
    DatabaseAnswers =>
        \A c \in Calls : (txn[c] = "started") ~> (txn[c] \in {"exited", "killed"})

(* Ephemerality: an entry that can be read is eventually gone or replaced. *)
EntriesExpire ==
    \A k \in Keys, c \in Calls :
        (db[k].by = c /\ Visible(db[k])) ~> ~(db[k].by = c /\ Visible(db[k]))

(* The time left to what a call writes: to the entry fn has prepared, then  *)
(* to the one in the database while it is the call's.                      *)
TimeLeft(c) ==
    IF txn[c] = "ran" THEN life[c]
    ELSE IF db[args[c].key].by = c THEN db[args[c].key].left ELSE 0

(* The expiry is a point in time that fn fixes (storage.go:274): however    *)
(* late the commit, whatever is read, answered or restarted after, no step *)
(* gives what a call writes more time, and what is replaced does not come  *)
(* back for the rest of its time.                                          *)
TimeOnlyRunsOut ==
    [][\A c \in Calls :
          txn[c] \notin {"none", "started"} => TimeLeft(c)' <= TimeLeft(c)]_vars

(* Nothing but a cancelled call ever comes back over an acknowledged write: *)
(* one that timed out has opened the breaker, which stays open until the   *)
(* restart that ends it; one that died with the process is gone.  An       *)
(* operator who closes the breaker (ResetDegraded) breaks this.            *)
OnlyCancelledComeBack ==
    ~OperatorResets =>
        \A c \in Calls :
            Acked(c) => db[args[c].key].by
                            \in Calls \ {w \in before[c] : res[w] # "cancelled"}
=============================================================================
