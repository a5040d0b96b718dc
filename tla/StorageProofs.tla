--------------------------- MODULE StorageProofs ---------------------------
(***************************************************************************)
(* Safety of Storage for any calls, keys, documents and times to live, and *)
(* that it implements EphemeralStore.                                      *)
(***************************************************************************)
EXTENDS StorageRefinement, TLAPS

(* Where a call is, what it has started and what it has been told agree.   *)
ControlInv ==
    \A c \in Calls :
        /\ pc[c] \in {"idle", "load", "check", "view"} => txn[c] = "none"
        /\ pc[c] # "idle" => args[c] \in [op : Ops, key : Keys, doc : Docs]
        /\ txn[c] = "ran" => args[c].op \in Writes
        /\ res[c] # "none" => pc[c] = "returned"
        /\ res[c] \in Definite => txn[c] \in {"none", "exited"}
        /\ res[c] \in {"nil", "ErrKeyNotFound", "dberror"} =>
              txn[c] = "exited" /\ err[c] = res[c]
        /\ res[c] = "ErrStorageDegraded" => txn[c] = "none"

(* A call comes after the calls in its history. *)
HistoryInv ==
    \A c \in Calls :
        /\ c \notin before[c]
        /\ \A w \in before[c] : pc[w] = "returned"

(* What the transaction of a call has come to.                             *)
Answered(c) == txn[c] \in {"sending", "exited"}

Committed(c) == args[c].op \in Writes /\ Answered(c) /\ err[c] = "nil"

ReadServed(c) ==
    args[c].op \in Reads /\ Answered(c) /\ err[c] \in {"nil", "ErrKeyNotFound"}

(* LastWriteStands already from the commit on, before the caller is told.  *)
WriteInv ==
    \A c \in Calls : Committed(c) => db[args[c].key].by \in Calls \ Known(c)

(* ReadsAreFresh already from the moment the transaction has read.         *)
ReadInv ==
    \A c, w \in Calls :
        (/\ ReadServed(c)
         /\ w \in before[c]
         /\ Acked(w)
         /\ args[w].key = args[c].key)
            => got[c].by \in Calls \ Known(w)

(* Whoever owns an entry has committed. *)
OwnerInv == \A k \in Keys, c \in Calls : db[k].by = c => Committed(c)

(* The inductive invariant.                                                *)
SafetyInv ==
    TypeOK /\ ControlInv /\ HistoryInv /\ WriteInv /\ ReadInv /\ OwnerInv

-----------------------------------------------------------------------------
(* No call has been made.                                                  *)
LEMMA InitSafety == Init => SafetyInv
<1> SUFFICES ASSUME Init PROVE SafetyInv
  OBVIOUS
<1>1. TypeOK
  <2>1. /\ db \in [Keys -> [by : Calls \cup {NoCall}, left : 0..PersistDuration]]
        /\ got \in [Calls -> [by : Calls \cup {NoCall}, visible : BOOLEAN]]
        /\ life \in [Calls -> 0..PersistDuration]
    BY StorageAssumption DEF Init, NoEntry, NothingRead
  <2> QED  BY <2>1 DEF Init, TypeOK
<1>2. ControlInv
  BY DEF Init, ControlInv, Definite, Refused
<1>3. HistoryInv
  BY DEF Init, HistoryInv
<1>4. \A c \in Calls : ~Answered(c)
  BY DEF Init, Answered
<1>5. WriteInv /\ ReadInv
  BY <1>4 DEF WriteInv, ReadInv, Committed, ReadServed
<1>6. OwnerInv
  BY StorageAssumption DEF Init, OwnerInv, NoEntry
<1> QED  BY <1>1, <1>2, <1>3, <1>5, <1>6 DEF SafetyInv

(* Every step keeps every variable in its type. *)
LEMMA StepType == TypeOK /\ ControlInv /\ [Next]_vars => TypeOK'
<1> SUFFICES ASSUME TypeOK, ControlInv, [Next]_vars PROVE TypeOK'
  OBVIOUS
<1> USE StorageAssumption DEF TypeOK, ControlInv, Return
<1>1. ASSUME NEW c \in Calls, NEW op \in Ops, NEW k \in Keys, NEW d \in Docs,
             Invoke(c, op, k, d)
      PROVE  TypeOK'
  BY <1>1 DEF Invoke, Active
<1>2. ASSUME NEW c \in Calls, CallerStep(c) PROVE TypeOK'
  <2>1. CASE LoadDegraded(c)
    <3>1. pc' \in [Calls -> {"idle", "returned"} \cup Active]
      BY <2>1 DEF LoadDegraded, BreakerOpen, Active
    <3>2. res' \in [Calls -> {"none"} \cup Definite \cup Indefinite \cup Reports]
      BY <2>1 DEF LoadDegraded, BreakerOpen, Definite, Refused, Reports
    <3> QED  BY <2>1, <3>1, <3>2 DEF LoadDegraded, BreakerOpen
  <2>2. CASE CheckCtx(c)
    <3>1. pc' \in [Calls -> {"idle", "returned"} \cup Active]
      BY <2>2 DEF CheckCtx, CancelledError, Active
    <3>2. txn' \in [Calls -> {"none", "sending", "exited", "killed"} \cup InFlight]
      BY <2>2 DEF CheckCtx, CancelledError, InFlight
    <3>3. res' \in [Calls -> {"none"} \cup Definite \cup Indefinite \cup Reports]
      BY <2>2 DEF CheckCtx, CancelledError, Indefinite
    <3> QED  BY <2>2, <3>1, <3>2, <3>3 DEF CheckCtx, CancelledError
  <2>3. CASE ReceiveDone(c)
    <3>1. err[c] \in {"none"} \cup Definite \cup Indefinite \cup Reports
      BY DEF Definite, Refused
    <3> QED  BY <2>3, <3>1 DEF ReceiveDone
  <2>4. CASE CtxWins(c)
    BY <2>4 DEF CtxWins, CancelledError, Indefinite
  <2>5. CASE TimerWins(c)
    BY <2>5 DEF TimerWins, TimeoutError, FlagOnTimeout, Indefinite
  <2> QED  BY <1>2, <2>1, <2>2, <2>3, <2>4, <2>5 DEF CallerStep
<1>3. ASSUME NEW c \in Calls, EndCtx(c) PROVE TypeOK'
  BY <1>3 DEF EndCtx
<1>4. ASSUME NEW c \in Calls, DbStep(c) PROVE TypeOK'
  <2>1. CASE RunUpdate(c)
    BY <2>1 DEF RunUpdate, Lifetime, InFlight
  <2>2. CASE Commit(c)
    BY <2>2 DEF Commit
  <2>3. CASE RunView(c)
    <3>1. args[c].key \in Keys
      BY <2>3 DEF RunView
    <3> QED  BY <2>3, <3>1 DEF RunView, Visible
  <2>4. CASE DbError(c)
    BY <2>4 DEF DbError
  <2>5. CASE Send(c)
    BY <2>5 DEF Send, DoneHasRoom
  <2>6. CASE HealthView(c)
    BY <2>6 DEF HealthView, Reports
  <2> QED  BY <1>4, <2>1, <2>2, <2>3, <2>4, <2>5, <2>6 DEF DbStep
<1>5. CASE ResetDegraded
  BY <1>5 DEF ResetDegraded
<1>6. CASE Tick
  <2>1. \A n \in 0..PersistDuration : Older(n) \in 0..PersistDuration
    BY DEF Older
  <2> QED  BY <1>6, <2>1 DEF Tick
<1>7. CASE Restart
  <2>1. "crashed" \in Indefinite
    BY DEF Indefinite
  <2>2. pc' \in [Calls -> {"idle", "returned"} \cup Active]
    BY <1>7 DEF Restart
  <2>3. res' \in [Calls -> {"none"} \cup Definite \cup Indefinite \cup Reports]
    BY <1>7, <2>1 DEF Restart
  <2>4. txn' \in [Calls -> {"none", "sending", "exited", "killed"} \cup InFlight]
    BY <1>7 DEF Restart
  <2>5. life' \in [Calls -> 0..PersistDuration]
    BY <1>7 DEF Restart
  <2> QED  BY <1>7, <2>2, <2>3, <2>4, <2>5 DEF Restart
<1>8. CASE UNCHANGED vars
  BY <1>8 DEF vars
<1> QED  BY <1>1, <1>2, <1>3, <1>4, <1>5, <1>6, <1>7, <1>8
          DEF Next, InternalStep

-----------------------------------------------------------------------------
(* What no step undoes: results, histories, answers of transactions and,   *)
(* but for a commit, who owns an entry.                                    *)
Frame ==
    /\ \A c \in Calls :
          /\ pc[c] = "returned" => pc'[c] = "returned" /\ res'[c] = res[c]
          /\ pc[c] # "idle" => /\ pc'[c] # "idle"
                              /\ args'[c] = args[c]
                              /\ before'[c] = before[c]
          /\ Answered(c) => /\ Answered(c)'
                            /\ err'[c] = err[c]
                            /\ got'[c] = got[c]
          /\ Answered(c)' /\ ~Answered(c) => Commit(c) \/ RunView(c) \/ DbError(c)
    /\ \A k \in Keys :
          \/ db'[k].by = db[k].by
          \/ \E c \in Calls : Commit(c) /\ args[c].key = k /\ db'[k].by = c

(* Every step respects the frame. *)
LEMMA StepFrame == TypeOK /\ ControlInv /\ [Next]_vars => Frame
<1> SUFFICES ASSUME TypeOK, ControlInv, [Next]_vars PROVE Frame
  OBVIOUS
<1> USE DEF Frame, Answered, Return
<1>0. TypeOK /\ ControlInv
  OBVIOUS
<1>1. ASSUME NEW c \in Calls, NEW op \in Ops, NEW k \in Keys, NEW d \in Docs,
             Invoke(c, op, k, d)
      PROVE  Frame
  BY <1>0, <1>1 DEF Invoke, TypeOK
<1>2. ASSUME NEW c \in Calls, CallerStep(c) PROVE Frame
  <2>1. CASE LoadDegraded(c)
    BY <1>0, <2>1 DEF LoadDegraded, BreakerOpen, TypeOK
  <2>2. CASE CheckCtx(c)
    BY <1>0, <2>2 DEF CheckCtx, CancelledError, TypeOK, ControlInv
  <2>3. CASE ReceiveDone(c)
    BY <1>0, <2>3 DEF ReceiveDone, TypeOK
  <2>4. CASE CtxWins(c)
    BY <1>0, <2>4 DEF CtxWins, CancelledError, TypeOK
  <2>5. CASE TimerWins(c)
    BY <1>0, <2>5 DEF TimerWins, TimeoutError, FlagOnTimeout, TypeOK
  <2> QED  BY <1>2, <2>1, <2>2, <2>3, <2>4, <2>5 DEF CallerStep
<1>3. ASSUME NEW c \in Calls, EndCtx(c) PROVE Frame
  BY <1>0, <1>3 DEF EndCtx
<1>4. ASSUME NEW c \in Calls, DbStep(c) PROVE Frame
  <2>1. CASE RunUpdate(c)
    BY <1>0, <2>1 DEF RunUpdate, TypeOK
  <2>2. CASE Commit(c)
    <3>1. \A k \in Keys : db'[k].by = IF k = args[c].key THEN c ELSE db[k].by
      BY <1>0, <2>2 DEF Commit, TypeOK
    <3>2. \A w \in Calls \ {c} : txn'[w] = txn[w] /\ err'[w] = err[w]
      BY <1>0, <2>2 DEF Commit, TypeOK
    <3> QED  BY <1>0, <2>2, <3>1, <3>2 DEF Commit, InFlight
  <2>3. CASE RunView(c)
    <3>1. \A w \in Calls \ {c} :
             txn'[w] = txn[w] /\ err'[w] = err[w] /\ got'[w] = got[w]
      BY <1>0, <2>3 DEF RunView, TypeOK
    <3> QED  BY <1>0, <2>3, <3>1 DEF RunView
  <2>4. CASE DbError(c)
    <3>1. \A w \in Calls \ {c} : txn'[w] = txn[w] /\ err'[w] = err[w]
      BY <1>0, <2>4 DEF DbError, TypeOK
    <3> QED  BY <1>0, <2>4, <3>1 DEF DbError, InFlight
  <2>5. CASE Send(c)
    BY <1>0, <2>5 DEF Send, DoneHasRoom, TypeOK
  <2>6. CASE HealthView(c)
    BY <1>0, <2>6 DEF HealthView, TypeOK
  <2> QED  BY <1>4, <2>1, <2>2, <2>3, <2>4, <2>5, <2>6 DEF DbStep
<1>5. CASE ResetDegraded
  BY <1>5 DEF ResetDegraded
<1>6. CASE Tick
  BY <1>0, <1>6 DEF Tick, TypeOK
<1>7. CASE Restart
  <2>1. \A c \in Calls : Answered(c)' => Answered(c)
    BY <1>0, <1>7 DEF Restart, TypeOK
  <2>2. \A c \in Calls : Answered(c) => Answered(c)'
    BY <1>0, <1>7 DEF Restart, TypeOK, InFlight
  <2> QED  BY <1>0, <1>7, <2>1, <2>2 DEF Restart, TypeOK, Active
<1>8. CASE UNCHANGED vars
  BY <1>8 DEF vars
<1> QED  BY <1>1, <1>2, <1>3, <1>4, <1>5, <1>6, <1>7, <1>8
          DEF Next, InternalStep

-----------------------------------------------------------------------------
(* Control is preserved: a definite result is only given once the          *)
(* transaction has exited, or when none was started.                       *)
LEMMA StepControl == TypeOK /\ ControlInv /\ [Next]_vars => ControlInv'
<1> SUFFICES ASSUME TypeOK, ControlInv, [Next]_vars PROVE ControlInv'
  OBVIOUS
<1>0. TypeOK /\ ControlInv
  OBVIOUS
<1> USE DEF ControlInv, Definite, Refused, Return
<1>1. ASSUME NEW c \in Calls, NEW op \in Ops, NEW k \in Keys, NEW d \in Docs,
             Invoke(c, op, k, d)
      PROVE  ControlInv'
  BY <1>0, <1>1 DEF Invoke, TypeOK
<1>2. ASSUME NEW c \in Calls, CallerStep(c) PROVE ControlInv'
  <2>1. CASE LoadDegraded(c)
    BY <1>0, <2>1 DEF LoadDegraded, BreakerOpen, TypeOK
  <2>2. CASE CheckCtx(c)
    BY <1>0, <2>2 DEF CheckCtx, CancelledError, TypeOK
  <2>3. CASE ReceiveDone(c)
    BY <1>0, <2>3 DEF ReceiveDone, TypeOK
  <2>4. CASE CtxWins(c)
    BY <1>0, <2>4 DEF CtxWins, CancelledError, TypeOK
  <2>5. CASE TimerWins(c)
    BY <1>0, <2>5 DEF TimerWins, TimeoutError, FlagOnTimeout, TypeOK
  <2> QED  BY <1>2, <2>1, <2>2, <2>3, <2>4, <2>5 DEF CallerStep
<1>3. ASSUME NEW c \in Calls, EndCtx(c) PROVE ControlInv'
  BY <1>0, <1>3 DEF EndCtx
<1>4. ASSUME NEW c \in Calls, DbStep(c) PROVE ControlInv'
  <2>1. CASE RunUpdate(c)
    BY <1>0, <2>1 DEF RunUpdate, TypeOK
  <2>2. CASE Commit(c)
    BY <1>0, <2>2 DEF Commit, TypeOK
  <2>3. CASE RunView(c)
    BY <1>0, <2>3 DEF RunView, TypeOK
  <2>4. CASE DbError(c)
    BY <1>0, <2>4 DEF DbError, InFlight, TypeOK
  <2>5. CASE Send(c)
    BY <1>0, <2>5 DEF Send, DoneHasRoom, TypeOK
  <2>6. CASE HealthView(c)
    BY <1>0, <2>6 DEF HealthView, TypeOK
  <2> QED  BY <1>4, <2>1, <2>2, <2>3, <2>4, <2>5, <2>6 DEF DbStep
<1>5. CASE ResetDegraded
  BY <1>0, <1>5 DEF ResetDegraded
<1>6. CASE Tick
  BY <1>0, <1>6 DEF Tick
<1>7. CASE Restart
  BY <1>0, <1>7 DEF Restart, Active, InFlight, TypeOK
<1>8. CASE UNCHANGED vars
  BY <1>0, <1>8 DEF vars
<1> QED  BY <1>1, <1>2, <1>3, <1>4, <1>5, <1>6, <1>7, <1>8
          DEF Next, InternalStep

(* Histories only grow when a call is invoked. *)
LEMMA StepHistory ==
    TypeOK /\ HistoryInv /\ Frame /\ [Next]_vars => HistoryInv'
<1> SUFFICES ASSUME TypeOK, HistoryInv, Frame, [Next]_vars PROVE HistoryInv'
  OBVIOUS
<1>1. ASSUME NEW c \in Calls, NEW op \in Ops, NEW k \in Keys, NEW d \in Docs,
             Invoke(c, op, k, d)
      PROVE  HistoryInv'
  BY <1>1 DEF Invoke, HistoryInv, Frame, TypeOK
<1>2. CASE UNCHANGED before
  BY <1>2 DEF HistoryInv, Frame, TypeOK
<1> QED  BY <1>1, <1>2
          DEF Next, InternalStep, CallerStep, DbStep, LoadDegraded, CheckCtx,
              ReceiveDone, CtxWins, TimerWins, HealthView, EndCtx, RunUpdate,
              Commit, RunView, DbError, Send, ResetDegraded, Tick, Restart, vars

(* What was known when a call was invoked stays what it was. *)
LEMMA KnownStable ==
    ASSUME TypeOK, HistoryInv, Frame, NEW c \in Calls, pc[c] # "idle"
    PROVE  Known(c)' = Known(c)
  BY DEF Known, HistoryInv, Frame, TypeOK

(* A committed call is not among the calls known to be over by a call that *)
(* still has to commit, and nothing older takes its place: the write that  *)
(* commits is in flight, hence known to nobody.                            *)
LEMMA StepWrite ==
    SafetyInv /\ Frame /\ ControlInv' /\ [Next]_vars => WriteInv'
<1> SUFFICES ASSUME SafetyInv, Frame, ControlInv', [Next]_vars,
                    NEW c \in Calls, Committed(c)'
             PROVE  (db[args[c].key].by \in Calls \ Known(c))'
  BY DEF WriteInv
<1> USE DEF SafetyInv
<1>1. pc[c] # "idle" /\ args[c].key \in Keys
  <2>1. CASE Answered(c)
    BY <2>1 DEF ControlInv, Answered
  <2>2. CASE ~Answered(c)
    <3>1. txn[c] # "none"
      BY <2>2 DEF Committed, Frame, Commit, RunView, DbError, InFlight
    <3> QED  BY <3>1 DEF ControlInv
  <2> QED  BY <2>1, <2>2
<1>2. args'[c] = args[c] /\ Known(c)' = Known(c)
  BY <1>1, KnownStable DEF Frame
<1>3. ASSUME NEW w \in Calls, txn[w] = "ran" PROVE w \notin Known(c)
  BY <1>3 DEF Known, ControlInv
<1>4. CASE Committed(c)
  <2>1. db[args[c].key].by \in Calls \ Known(c)
    BY <1>4 DEF WriteInv
  <2>2. CASE db'[args[c].key].by = db[args[c].key].by
    BY <1>2, <2>1, <2>2
  <2>3. CASE \E w \in Calls : Commit(w) /\ db'[args[c].key].by = w
    BY <1>2, <1>3, <2>3 DEF Commit
  <2> QED  BY <1>1, <2>2, <2>3 DEF Frame
<1>5. CASE ~Committed(c)
  <2>1. ~Answered(c)
    BY <1>2, <1>5 DEF Committed, Frame
  <2>2. Commit(c)
    BY <1>2, <2>1 DEF Committed, Frame, RunView, DbError, Reads, Writes, TypeOK
  <2>3. db'[args[c].key].by = c
    BY <1>1, <2>2 DEF Commit, TypeOK
  <2> QED  BY <1>2, <1>3, <2>2, <2>3 DEF Commit
<1> QED  BY <1>4, <1>5

(* A read finds the writes its caller knew of, or later ones. *)
LEMMA StepRead ==
    SafetyInv /\ Frame /\ ControlInv' /\ [Next]_vars => ReadInv'
<1> SUFFICES ASSUME SafetyInv, Frame, ControlInv', [Next]_vars,
                    NEW c \in Calls, NEW w \in Calls,
                    ReadServed(c)', w \in before'[c], Acked(w)',
                    args'[w].key = args'[c].key
             PROVE  (got[c].by \in Calls \ Known(w))'
  BY DEF ReadInv
<1> USE DEF SafetyInv
<1>1. pc[c] # "idle"
  <2>1. CASE Answered(c)
    BY <2>1 DEF ControlInv, Answered
  <2>2. CASE ~Answered(c)
    <3>1. txn[c] # "none"
      BY <2>2 DEF ReadServed, Frame, Commit, RunView, DbError, InFlight
    <3> QED  BY <3>1 DEF ControlInv
  <2> QED  BY <2>1, <2>2
<1>2. args'[c] = args[c] /\ before'[c] = before[c]
  BY <1>1 DEF Frame
<1>3. pc[w] = "returned"
  BY <1>2 DEF HistoryInv
<1>4. args'[w] = args[w] /\ Acked(w) /\ Known(w)' = Known(w)
  <2>1. args'[w] = args[w] /\ res'[w] = res[w]
    BY <1>3 DEF Frame
  <2>2. Acked(w)
    BY <1>3, <2>1 DEF Acked
  <2>3. Known(w)' = Known(w)
    BY <1>3, KnownStable
  <2> QED  BY <2>1, <2>2, <2>3
<1>5. CASE Answered(c)
  BY <1>2, <1>4, <1>5 DEF ReadInv, ReadServed, Frame
<1>6. CASE ~Answered(c)
  <2>1. RunView(c)
    <3>1. args[c].op \notin Writes
      BY <1>2 DEF ReadServed, Reads, Writes
    <3>2. ~Commit(c)
      BY <3>1 DEF Commit, ControlInv
    <3>3. ~DbError(c)
      BY DEF DbError, ReadServed, TypeOK
    <3> QED  BY <1>6, <3>2, <3>3 DEF ReadServed, Frame
  <2>2. got'[c].by = db[args[c].key].by
    BY <2>1 DEF RunView, TypeOK
  <2>3. Committed(w)
    BY <1>4 DEF Acked, ControlInv, Committed, Answered
  <2>4. db[args[w].key].by \in Calls \ Known(w)
    BY <2>3 DEF WriteInv
  <2> QED  BY <1>2, <1>4, <2>2, <2>4
<1> QED  BY <1>5, <1>6

(* Only a transaction that commits takes an entry over. *)
LEMMA StepOwner == SafetyInv /\ Frame /\ [Next]_vars => OwnerInv'
<1> SUFFICES ASSUME SafetyInv, Frame, [Next]_vars,
                    NEW k \in Keys, NEW c \in Calls, db'[k].by = c
             PROVE  Committed(c)'
  BY DEF OwnerInv
<1> USE DEF SafetyInv
<1>1. CASE db[k].by = c
  <2>1. Committed(c)
    BY <1>1 DEF OwnerInv
  <2>2. pc[c] # "idle"
    BY <2>1 DEF Committed, Answered, ControlInv
  <2> QED  BY <2>1, <2>2 DEF Committed, Frame
<1>2. CASE Commit(c)
  <2>1. args[c].op \in Writes
    BY <1>2 DEF Commit, ControlInv
  <2> QED  BY <1>2, <2>1 DEF Commit, Committed, Answered, TypeOK
<1> QED  BY <1>1, <1>2 DEF Frame

(* Together: every step keeps the invariant.                               *)
LEMMA StepSafety == SafetyInv /\ [Next]_vars => SafetyInv'
  BY StepType, StepFrame, StepControl, StepHistory, StepWrite, StepRead, StepOwner
     DEF SafetyInv

(* It holds in every run.                                                  *)
THEOREM SafetyInvariant == Spec => []SafetyInv
  BY InitSafety, StepSafety, PTL DEF Spec

(* Every variable keeps its type. *)
THEOREM TypeCorrect == Spec => []TypeOK
  BY SafetyInvariant, PTL DEF SafetyInv

(* An acknowledged write is what its key holds, or what came after it.     *)
THEOREM WritesStand == Spec => []LastWriteStands
<1>1. SafetyInv => LastWriteStands
  BY DEF SafetyInv, ControlInv, WriteInv, Committed, Answered, Acked,
         LastWriteStands
<1> QED  BY <1>1, SafetyInvariant, PTL

(* A completed read is as new as every write its caller knew of.           *)
THEOREM FreshReads == Spec => []ReadsAreFresh
<1>1. SafetyInv => ReadsAreFresh
  BY DEF SafetyInv, ControlInv, ReadInv, ReadServed, Answered, ReadDone,
         ReadsAreFresh
<1> QED  BY <1>1, SafetyInvariant, PTL

(* What was refused is never stored. *)
THEOREM RefusedNeverStored == Spec => []NoRefusedWrite
<1>1. SafetyInv => NoRefusedWrite
  BY DEF SafetyInv, ControlInv, OwnerInv, Committed, Answered, Refused,
         NoRefusedWrite
<1> QED  BY <1>1, SafetyInvariant, PTL

-----------------------------------------------------------------------------
(* The breaker.  Where nobody resets it, a caller that returns leaves a    *)
(* write in flight only with the breaker open, or because it was           *)
(* cancelled; so whatever came to an end before a write that passed the    *)
(* breaker was invoked is settled.                                         *)
Settled(w) == txn[w] \in InFlight => res[w] = "cancelled"

(* A write that found the breaker closed.                                  *)
Passed(c) ==
    args[c].op \in Writes /\ (pc[c] \in {"check", "select"} \/ txn[c] # "none")

(* The calls before c whose transaction must be over when c runs.          *)
Unsettled(c) == {w \in before[c] : res[w] # "cancelled"}

(* A caller that returned is settled or the breaker is open, and a write   *)
(* that passed it finds only settled calls before it.                      *)
BreakerInv ==
    /\ \A w \in Calls : pc[w] = "returned" => Settled(w) \/ degraded
    /\ \A c \in Calls : Passed(c) => \A w \in before[c] : Settled(w)
    /\ \A c \in Calls : Committed(c) => db[args[c].key].by \in Calls \ Unsettled(c)

(* What a step may do to the transactions of calls that are over, and how  *)
(* a write passes the breaker.                                             *)
BreakerFrame ==
    /\ \A w \in Calls :
          /\ pc[w] = "returned" /\ txn'[w] \in InFlight => txn[w] \in InFlight
          /\ pc'[w] = "returned" /\ pc[w] # "returned" => Settled(w)' \/ degraded'
          /\ degraded /\ ~degraded' => txn'[w] \notin InFlight
          /\ Passed(w)' => Passed(w) \/ (pc[w] = "load" /\ ~degraded)

(* Every step respects the frame, when nobody resets the breaker.          *)
LEMMA StepBreakerFrame ==
    ASSUME ~OperatorResets, TypeOK, ControlInv, [Next]_vars
    PROVE  BreakerFrame
<1> USE DEF BreakerFrame, Settled, Passed, Return
<1>0. TypeOK /\ ControlInv
  OBVIOUS
<1>1. ASSUME NEW c \in Calls, NEW op \in Ops, NEW k \in Keys, NEW d \in Docs,
             Invoke(c, op, k, d)
      PROVE  BreakerFrame
  <2>1. op \in Reads => op \notin Writes
    BY DEF Reads, Writes
  <2>2. pc[c] = "idle" /\ txn[c] = "none"
    BY <1>0, <1>1 DEF Invoke, ControlInv
  <2>3. args'[c].op = op /\ pc'[c] = IF op \in Reads THEN "check" ELSE "load"
    BY <1>0, <1>1 DEF Invoke, TypeOK
  <2>4. \A w \in Calls \ {c} : args'[w] = args[w] /\ pc'[w] = pc[w]
    BY <1>0, <1>1 DEF Invoke, TypeOK
  <2> QED  BY <1>1, <2>1, <2>2, <2>3, <2>4 DEF Invoke
<1>2. ASSUME NEW c \in Calls, CallerStep(c) PROVE BreakerFrame
  <2>1. CASE LoadDegraded(c)
    <3>1. txn[c] = "none"
      BY <1>0, <2>1 DEF LoadDegraded, ControlInv
    <3> QED  BY <1>0, <2>1, <3>1 DEF LoadDegraded, BreakerOpen, TypeOK, InFlight
  <2>2. CASE CheckCtx(c)
    BY <1>0, <2>2 DEF CheckCtx, CancelledError, TypeOK, ControlInv, InFlight
  <2>3. CASE ReceiveDone(c)
    BY <1>0, <2>3 DEF ReceiveDone, TypeOK, InFlight
  <2>4. CASE CtxWins(c)
    BY <1>0, <2>4 DEF CtxWins, CancelledError, TypeOK
  <2>5. CASE TimerWins(c)
    BY <1>0, <2>5 DEF TimerWins, TimeoutError, FlagOnTimeout, TypeOK
  <2> QED  BY <1>2, <2>1, <2>2, <2>3, <2>4, <2>5 DEF CallerStep
<1>3. ASSUME NEW c \in Calls, EndCtx(c) PROVE BreakerFrame
  BY <1>0, <1>3 DEF EndCtx
<1>4. ASSUME NEW c \in Calls, DbStep(c) PROVE BreakerFrame
  <2>1. CASE RunUpdate(c)
    BY <1>0, <2>1 DEF RunUpdate, TypeOK, InFlight
  <2>2. CASE Commit(c)
    BY <1>0, <2>2 DEF Commit, TypeOK, InFlight
  <2>3. CASE RunView(c)
    BY <1>0, <2>3 DEF RunView, TypeOK, InFlight
  <2>4. CASE DbError(c)
    BY <1>0, <2>4 DEF DbError, TypeOK, InFlight
  <2>5. CASE Send(c)
    BY <1>0, <2>5 DEF Send, DoneHasRoom, TypeOK, InFlight
  <2>6. CASE HealthView(c)
    BY <1>0, <2>6 DEF HealthView, TypeOK, ControlInv, InFlight
  <2> QED  BY <1>4, <2>1, <2>2, <2>3, <2>4, <2>5, <2>6 DEF DbStep
<1>5. CASE ResetDegraded
  BY <1>5 DEF ResetDegraded
<1>6. CASE Tick
  BY <1>0, <1>6 DEF Tick, TypeOK
<1>7. CASE Restart
  <2>1. \A w \in Calls : txn'[w] \notin InFlight
    BY <1>0, <1>7 DEF Restart, TypeOK, InFlight
  <2>2. \A w \in Calls : txn'[w] # "none" => txn[w] # "none"
    BY <1>0, <1>7 DEF Restart, TypeOK, InFlight
  <2>3. \A w \in Calls : pc'[w] \in {"check", "select"} => pc[w] \in {"check", "select"}
    BY <1>0, <1>7 DEF Restart, TypeOK, Active
  <2> QED  BY <1>7, <2>1, <2>2, <2>3 DEF Restart
<1>8. CASE UNCHANGED vars
  BY <1>8 DEF vars
<1> QED  BY <1>1, <1>2, <1>3, <1>4, <1>5, <1>6, <1>7, <1>8
          DEF Next, InternalStep

(* A settled call that is over stays settled. *)
LEMMA SettledStable ==
    ASSUME Frame, BreakerFrame, NEW w \in Calls, pc[w] = "returned", Settled(w)
    PROVE  Settled(w)'
  BY DEF Frame, BreakerFrame, Settled

(* Every step keeps BreakerInv, when nobody resets the breaker.            *)
LEMMA StepBreaker ==
    ASSUME ~OperatorResets, SafetyInv, BreakerInv, Frame, BreakerFrame,
           SafetyInv', [Next]_vars
    PROVE  BreakerInv'
<1> USE DEF SafetyInv
<1>1. ASSUME NEW w \in Calls, pc'[w] = "returned"
      PROVE  Settled(w)' \/ degraded'
  <2>1. CASE pc[w] # "returned"
    BY <1>1, <2>1 DEF BreakerFrame
  <2>2. CASE pc[w] = "returned" /\ Settled(w)
    BY <2>2, SettledStable
  <2>3. CASE pc[w] = "returned" /\ degraded
    <3>1. CASE ~degraded'
      BY <2>3, <3>1 DEF BreakerFrame, Settled
    <3>2. CASE degraded'
      BY <3>2
    <3> QED  BY <3>1, <3>2
  <2> QED  BY <2>1, <2>2, <2>3 DEF BreakerInv
<1>2. ASSUME NEW c \in Calls, pc[c] # "idle"
      PROVE  /\ args'[c] = args[c] /\ before'[c] = before[c]
             /\ \A w \in before[c] : w \in Calls /\ pc[w] = "returned"
                                                   /\ res'[w] = res[w]
  BY <1>2 DEF Frame, HistoryInv, TypeOK
<1>3. ASSUME NEW c \in Calls, Passed(c)', NEW w \in before'[c]
      PROVE  Settled(w)'
  <2>1. pc[c] # "idle"
    BY <1>3 DEF BreakerFrame, Passed, ControlInv
  <2>2. w \in Calls /\ w \in before[c] /\ pc[w] = "returned"
    BY <1>2, <1>3, <2>1
  <2>3. Settled(w)
    BY <1>3, <2>2 DEF BreakerFrame, BreakerInv
  <2> QED  BY <2>2, <2>3, SettledStable
<1>4. ASSUME NEW c \in Calls, Committed(c)'
      PROVE  (db[args[c].key].by \in Calls \ Unsettled(c))'
  <2>1. txn'[c] # "none" /\ Passed(c)'
    BY <1>4 DEF Committed, Answered, Passed
  <2>2. pc[c] # "idle" /\ args[c].key \in Keys
    BY <2>1 DEF BreakerFrame, Passed, ControlInv
  <2>3. /\ args'[c] = args[c]
        /\ Unsettled(c)' = Unsettled(c)
        /\ c \notin before[c]
    BY <1>2, <2>2 DEF Unsettled, HistoryInv
  <2>4. ASSUME NEW w \in Calls, Commit(w), db'[args[c].key].by = w
        PROVE  w \notin Unsettled(c)
    <3>1. CASE w = c
      BY <2>3, <3>1 DEF Unsettled
    <3>2. CASE w # c
      <4>1. Committed(c)
        BY <1>4, <2>3, <2>4, <3>2 DEF Committed, Answered, Commit, TypeOK
      <4>2. Passed(c) /\ txn[w] = "ran"
        BY <2>4, <4>1 DEF Passed, Committed, Answered, Commit
      <4> QED  BY <4>2 DEF BreakerInv, Unsettled, Settled, InFlight
    <3> QED  BY <3>1, <3>2
  <2>5. CASE \E w \in Calls : Commit(w) /\ db'[args[c].key].by = w
    BY <2>3, <2>4, <2>5
  <2>6. CASE /\ db'[args[c].key].by = db[args[c].key].by
             /\ ~\E w \in Calls : Commit(w) /\ db'[args[c].key].by = w
    <3>1. Committed(c)
      <4>1. args[c].op \in Writes /\ args[c].op \notin Reads
        BY <1>4, <2>3 DEF Committed, Reads, Writes
      <4>2. ~RunView(c)
        BY <4>1 DEF RunView
      <4>3. ~DbError(c)
        BY <1>4 DEF DbError, Committed, TypeOK
      <4>4. ~Commit(c)
        <5> SUFFICES ASSUME Commit(c) PROVE FALSE
          OBVIOUS
        <5>1. db'[args[c].key].by = c
          BY <2>2 DEF Commit, TypeOK
        <5> QED  BY <2>6, <5>1
      <4>5. Answered(c)
        BY <1>4, <4>2, <4>3, <4>4 DEF Committed, Frame
      <4> QED  BY <1>4, <2>3, <4>5 DEF Committed, Frame
    <3> QED  BY <2>3, <2>6, <3>1 DEF BreakerInv
  <2> QED  BY <2>2, <2>5, <2>6 DEF Frame
<1> QED  BY <1>1, <1>3, <1>4 DEF BreakerInv

(* Where nobody resets the breaker, only a cancelled call ever comes back  *)
(* over an acknowledged write (storage.go:223-229): a write that timed out *)
(* has closed the door behind it.                                          *)
THEOREM OnlyCancelledReturn == Spec => []OnlyCancelledComeBack
<1>1. CASE OperatorResets
  <2>1. OnlyCancelledComeBack
    BY <1>1 DEF OnlyCancelledComeBack
  <2> QED  BY <2>1, PTL
<1>2. CASE ~OperatorResets
  <2>1. Init => BreakerInv
    BY DEF Init, BreakerInv, Settled, Passed, Committed, Answered, InFlight
  <2>2. SafetyInv /\ BreakerInv /\ [Next]_vars => BreakerInv'
    BY <1>2, StepSafety, StepFrame, StepBreakerFrame, StepBreaker DEF SafetyInv
  <2>3. SafetyInv /\ BreakerInv => OnlyCancelledComeBack
    BY DEF SafetyInv, ControlInv, BreakerInv, Committed, Answered, Acked,
           Unsettled, OnlyCancelledComeBack
  <2> QED  BY <2>1, <2>2, <2>3, SafetyInvariant, PTL DEF Spec
<1> QED  BY <1>1, <1>2

(* While the breaker is open no write passes it (storage.go:207-209): the  *)
(* writes a hung database can hold are those that were let through before, *)
(* so their number is bounded by the calls under way at that time.         *)
THEOREM BreakerHolds == Spec => BreakerStopsAccumulation
<1>1. ASSUME SafetyInv, [Next]_vars, degraded, degraded'
      PROVE  PassedBreaker' \subseteq PassedBreaker
  <2>0. TypeOK /\ ControlInv
    BY <1>1 DEF SafetyInv
  <2> SUFFICES ASSUME NEW w \in Calls, w \in PassedBreaker'
               PROVE  w \in PassedBreaker
    BY DEF PassedBreaker
  <2> USE DEF PassedBreaker, Return
  <2>1. ASSUME NEW c \in Calls, NEW op \in Ops, NEW k \in Keys, NEW d \in Docs,
               Invoke(c, op, k, d)
        PROVE  w \in PassedBreaker
    <3>1. CASE w = c
      <4>1. txn[c] = "none"
        BY <2>0, <2>1 DEF Invoke, ControlInv
      <4>2. op \in Writes /\ pc'[c] = "check"
        BY <2>0, <2>1, <3>1, <4>1 DEF Invoke, TypeOK, InFlight
      <4> QED  BY <2>0, <2>1, <4>2 DEF Invoke, TypeOK, Reads, Writes
    <3>2. CASE w # c
      BY <2>0, <2>1, <3>2 DEF Invoke, TypeOK
    <3> QED  BY <3>1, <3>2
  <2>2. ASSUME NEW c \in Calls, CallerStep(c) PROVE w \in PassedBreaker
    <3>1. CASE LoadDegraded(c)
      BY <1>1, <2>0, <3>1 DEF LoadDegraded, BreakerOpen, TypeOK
    <3>2. CASE CheckCtx(c)
      BY <2>0, <3>2 DEF CheckCtx, TypeOK
    <3>3. CASE ReceiveDone(c)
      BY <2>0, <3>3 DEF ReceiveDone, TypeOK
    <3>4. CASE CtxWins(c)
      BY <2>0, <3>4 DEF CtxWins, TypeOK
    <3>5. CASE TimerWins(c)
      BY <2>0, <3>5 DEF TimerWins, TypeOK
    <3> QED  BY <2>2, <3>1, <3>2, <3>3, <3>4, <3>5 DEF CallerStep
  <2>3. ASSUME NEW c \in Calls, DbStep(c) PROVE w \in PassedBreaker
    <3>1. CASE HealthView(c)
      BY <2>0, <3>1 DEF HealthView, TypeOK
    <3>2. CASE RunUpdate(c) \/ Commit(c) \/ RunView(c) \/ DbError(c) \/ Send(c)
      <4>1. UNCHANGED <<pc, args>>
        BY <3>2 DEF RunUpdate, Commit, RunView, DbError, Send
      <4>2. txn'[w] \in InFlight => txn[w] \in InFlight
        BY <2>0, <3>2 DEF RunUpdate, Commit, RunView, DbError, Send, TypeOK, InFlight
      <4> QED  BY <4>1, <4>2
    <3> QED  BY <2>3, <3>1, <3>2 DEF DbStep
  <2>4. CASE /\ UNCHANGED <<args, pc, txn>>
    BY <2>4
  <2>5. ~Restart /\ ~ResetDegraded
    BY <1>1 DEF Restart, ResetDegraded
  <2> QED  BY <1>1, <2>1, <2>2, <2>3, <2>4, <2>5
            DEF Next, InternalStep, EndCtx, Tick, vars
<1>2. SafetyInv /\ [Next]_vars
        => [degraded /\ degraded' => PassedBreaker' \subseteq PassedBreaker]_vars
  BY <1>1
<1> QED  BY <1>2, SafetyInvariant, PTL DEF Spec, BreakerStopsAccumulation

(* No step gives what a call writes more time to live than fn gave it      *)
(* (storage.go:274).                                                       *)
THEOREM TimeRunsOut == Spec => TimeOnlyRunsOut
<1>1. ASSUME SafetyInv, [Next]_vars, NEW w \in Calls, txn[w] \notin {"none", "started"}
      PROVE  TimeLeft(w)' <= TimeLeft(w)
  <2>0. TypeOK /\ ControlInv /\ OwnerInv /\ Frame
    BY <1>1, StepFrame DEF SafetyInv
  <2>1. pc[w] # "idle" /\ args[w].key \in Keys /\ args'[w] = args[w]
    BY <1>1, <2>0 DEF ControlInv, Frame
  <2>2. PICK k \in Keys : k = args[w].key /\ k = args'[w].key
    BY <2>1
  <2>3. /\ life[w] \in Nat /\ db[k].left \in Nat
        /\ TimeLeft(w) = IF txn[w] = "ran" THEN life[w]
                         ELSE IF db[k].by = w THEN db[k].left ELSE 0
        /\ TimeLeft(w)' = IF txn'[w] = "ran" THEN life'[w]
                          ELSE IF db'[k].by = w THEN db'[k].left ELSE 0
    BY <2>0, <2>2, StorageAssumption DEF TypeOK, TimeLeft
  <2>4. TimeLeft(w) \in Nat
    BY <2>3
  <2>5. txn[w] = "ran" => db[k].by # w
    BY <2>0 DEF OwnerInv, Committed, Answered
  <2>6. CASE UNCHANGED <<db, life>> /\ (txn'[w] = txn[w] \/ txn'[w] # "ran")
    BY <2>3, <2>4, <2>5, <2>6
  <2>7. ASSUME NEW c \in Calls, NEW op \in Ops, NEW key \in Keys, NEW d \in Docs,
               Invoke(c, op, key, d)
        PROVE  TimeLeft(w)' <= TimeLeft(w)
    BY <2>6, <2>7 DEF Invoke
  <2>8. ASSUME NEW c \in Calls, CallerStep(c) PROVE TimeLeft(w)' <= TimeLeft(w)
    <3>1. UNCHANGED <<db, life>> /\ (txn'[w] = txn[w] \/ txn'[w] # "ran")
      BY <1>1, <2>0, <2>8 DEF CallerStep, LoadDegraded, CheckCtx, ReceiveDone,
                              CtxWins, TimerWins, TypeOK
    <3> QED  BY <2>6, <3>1
  <2>9. ASSUME NEW c \in Calls, DbStep(c) PROVE TimeLeft(w)' <= TimeLeft(w)
    <3>1. CASE RunUpdate(c)
      <4>1. c # w
        BY <1>1, <3>1 DEF RunUpdate
      <4>2. db' = db /\ life'[w] = life[w] /\ txn'[w] = txn[w]
        BY <2>0, <3>1, <4>1 DEF RunUpdate, TypeOK
      <4> QED  BY <2>3, <2>4, <4>2
    <3>2. CASE Commit(c)
      <4>1. CASE c = w
        <5>1. txn[w] = "ran" /\ txn'[w] = "sending" /\ db'[k] = [by |-> w, left |-> life[w]]
          BY <2>0, <2>2, <3>2, <4>1 DEF Commit, TypeOK
        <5> QED  BY <2>3, <5>1
      <4>2. CASE c # w
        <5>1. /\ txn'[w] = txn[w] /\ life'[w] = life[w]
              /\ db'[k] = db[k] \/ db'[k] = [by |-> c, left |-> life[c]]
          BY <2>0, <2>2, <3>2, <4>2 DEF Commit, TypeOK
        <5> QED  BY <2>3, <2>4, <4>2, <5>1
      <4> QED  BY <4>1, <4>2
    <3>3. CASE DbError(c)
      <4>1. db' = db /\ (c = w => txn'[w] = "sending")
            /\ (c # w => txn'[w] = txn[w] /\ life'[w] = life[w])
        BY <2>0, <3>3 DEF DbError, TypeOK
      <4> QED  BY <2>3, <2>4, <2>5, <4>1
    <3>4. CASE RunView(c) \/ Send(c) \/ HealthView(c)
      <4>1. UNCHANGED <<db, life>> /\ (txn'[w] = txn[w] \/ txn'[w] # "ran")
        BY <2>0, <3>4 DEF RunView, Send, HealthView, TypeOK
      <4> QED  BY <2>6, <4>1
    <3> QED  BY <2>9, <3>1, <3>2, <3>3, <3>4 DEF DbStep
  <2>10. CASE Tick
    <3>1. /\ txn' = txn /\ life'[w] = Older(life[w])
          /\ db'[k].by = db[k].by /\ db'[k].left = Older(db[k].left)
      BY <2>2, <2>10 DEF Tick
    <3>2. Older(life[w]) <= life[w] /\ Older(db[k].left) <= db[k].left
      BY <2>3 DEF Older
    <3> QED  BY <2>3, <3>1, <3>2
  <2>11. CASE Restart
    <3>1. db' = db /\ txn'[w] # "ran"
      BY <2>0, <2>11 DEF Restart, InFlight, TypeOK
    <3> QED  BY <2>3, <2>4, <2>5, <3>1
  <2>12. CASE ResetDegraded \/ (\E c \in Calls : EndCtx(c)) \/ UNCHANGED vars
    BY <2>6, <2>12 DEF ResetDegraded, EndCtx, vars
  <2> QED  BY <1>1, <2>7, <2>8, <2>9, <2>10, <2>11, <2>12 DEF Next, InternalStep
<1>2. SafetyInv /\ [Next]_vars
        => [\A c \in Calls :
               txn[c] \notin {"none", "started"} => TimeLeft(c)' <= TimeLeft(c)]_vars
  BY <1>1
<1> QED  BY <1>2, SafetyInvariant, PTL DEF Spec, TimeOnlyRunsOut

-----------------------------------------------------------------------------
(* Storage implements EphemeralStore: a step of a call changes the abstract *)
(* state of that call alone, so each action is compared with one abstract  *)
(* action of the same call, or with none.                                  *)

(* A call has no arguments until it is invoked, and only Store gives an    *)
(* entry time to live.                                                     *)
ArgsInv ==
    \A c \in Calls :
        /\ pc[c] = "idle" => args[c] = NoArgs
        /\ life[c] # 0 => args[c].op = "Store"

(* Every step keeps ArgsInv.                                               *)
LEMMA StepArgs == TypeOK /\ ControlInv /\ ArgsInv /\ [Next]_vars => ArgsInv'
<1> SUFFICES ASSUME TypeOK, ControlInv, ArgsInv, [Next]_vars PROVE ArgsInv'
  OBVIOUS
<1>0. TypeOK /\ ControlInv /\ ArgsInv
  OBVIOUS
<1> USE DEF ArgsInv, Return
<1>1. ASSUME NEW c \in Calls, NEW op \in Ops, NEW k \in Keys, NEW d \in Docs,
             Invoke(c, op, k, d)
      PROVE  ArgsInv'
  <2>1. life[c] = 0
    BY <1>0, <1>1 DEF Invoke, NoArgs
  <2>2. pc'[c] # "idle"
    BY <1>0, <1>1 DEF Invoke, TypeOK
  <2>3. \A w \in Calls \ {c} : args'[w] = args[w] /\ pc'[w] = pc[w]
    BY <1>0, <1>1 DEF Invoke, TypeOK
  <2> QED  BY <1>0, <1>1, <2>1, <2>2, <2>3 DEF Invoke
<1>2. ASSUME NEW c \in Calls, CallerStep(c) PROVE ArgsInv'
  BY <1>0, <1>2 DEF CallerStep, LoadDegraded, CheckCtx, ReceiveDone, CtxWins,
                    TimerWins, TypeOK
<1>3. ASSUME NEW c \in Calls, EndCtx(c) PROVE ArgsInv'
  BY <1>0, <1>3 DEF EndCtx
<1>4. ASSUME NEW c \in Calls, DbStep(c) PROVE ArgsInv'
  <2>1. CASE RunUpdate(c)
    BY <1>0, <2>1 DEF RunUpdate, Lifetime, Writes, TypeOK
  <2>2. CASE Commit(c) \/ DbError(c)
    BY <1>0, <2>2 DEF Commit, DbError, TypeOK
  <2>3. CASE RunView(c) \/ Send(c)
    BY <1>0, <2>3 DEF RunView, Send
  <2>4. CASE HealthView(c)
    BY <1>0, <2>4 DEF HealthView, TypeOK
  <2> QED  BY <1>4, <2>1, <2>2, <2>3, <2>4 DEF DbStep
<1>5. CASE ResetDegraded
  BY <1>0, <1>5 DEF ResetDegraded
<1>6. CASE Tick
  BY <1>0, <1>6 DEF Tick, Older, TypeOK
<1>7. CASE Restart
  BY <1>0, <1>7 DEF Restart
<1>8. CASE UNCHANGED vars
  BY <1>0, <1>8 DEF vars
<1> QED  BY <1>1, <1>2, <1>3, <1>4, <1>5, <1>6, <1>7, <1>8
          DEF Next, InternalStep

-----------------------------------------------------------------------------
(* The abstract variables, by name.                                        *)
StoreArgs == [c \in Calls |-> IF StoreCall(c) THEN args[c] ELSE NoStoreCall]
Effects == [c \in Calls |-> EffectOf(c)]
Answers == [c \in Calls |-> AnswerOf(c)]

(* A step of the abstract store or a stutter.                              *)
AbstractStep == [Abstract!Next]_Abstract!vars

(* Where the abstract state can be read off at once. *)
LEMMA MappedValues ==
    ASSUME NEW c \in Calls
    PROVE  /\ Effects[c] = EffectOf(c)
           /\ Answers[c] = AnswerOf(c)
           /\ StoreCall(c) => StoreArgs[c] = args[c]
           /\ EffectOf(c) = "none" <=> ~StoreCall(c)
           /\ ~StoreCall(c) => AnswerOf(c) = "none"
           /\ AnswerOf(c) = "none" <=> ~StoreCall(c) \/ pc[c] # "returned"
<1>1. /\ Effects[c] = EffectOf(c)
      /\ Answers[c] = AnswerOf(c)
      /\ StoreCall(c) => StoreArgs[c] = args[c]
  BY DEF Effects, Answers, StoreArgs
<1>2. EffectOf(c) = "none" <=> ~StoreCall(c)
  BY DEF EffectOf
<1>3. AnswerOf(c) = "none" <=> ~StoreCall(c) \/ pc[c] # "returned"
  BY DEF AnswerOf, Returned, Refused
<1> QED  BY <1>1, <1>2, <1>3

(* Nothing the abstract state is read from has changed but of call c.      *)
LocalTo(c) ==
    /\ args' = args
    /\ \A w \in Calls \ {c} : /\ pc'[w] = pc[w] /\ txn'[w] = txn[w]
                              /\ err'[w] = err[w] /\ res'[w] = res[w]

(* Then the abstract variables differ at c at most.                        *)
LEMMA LocalStep ==
    ASSUME NEW c \in Calls, LocalTo(c)
    PROVE  /\ StoreArgs' = StoreArgs
           /\ StoreCall(c)' = StoreCall(c)
           /\ Effects' = [Effects EXCEPT ![c] = EffectOf(c)']
           /\ Answers' = [Answers EXCEPT ![c] = AnswerOf(c)']
<1>1. \A w \in Calls : StoreCall(w)' = StoreCall(w)
  BY DEF LocalTo, StoreCall
<1>2. \A w \in Calls \ {c} : EffectOf(w)' = EffectOf(w) /\ AnswerOf(w)' = AnswerOf(w)
  BY <1>1 DEF LocalTo, EffectOf, AnswerOf, Returned
<1> QED  BY <1>1, <1>2 DEF LocalTo, StoreArgs, Effects, Answers

(* The abstract variables of a step that leaves them as they are.          *)
LEMMA Stutter ==
    ASSUME db' = db, got' = got, StoreArgs' = StoreArgs, Effects' = Effects,
           Answers' = Answers
    PROVE  AbstractStep
  BY DEF AbstractStep, Abstract!vars, StoreArgs, Effects, Answers

(* A local step after which the call's abstract state is the same.         *)
LEMMA LocalStutter ==
    ASSUME NEW c \in Calls, LocalTo(c), db' = db, got' = got,
           StoreCall(c) => /\ EffectOf(c)' = EffectOf(c)
                           /\ AnswerOf(c)' = AnswerOf(c)
    PROVE  AbstractStep
<1>1. EffectOf(c)' = EffectOf(c) /\ AnswerOf(c)' = AnswerOf(c)
  BY LocalStep DEF EffectOf, AnswerOf, Returned
<1>2. Effects' = Effects /\ Answers' = Answers /\ StoreArgs' = StoreArgs
  BY <1>1, LocalStep DEF Effects, Answers
<1> QED  BY <1>2, Stutter

(* A caller gets its answer: from a call still pending it is turned away.  *)
LEMMA LocalAnswer ==
    ASSUME NEW c \in Calls, LocalTo(c), db' = db, got' = got,
           pc[c] # "returned", pc'[c] = "returned",
           StoreCall(c) =>
               \/ /\ EffectOf(c)' = EffectOf(c)
                  /\ AnswerOf(c)' = "ok" => EffectOf(c) = "applied"
                  /\ AnswerOf(c)' = "refused" => EffectOf(c) = "dropped"
               \/ /\ EffectOf(c) = "pending" /\ EffectOf(c)' = "dropped"
                  /\ AnswerOf(c)' # "ok"
    PROVE  AbstractStep
<1>1. CASE ~StoreCall(c)
  BY <1>1, LocalStutter
<1>2. CASE StoreCall(c)
  <2>1. AnswerOf(c) = "none" /\ EffectOf(c) # "none"
    BY <1>2, MappedValues
  <2>2. AnswerOf(c)' \in {"ok", "refused", "unknown"}
    BY <1>2, LocalStep DEF AnswerOf, Returned
  <2>3. CASE EffectOf(c)' = EffectOf(c) /\ AnswerOf(c)' \in {"ok", "refused", "unknown"}
             /\ (AnswerOf(c)' = "ok" => EffectOf(c) = "applied")
             /\ (AnswerOf(c)' = "refused" => EffectOf(c) = "dropped")
    <3>1. Abstract!Answer(c, AnswerOf(c)')
      <4>1. Effects' = Effects
        BY <2>3, LocalStep DEF Effects
      <4> QED  BY <2>1, <2>3, <4>1, LocalStep, MappedValues
                DEF Abstract!Answer, Effects, Answers, StoreArgs
    <3> QED  BY <2>2, <3>1 DEF AbstractStep, Abstract!Next, Abstract!CallStep
  <2>4. CASE EffectOf(c) = "pending" /\ EffectOf(c)' = "dropped" /\ AnswerOf(c)' # "ok"
    <3>1. Abstract!TurnAway(c, AnswerOf(c)')
      BY <2>1, <2>2, <2>4, LocalStep, MappedValues
         DEF Abstract!TurnAway, Effects, Answers, StoreArgs
    <3> QED  BY <2>2, <3>1 DEF AbstractStep, Abstract!Next, Abstract!CallStep
  <2> QED  BY <1>2, <2>2, <2>3, <2>4
<1> QED  BY <1>1, <1>2
-----------------------------------------------------------------------------
(* Each action of Storage is an action of the abstract store or invisible. *)
LEMMA StepMaps ==
    TypeOK /\ ControlInv /\ ArgsInv /\ [Next]_vars => AbstractStep
<1> SUFFICES ASSUME TypeOK, ControlInv, ArgsInv, [Next]_vars PROVE AbstractStep
  OBVIOUS
<1>0. TypeOK /\ ControlInv /\ ArgsInv
  OBVIOUS
<1> USE DEF Return
<1>1. ASSUME NEW c \in Calls, NEW op \in Ops, NEW k \in Keys, NEW d \in Docs,
             Invoke(c, op, k, d)
      PROVE  AbstractStep
  <2>1. /\ pc[c] = "idle" /\ txn[c] = "none" /\ ~StoreCall(c)
        /\ args' = [args EXCEPT ![c] = [op |-> op, key |-> k, doc |-> d]]
        /\ args'[c] = [op |-> op, key |-> k, doc |-> d]
        /\ pc'[c] # "returned" /\ txn'[c] = "none"
    BY <1>0, <1>1 DEF Invoke, ControlInv, ArgsInv, TypeOK, StoreCall, NoArgs,
                      Writes, Reads
  <2>2. /\ StoreCall(c)' = (op \in Writes \cup Reads)
        /\ \A w \in Calls \ {c} : /\ StoreCall(w)' = StoreCall(w)
                                  /\ args'[w] = args[w] /\ pc'[w] = pc[w]
    BY <1>0, <1>1, <2>1 DEF Invoke, TypeOK, StoreCall
  <2>3. \A w \in Calls \ {c} : EffectOf(w)' = EffectOf(w) /\ AnswerOf(w)' = AnswerOf(w)
    BY <1>1, <2>2 DEF Invoke, EffectOf, AnswerOf, Returned
  <2>4. /\ EffectOf(c) = "none" /\ AnswerOf(c) = "none"
        /\ AnswerOf(c)' = "none"
        /\ EffectOf(c)' = IF op \in Writes \cup Reads THEN "pending" ELSE "none"
    <3>1. EffectOf(c) = "none" /\ AnswerOf(c) = "none"
      BY <2>1 DEF EffectOf, AnswerOf, Returned
    <3>2. AnswerOf(c)' = "none"
      BY <2>1 DEF AnswerOf, Returned
    <3>3. EffectOf(c)' = IF op \in Writes \cup Reads THEN "pending" ELSE "none"
      BY <2>1, <2>2 DEF EffectOf, InFlight
    <3> QED  BY <3>1, <3>2, <3>3
  <2>5. db' = db /\ got' = got /\ Answers' = Answers
    BY <1>1, <2>3, <2>4 DEF Invoke, Answers
  <2>6. Effects' = [Effects EXCEPT ![c] = EffectOf(c)']
    BY <2>3 DEF Effects
  <2>7. CASE op \in Writes \cup Reads
    <3>1. StoreArgs' = [StoreArgs EXCEPT ![c] = [op |-> op, key |-> k, doc |-> d]]
      BY <2>1, <2>2, <2>7 DEF StoreArgs
    <3>2. Abstract!Begin(c, op, k, d)
      BY <2>4, <2>5, <2>6, <2>7, <3>1, MappedValues
         DEF Abstract!Begin, StoreArgs, Effects, Answers
    <3> QED  BY <2>7, <3>2 DEF AbstractStep, Abstract!Next
  <2>8. CASE op \notin Writes \cup Reads
    <3>1. StoreArgs' = StoreArgs
      BY <2>1, <2>2, <2>8 DEF StoreArgs
    <3>2. Effects' = Effects
      BY <2>3, <2>4, <2>8 DEF Effects
    <3> QED  BY <2>5, <3>1, <3>2, Stutter
  <2> QED  BY <2>7, <2>8
<1>2. ASSUME NEW c \in Calls, CallerStep(c) PROVE AbstractStep
  <2>1. CASE LoadDegraded(c)
    <3>1. /\ LocalTo(c) /\ db' = db /\ got' = got
          /\ pc[c] = "load" /\ txn[c] = "none" /\ txn'[c] = "none"
      BY <1>0, <2>1 DEF LoadDegraded, LocalTo, TypeOK, ControlInv
    <3>2. EffectOf(c) = IF StoreCall(c) THEN "pending" ELSE "none"
      BY <3>1 DEF EffectOf, InFlight
    <3>3. CASE pc'[c] # "returned"
      <4>1. StoreCall(c) => EffectOf(c)' = EffectOf(c) /\ AnswerOf(c)' = AnswerOf(c)
        BY <3>1, <3>2, <3>3, LocalStep DEF EffectOf, AnswerOf, Returned, InFlight
      <4> QED  BY <3>1, <4>1, LocalStutter
    <3>4. CASE pc'[c] = "returned"
      <4>1. res'[c] \in {"ErrStorageDegraded", "degraded"}
        BY <1>0, <2>1, <3>4 DEF LoadDegraded, TypeOK
      <4>2. StoreCall(c) => EffectOf(c)' = "dropped" /\ AnswerOf(c)' # "ok"
        BY <3>1, <3>4, <4>1, LocalStep DEF EffectOf, AnswerOf, Returned, InFlight, Refused
      <4> QED  BY <3>1, <3>2, <3>4, <4>2, LocalAnswer
    <3> QED  BY <3>3, <3>4
  <2>2. CASE CheckCtx(c)
    <3>1. /\ LocalTo(c) /\ db' = db /\ got' = got
          /\ pc[c] = "check" /\ txn[c] = "none"
      BY <1>0, <2>2 DEF CheckCtx, LocalTo, TypeOK, ControlInv
    <3>2. EffectOf(c) = IF StoreCall(c) THEN "pending" ELSE "none"
      BY <3>1 DEF EffectOf, InFlight
    <3>3. CASE pc'[c] # "returned"
      <4>1. txn'[c] = "started"
        BY <1>0, <2>2, <3>3 DEF CheckCtx, TypeOK
      <4>2. StoreCall(c) => EffectOf(c)' = EffectOf(c) /\ AnswerOf(c)' = AnswerOf(c)
        BY <3>1, <3>2, <3>3, <4>1, LocalStep DEF EffectOf, AnswerOf, Returned, InFlight
      <4> QED  BY <3>1, <4>2, LocalStutter
    <3>4. CASE pc'[c] = "returned"
      <4>1. res'[c] = "cancelled" /\ txn'[c] = "none"
        BY <1>0, <2>2, <3>1, <3>4 DEF CheckCtx, CancelledError, TypeOK
      <4>2. StoreCall(c) => EffectOf(c)' = "dropped" /\ AnswerOf(c)' # "ok"
        BY <3>1, <3>4, <4>1, LocalStep DEF EffectOf, AnswerOf, Returned, InFlight, Refused
      <4> QED  BY <3>1, <3>2, <3>4, <4>2, LocalAnswer
    <3> QED  BY <3>3, <3>4
  <2>3. CASE ReceiveDone(c)
    <3>1. /\ LocalTo(c) /\ db' = db /\ got' = got
          /\ pc[c] # "returned" /\ pc'[c] = "returned"
          /\ txn[c] = "exited" /\ txn'[c] = "exited"
          /\ err'[c] = err[c] /\ res'[c] = err[c]
      BY <1>0, <2>3 DEF ReceiveDone, LocalTo, TypeOK
    <3>2. StoreCall(c) =>
             /\ EffectOf(c) = IF err[c] # "dberror" THEN "applied" ELSE "dropped"
             /\ EffectOf(c)' = EffectOf(c)
      BY <3>1, LocalStep DEF EffectOf, InFlight
    <3>3. StoreCall(c) => /\ AnswerOf(c)' = "ok" => err[c] # "dberror"
                          /\ AnswerOf(c)' = "refused" => err[c] \in Refused
      BY <3>1, LocalStep DEF AnswerOf, Returned, Refused
    <3>4. err[c] \in Refused => err[c] = "dberror"
      BY <1>0 DEF TypeOK, Refused
    <3> QED  BY <3>1, <3>2, <3>3, <3>4, LocalAnswer
  <2>4. CASE CtxWins(c) \/ TimerWins(c)
    <3>1. /\ LocalTo(c) /\ db' = db /\ got' = got
          /\ pc[c] = "select" /\ pc'[c] = "returned"
          /\ txn'[c] = txn[c] /\ err'[c] = err[c]
          /\ res'[c] \in {"cancelled", "ErrStorageTimeout"}
      BY <1>0, <2>4 DEF CtxWins, TimerWins, CancelledError, TimeoutError,
                        LocalTo, TypeOK
    <3>2. StoreCall(c) => AnswerOf(c)' = "unknown"
      BY <3>1, LocalStep DEF AnswerOf, Returned, Refused
    <3>3. CASE txn[c] = "none"
      <4>1. StoreCall(c) => EffectOf(c) = "pending" /\ EffectOf(c)' = "dropped"
        BY <3>1, <3>3, LocalStep DEF EffectOf, InFlight
      <4> QED  BY <3>1, <3>2, <4>1, LocalAnswer
    <3>4. CASE txn[c] # "none"
      <4>1. StoreCall(c) => EffectOf(c)' = EffectOf(c)
        BY <3>1, <3>4, LocalStep DEF EffectOf, InFlight
      <4> QED  BY <3>1, <3>2, <4>1, LocalAnswer
    <3> QED  BY <3>3, <3>4
  <2> QED  BY <1>2, <2>1, <2>2, <2>3, <2>4 DEF CallerStep
<1>3. ASSUME NEW c \in Calls, EndCtx(c) PROVE AbstractStep
  BY <1>3, LocalStutter DEF EndCtx, LocalTo, EffectOf, AnswerOf, Returned, StoreCall
<1>4. ASSUME NEW c \in Calls, DbStep(c) PROVE AbstractStep
  <2>1. CASE RunUpdate(c)
    <3>1. /\ LocalTo(c) /\ db' = db /\ got' = got
          /\ UNCHANGED <<pc, err, res>>
          /\ txn[c] = "started" /\ txn'[c] = "ran"
      BY <1>0, <2>1 DEF RunUpdate, LocalTo, TypeOK
    <3> QED  BY <3>1, LocalStep, LocalStutter DEF EffectOf, AnswerOf, Returned, InFlight
  <2>2. CASE Commit(c)
    <3>1. /\ LocalTo(c) /\ got' = got
          /\ UNCHANGED <<pc, res>>
          /\ txn[c] = "ran" /\ txn'[c] = "sending" /\ err'[c] = "nil"
          /\ args[c].op \in Writes
      BY <1>0, <2>2 DEF Commit, LocalTo, TypeOK, ControlInv
    <3>2. /\ StoreCall(c)
          /\ EffectOf(c) = "pending" /\ EffectOf(c)' = "applied"
          /\ AnswerOf(c)' = AnswerOf(c)
      BY <3>1, LocalStep DEF StoreCall, EffectOf, AnswerOf, Returned, InFlight
    <3>3. life[c] \in IF args[c].op = "Store" THEN 0..PersistDuration ELSE {0}
      BY <1>0 DEF ArgsInv, TypeOK
    <3>4. Answers' = Answers
      BY <3>1, <3>2, LocalStep DEF Answers
    <3>5. Abstract!ApplyWrite(c)
      BY <2>2, <3>1, <3>2, <3>3, <3>4, LocalStep, MappedValues
         DEF Commit, Abstract!ApplyWrite, Abstract!Writes, Writes, StoreArgs,
             Effects, Answers
    <3> QED  BY <3>5 DEF AbstractStep, Abstract!Next, Abstract!CallStep
  <2>3. CASE RunView(c)
    <3>1. /\ LocalTo(c) /\ db' = db
          /\ UNCHANGED <<pc, res>>
          /\ txn[c] = "started" /\ txn'[c] = "sending"
          /\ err'[c] \in {"nil", "ErrKeyNotFound"}
          /\ args[c].op \in Reads
      BY <1>0, <2>3 DEF RunView, LocalTo, TypeOK
    <3>2. /\ StoreCall(c)
          /\ EffectOf(c) = "pending" /\ EffectOf(c)' = "applied"
          /\ AnswerOf(c)' = AnswerOf(c)
      BY <3>1, LocalStep DEF StoreCall, EffectOf, AnswerOf, Returned, InFlight
    <3>3. Answers' = Answers
      BY <3>1, <3>2, LocalStep DEF Answers
    <3>4. Abstract!ApplyRead(c)
      BY <2>3, <3>1, <3>2, <3>3, LocalStep, MappedValues
         DEF RunView, Visible, Abstract!Visible, Abstract!ApplyRead,
             Abstract!Reads, Reads, StoreArgs, Effects, Answers
    <3> QED  BY <3>4 DEF AbstractStep, Abstract!Next, Abstract!CallStep
  <2>4. CASE DbError(c)
    <3>1. /\ LocalTo(c) /\ db' = db /\ got' = got
          /\ UNCHANGED <<pc, res>>
          /\ txn[c] \in InFlight /\ txn'[c] = "sending" /\ err'[c] = "dberror"
      BY <1>0, <2>4 DEF DbError, LocalTo, TypeOK
    <3>2. CASE ~StoreCall(c)
      BY <3>1, <3>2, LocalStutter
    <3>3. CASE StoreCall(c)
      <4>1. /\ EffectOf(c) = "pending" /\ EffectOf(c)' = "dropped"
            /\ AnswerOf(c)' = AnswerOf(c)
        BY <3>1, <3>3, LocalStep DEF EffectOf, AnswerOf, Returned, InFlight
      <4>2. Answers' = Answers
        BY <3>1, <4>1, LocalStep DEF Answers
      <4>3. Abstract!Drop(c)
        BY <3>1, <4>1, <4>2, LocalStep, MappedValues
           DEF Abstract!Drop, StoreArgs, Effects, Answers
      <4> QED  BY <4>3 DEF AbstractStep, Abstract!Next, Abstract!CallStep
    <3> QED  BY <3>2, <3>3
  <2>5. CASE Send(c)
    <3>1. /\ LocalTo(c) /\ db' = db /\ got' = got
          /\ UNCHANGED <<pc, err, res>>
          /\ txn[c] = "sending" /\ txn'[c] = "exited"
      BY <1>0, <2>5 DEF Send, LocalTo, TypeOK
    <3> QED  BY <3>1, LocalStep, LocalStutter DEF EffectOf, AnswerOf, Returned, InFlight
  <2>6. CASE HealthView(c)
    <3>1. /\ LocalTo(c) /\ db' = db /\ got' = got
          /\ pc[c] = "view" /\ pc'[c] = "returned"
          /\ txn[c] = "none" /\ txn'[c] = "none"
          /\ res'[c] \in {"healthy", "unhealthy"}
      BY <1>0, <2>6 DEF HealthView, LocalTo, TypeOK, ControlInv
    <3>2. StoreCall(c) => /\ EffectOf(c) = "pending" /\ EffectOf(c)' = "dropped"
                          /\ AnswerOf(c)' # "ok"
      BY <3>1, LocalStep DEF EffectOf, AnswerOf, Returned, InFlight, Refused
    <3> QED  BY <3>1, <3>2, LocalAnswer
  <2> QED  BY <1>4, <2>1, <2>2, <2>3, <2>4, <2>5, <2>6 DEF DbStep
<1>5. CASE ResetDegraded
  <2>1. \A c \in Calls : EffectOf(c)' = EffectOf(c) /\ AnswerOf(c)' = AnswerOf(c)
    BY <1>5 DEF ResetDegraded, EffectOf, AnswerOf, Returned, StoreCall
  <2>2. StoreArgs' = StoreArgs /\ Effects' = Effects /\ Answers' = Answers
    BY <1>5, <2>1 DEF ResetDegraded, StoreArgs, Effects, Answers, StoreCall
  <2> QED  BY <1>5, <2>2, Stutter DEF ResetDegraded
<1>6. CASE Tick
  <2>1. \A c \in Calls : EffectOf(c)' = EffectOf(c) /\ AnswerOf(c)' = AnswerOf(c)
    BY <1>6 DEF Tick, EffectOf, AnswerOf, Returned, StoreCall
  <2>2. StoreArgs' = StoreArgs /\ Effects' = Effects /\ Answers' = Answers
    BY <1>6, <2>1 DEF Tick, StoreArgs, Effects, Answers, StoreCall
  <2>3. db' = [k \in Keys |-> [db[k] EXCEPT !.left = IF @ > 0 THEN @ - 1 ELSE @]]
    BY <1>0, <1>6 DEF Tick, TypeOK, Older
  <2>4. Abstract!Age
    BY <1>6, <2>2, <2>3 DEF Tick, Abstract!Age, StoreArgs, Effects, Answers
  <2> QED  BY <2>4 DEF AbstractStep, Abstract!Next
<1>7. CASE Restart
  <2>1. \A c \in Calls : /\ StoreCall(c)' = StoreCall(c)
                         /\ StoreCall(c) => pc[c] # "idle"
    BY <1>0, <1>7 DEF Restart, StoreCall, ArgsInv, NoArgs, Writes, Reads
  <2>2. ASSUME NEW c \in Calls
        PROVE  /\ EffectOf(c)' = IF EffectOf(c) = "pending" THEN "dropped"
                                                            ELSE EffectOf(c)
               /\ AnswerOf(c)' = IF EffectOf(c) # "none" /\ AnswerOf(c) = "none"
                                 THEN "unknown" ELSE AnswerOf(c)
    <3>1. CASE ~StoreCall(c)
      BY <2>1, <3>1 DEF EffectOf, AnswerOf, Returned
    <3>2. CASE StoreCall(c)
      <4>1. pc'[c] = "returned"
        BY <1>0, <1>7, <2>1, <3>2 DEF Restart, TypeOK
      <4>2. EffectOf(c)' = IF EffectOf(c) = "pending" THEN "dropped" ELSE EffectOf(c)
        BY <1>0, <1>7, <2>1, <3>2, <4>1 DEF Restart, EffectOf, InFlight, TypeOK
      <4>3. CASE pc[c] = "returned"
        BY <1>7, <2>1, <3>2, <4>1, <4>2, <4>3, MappedValues
           DEF Restart, AnswerOf, Returned, Active
      <4>4. CASE pc[c] # "returned"
        <5>1. res'[c] = "crashed"
          BY <1>0, <1>7, <2>1, <3>2, <4>4 DEF Restart, TypeOK
        <5> QED  BY <2>1, <3>2, <4>1, <4>2, <4>4, <5>1, MappedValues
                  DEF AnswerOf, Returned, Refused
      <4> QED  BY <4>3, <4>4
    <3> QED  BY <3>1, <3>2
  <2>3. /\ Effects' = [c \in Calls |-> IF Effects[c] = "pending" THEN "dropped"
                                                               ELSE Effects[c]]
        /\ Answers' = [c \in Calls |->
                          IF Effects[c] # "none" /\ Answers[c] = "none"
                          THEN "unknown" ELSE Answers[c]]
    BY <2>2 DEF Effects, Answers
  <2>4. StoreArgs' = StoreArgs
    BY <1>7, <2>1 DEF Restart, StoreArgs
  <2>5. Abstract!Crash
    BY <1>7, <2>3, <2>4 DEF Restart, Abstract!Crash, StoreArgs, Effects, Answers
  <2> QED  BY <2>5 DEF AbstractStep, Abstract!Next
<1>8. CASE UNCHANGED vars
  <2>1. \A c \in Calls : EffectOf(c)' = EffectOf(c) /\ AnswerOf(c)' = AnswerOf(c)
    BY <1>8 DEF vars, EffectOf, AnswerOf, Returned, StoreCall
  <2>2. StoreArgs' = StoreArgs /\ Effects' = Effects /\ Answers' = Answers
    BY <1>8, <2>1 DEF vars, StoreArgs, Effects, Answers, StoreCall
  <2> QED  BY <1>8, <2>2, Stutter DEF vars
<1> QED  BY <1>1, <1>2, <1>3, <1>4, <1>5, <1>6, <1>7, <1>8
          DEF Next, InternalStep

(* Through timeouts, cancellations, database errors and restarts a call    *)
(* takes effect at most once, before it answers "ok" and never when it is  *)
(* refused (storage.go:188-233): all that the data service relies on.      *)
THEOREM Refinement == Spec => ImplementsEphemeralStore
<1>1. Init => Abstract!Init
  <2> SUFFICES ASSUME Init PROVE Abstract!Init
    OBVIOUS
  <2>1. \A c \in Calls : ~StoreCall(c)
    BY DEF Init, StoreCall, NoArgs, Writes, Reads
  <2>2. \A c \in Calls : EffectOf(c) = "none" /\ AnswerOf(c) = "none"
    BY <2>1 DEF EffectOf, AnswerOf, Returned
  <2> QED  BY <2>1, <2>2 DEF Init, Abstract!Init, Abstract!NoEntry, NoEntry,
                Abstract!NothingRead, NothingRead, Abstract!NoArgs, NoStoreCall
<1>2. Init => ArgsInv
  <2> SUFFICES ASSUME Init, NEW c \in Calls
               PROVE  args[c] = NoArgs /\ life[c] = 0
    BY DEF ArgsInv
  <2> QED  BY DEF Init
<1>3. SafetyInv /\ ArgsInv /\ [Next]_vars => ArgsInv'
  BY StepArgs DEF SafetyInv
<1>4. SafetyInv /\ ArgsInv /\ [Next]_vars => [Abstract!Next]_Abstract!vars
  BY StepMaps DEF SafetyInv, AbstractStep
<1> QED  BY <1>1, <1>2, <1>3, <1>4, SafetyInvariant, PTL
          DEF Spec, ImplementsEphemeralStore, Abstract!Spec
=============================================================================
