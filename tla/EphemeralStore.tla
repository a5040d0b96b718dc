--------------------------- MODULE EphemeralStore ---------------------------
(***************************************************************************)
(* What the Storage interface promises to its callers: a register per      *)
(* download key whose content ages until it is gone.  A call takes effect  *)
(* at one instant or never.  An "ok" answer means that it has, a "refused" *)
(* one that it never will, and an "unknown" one (timeout, cancellation,    *)
(* crash) promises nothing: the effect may still come after the answer     *)
(* (ErrStorageTimeout: "the underlying write may still complete").         *)
(*                                                                         *)
(* This is an abstract specification: Storage is shown to implement it and *)
(* DataService is built on it.                                             *)
(***************************************************************************)
EXTENDS Integers

CONSTANTS Calls, Keys, Docs, Ops, PersistDuration, NoCall

Writes == {"Store", "Delete"}
Reads == {"GetJSON", "Retrieve"}

VARIABLES
    db,       \* key -> [by: last call to write it, left: time to live]
    args,     \* call -> its operation, key and document
    effect,   \* call -> "none", "pending", "applied" or "dropped"
    seen,     \* call -> what a read found when it took effect
    answer    \* call -> "none", "ok", "refused" or "unknown"

vars == <<db, args, effect, seen, answer>>

Visible(entry) == entry.left # 0
NoEntry == [by |-> NoCall, left |-> 0]
NothingRead == [by |-> NoCall, visible |-> FALSE]
NoArgs == [op |-> "none", key |-> NoCall, doc |-> NoCall]

Init ==
    /\ db = [k \in Keys |-> NoEntry]
    /\ args = [c \in Calls |-> NoArgs]
    /\ effect = [c \in Calls |-> "none"]
    /\ seen = [c \in Calls |-> NothingRead]
    /\ answer = [c \in Calls |-> "none"]

Begin(c, op, k, d) ==
    /\ effect[c] = "none"
    /\ args' = [args EXCEPT ![c] = [op |-> op, key |-> k, doc |-> d]]
    /\ effect' = [effect EXCEPT ![c] = "pending"]
    /\ UNCHANGED <<db, seen, answer>>

(* A stored document may have aged since its time to live was fixed. *)
ApplyWrite(c) ==
    /\ effect[c] = "pending"
    /\ args[c].op \in Writes
    /\ \E left \in IF args[c].op = "Store" THEN 0..PersistDuration ELSE {0} :
          db' = [db EXCEPT ![args[c].key] = [by |-> c, left |-> left]]
    /\ effect' = [effect EXCEPT ![c] = "applied"]
    /\ UNCHANGED <<args, seen, answer>>

ApplyRead(c) ==
    LET entry == db[args[c].key] IN
    /\ effect[c] = "pending"
    /\ args[c].op \in Reads
    /\ seen' = [seen EXCEPT ![c] = [by |-> entry.by, visible |-> Visible(entry)]]
    /\ effect' = [effect EXCEPT ![c] = "applied"]
    /\ UNCHANGED <<db, args, answer>>

Drop(c) ==
    /\ effect[c] = "pending"
    /\ effect' = [effect EXCEPT ![c] = "dropped"]
    /\ UNCHANGED <<db, args, seen, answer>>

Answer(c, a) ==
    /\ effect[c] # "none"
    /\ answer[c] = "none"
    /\ a = "ok" => effect[c] = "applied"
    /\ a = "refused" => effect[c] = "dropped"
    /\ answer' = [answer EXCEPT ![c] = a]
    /\ UNCHANGED <<db, args, effect, seen>>

(* The call is turned away before it reaches the database. *)
TurnAway(c, a) ==
    /\ effect[c] = "pending"
    /\ answer[c] = "none"
    /\ a \in {"refused", "unknown"}
    /\ effect' = [effect EXCEPT ![c] = "dropped"]
    /\ answer' = [answer EXCEPT ![c] = a]
    /\ UNCHANGED <<db, args, seen>>

Age ==
    /\ db' = [k \in Keys |->
                [db[k] EXCEPT !.left = IF @ > 0 THEN @ - 1 ELSE @]]
    /\ UNCHANGED <<args, effect, seen, answer>>

(* The process dies: what has not taken effect never will. *)
Crash ==
    /\ effect' = [c \in Calls |->
                    IF effect[c] = "pending" THEN "dropped" ELSE effect[c]]
    /\ answer' = [c \in Calls |->
                    IF effect[c] # "none" /\ answer[c] = "none"
                    THEN "unknown" ELSE answer[c]]
    /\ UNCHANGED <<db, args, seen>>

CallStep(c) ==
    \/ ApplyWrite(c)
    \/ ApplyRead(c)
    \/ Drop(c)
    \/ \E a \in {"ok", "refused", "unknown"} : Answer(c, a) \/ TurnAway(c, a)

Next ==
    \/ \E c \in Calls, op \in Ops, k \in Keys, d \in Docs : Begin(c, op, k, d)
    \/ \E c \in Calls : CallStep(c)
    \/ Age
    \/ Crash

Spec == Init /\ [][Next]_vars
=============================================================================
