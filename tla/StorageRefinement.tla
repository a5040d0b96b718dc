------------------------- MODULE StorageRefinement -------------------------
(***************************************************************************)
(* Storage implements EphemeralStore.  A call takes effect when its        *)
(* transaction commits or reads; it is dropped when it is turned away, the *)
(* transaction fails or the process dies.  Health checks touch neither     *)
(* register nor entry and are invisible to the abstract store.             *)
(***************************************************************************)
EXTENDS Storage

StoreCall(c) == args[c].op \in Writes \cup Reads

EffectOf(c) ==
    CASE ~StoreCall(c)                                      -> "none"
      [] StoreCall(c) /\ txn[c] \in InFlight                -> "pending"
      [] StoreCall(c) /\ txn[c] = "none" /\ pc[c] # "returned" -> "pending"
      [] StoreCall(c) /\ txn[c] \in {"sending", "exited"} /\ err[c] # "dberror"
                                                            -> "applied"
      [] OTHER                                              -> "dropped"

Returned(c) == StoreCall(c) /\ pc[c] = "returned"

AnswerOf(c) ==
    CASE ~Returned(c)                                       -> "none"
      [] Returned(c) /\ res[c] \in {"nil", "ErrKeyNotFound"} -> "ok"
      [] Returned(c) /\ res[c] \in Refused                  -> "refused"
      [] OTHER                                              -> "unknown"

NoStoreCall == [op |-> "none", key |-> NoCall, doc |-> NoCall]

Abstract ==
    INSTANCE EphemeralStore WITH
        Ops    <- Ops \cap (Writes \cup Reads),
        args   <- [c \in Calls |-> IF StoreCall(c) THEN args[c] ELSE NoStoreCall],
        effect <- [c \in Calls |-> EffectOf(c)],
        seen   <- got,
        answer <- [c \in Calls |-> AnswerOf(c)]

(* Whatever Storage does, through timeouts, cancellations, database errors *)
(* and restarts, is something the abstract store may do: every call takes  *)
(* effect at most once, never after a refusal and always before an "ok".   *)
ImplementsEphemeralStore == Abstract!Spec
=============================================================================
