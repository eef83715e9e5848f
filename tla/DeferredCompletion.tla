------------------------- MODULE DeferredCompletion -------------------------
(***************************************************************************)
(* What the SDK mailbox promises a client of the Amiga about a request it  *)
(* accepted: at most one completion, posted in the mailbox lifetime that   *)
(* accepted it, in a ring that never overflows; a reset of the Amiga ends  *)
(* the lifetime and every request of it.  Which core computes the answer,  *)
(* and when, is not visible here.                                          *)
(***************************************************************************)
EXTENDS Naturals, Sequences

CONSTANTS
  Clients,   \* the request ids
  Room       \* completions the ring holds

VARIABLES
  fate,      \* of each request
  outbox     \* posted and not consumed yet, oldest first

Fates == {"new", "pending", "answered", "dropped"}

AbsTypeOK == /\ fate \in [Clients -> Fates]
             /\ outbox \in Seq(Clients)
             /\ Len(outbox) <= Room

AbsInit == /\ fate = [r \in Clients |-> "new"]
           /\ outbox = <<>>

Accept(r) ==
  /\ fate[r] = "new"
  /\ fate' = [fate EXCEPT ![r] = "pending"]
  /\ UNCHANGED outbox

(* Answered later, or in the step that accepts it.                         *)
Answer(r) ==
  /\ fate[r] \in {"new", "pending"}
  /\ Len(outbox) < Room
  /\ fate' = [fate EXCEPT ![r] = "answered"]
  /\ outbox' = Append(outbox, r)

Consume ==
  /\ outbox # <<>>
  /\ outbox' = Tail(outbox)
  /\ UNCHANGED fate

EndOfLifetime ==
  /\ fate' = [r \in Clients |->
                IF fate[r] = "pending" THEN "dropped" ELSE fate[r]]
  /\ outbox' = <<>>

AbsNext == \/ \E r \in Clients : Accept(r) \/ Answer(r)
           \/ Consume
           \/ EndOfLifetime

AbsSpec == AbsInit /\ [][AbsNext]_<<fate, outbox>>
=============================================================================
