------------------------ MODULE SchedulerRefinement ------------------------
(***************************************************************************)
(* The two-core scheduler implements the mailbox's promise.                *)
(***************************************************************************)
EXTENDS Scheduler

(* A request's fate: pending as long as its lifetime lasts, whichever slot *)
(* or core has it.                                                         *)
FateOf(r) ==
  IF r \in answered THEN "answered"
  ELSE CASE born[r] = -1         -> "new"
         [] born[r] = generation -> "pending"
         [] OTHER                -> "dropped"

Promise == INSTANCE DeferredCompletion
             WITH Clients <- Reqs, Room <- RingCap,
                  fate <- [r \in Reqs |-> FateOf(r)], outbox <- ring

(* Through claims, faults, restarts, drains and resets a request gets at   *)
(* most one completion, never in a later lifetime, never into a full ring. *)
MailboxPromise == Promise!AbsSpec
=============================================================================
