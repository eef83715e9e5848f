----------------------------- MODULE TaskQueue -----------------------------
(***************************************************************************)
(* The shared task queue of scheduler.c: a fixed table of descriptors that *)
(* core 0 fills and both cores claim from.  The descriptor's state word is *)
(* the only thing the cores synchronise on; it is written last on publish  *)
(* (release) and moved QUEUED -> CLAIMED by compare-and-swap.              *)
(*                                                                         *)
(* A scan of the table is one step here.  Only core 0 makes a slot FREE or *)
(* QUEUED and each core finishes only the slot it claimed, so whatever the *)
(* other core does to a slot the scan has already passed commutes with the *)
(* rest of the scan: the step can be placed where the winning slot's state *)
(* word is read (harvest) or swapped (claim).                              *)
(***************************************************************************)
EXTENDS Integers

CONSTANTS
  CAPACITY,   \* TASKQ_CAPACITY, 16 in the firmware
  Reqs,       \* request ids a client submits, each used once
  Internal    \* internal jobs (request_id 0), told apart by their opcode

ASSUME CapacityAssumption == CAPACITY \in Nat \ {0}
ASSUME JobAssumption == Reqs \cap (Internal \cup {"none"}) = {}

VARIABLES
  state,      \* descs[i].state
  cls,        \* descs[i].cls
  req,        \* descs[i].request_id, or the opcode of an internal job
  gen,        \* g_task_generation[i], the mailbox lifetime of the enqueue
  cursor      \* enqueue_cursor

queueVars == <<state, cls, req, gen, cursor>>

Slots == 0 .. CAPACITY - 1
NoSlot == -1
SlotOrNone == Slots \cup {NoSlot}

TaskStates == {"FREE", "QUEUED", "CLAIMED", "DONE", "FAILED"}
Classes == {"SHORT", "LONG"}
NoJob == "none"
Tags == Reqs \cup Internal \cup {NoJob}

QueueTypeOK ==
  /\ state \in [Slots -> TaskStates]
  /\ cls \in [Slots -> Classes]
  /\ req \in [Slots -> Tags]
  /\ gen \in [Slots -> Nat]
  /\ cursor \in Slots

(* The slot a scan that starts at index 0 finds first. *)
IsFirst(i, S) == i \in S /\ \A k \in S : i <= k

Queued   == {i \in Slots : state[i] = "QUEUED"}
Finished == {i \in Slots : state[i] \in {"DONE", "FAILED"}}
Free     == {i \in Slots : state[i] = "FREE"}

(* How far slot i is from the cursor in the producer's circular scan. *)
ScanDistance(i) == (i - cursor + CAPACITY) % CAPACITY

taskq_has_active == \E i \in Slots : state[i] \in {"QUEUED", "CLAIMED"}

(***************************************************************************)
(* Operations.                                                             *)
(***************************************************************************)

(* The descriptor's fields, then the state word that publishes them.       *)
Publish(i, r, c, g) ==
  /\ \A k \in Free : ScanDistance(i) <= ScanDistance(k)
  /\ state' = [state EXCEPT ![i] = "QUEUED"]
  /\ cls' = [cls EXCEPT ![i] = c]
  /\ req' = [req EXCEPT ![i] = r]
  /\ gen' = [gen EXCEPT ![i] = g]

(* Mutant: the cursor does not wrap.                                       *)
EnqueueNoWrap(r, c, g) ==
  \E i \in Free : Publish(i, r, c, g) /\ cursor' = i + 1

(* Queue job r of class c under mailbox lifetime g; core 0 stamps the      *)
(* lifetime right after the publish and is its only reader.                *)
taskq_enqueue(r, c, g) ==
  \E i \in Free : Publish(i, r, c, g) /\ cursor' = (i + 1) % CAPACITY

SetState(i, s) ==
  /\ state' = [state EXCEPT ![i] = s]
  /\ UNCHANGED <<cls, req, gen, cursor>>

taskq_claim_any(i) == IsFirst(i, Queued) /\ SetState(i, "CLAIMED")

(* Mutant: the claim is a plain store, without the compare-and-swap.       *)
ClaimShortNoSwap(i) ==
  /\ IsFirst(i, {k \in Slots : /\ state[k] \in {"QUEUED", "CLAIMED"}
                              /\ cls[k] = "SHORT"})
  /\ SetState(i, "CLAIMED")

taskq_claim_short(i) ==
  /\ IsFirst(i, {k \in Queued : cls[k] = "SHORT"})
  /\ SetState(i, "CLAIMED")

taskq_complete(i) == SetState(i, "DONE")
taskq_fail(i)     == SetState(i, "FAILED")
taskq_harvest(i)  == IsFirst(i, Finished)
taskq_release(i)  == SetState(i, "FREE")

taskq_init ==
  /\ state' = [i \in Slots |-> "FREE"]
  /\ cursor' = 0
  /\ UNCHANGED <<cls, req, gen>>

(* At boot only the state words are cleared.  No other field of a slot is  *)
(* read before an enqueue writes it.                                       *)
QueueInit ==
  /\ state = [i \in Slots |-> "FREE"]
  /\ cursor = 0
  /\ cls = [i \in Slots |-> "LONG"]
  /\ req = [i \in Slots |-> NoJob]
  /\ gen = [i \in Slots |-> 0]
=============================================================================
