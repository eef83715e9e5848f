---------------------------- MODULE LeasePreconvert ----------------------------
(***************************************************************************)
(* One converting lease of the audio fabric: audio_fabric_lease.c and the  *)
(* part of audio_fabric.c that stages and retires its periods.  The main   *)
(* loop converts whole source periods into a staging ring; the audio IRQ,  *)
(* which may land anywhere in that, copies them to the transmit ring, and  *)
(* converts itself what the main loop is late with, the period the main    *)
(* loop is working on included.                                            *)
(* The unit of every cursor is one period.  Source cursors are 64 bits in  *)
(* the code and are counted here from the credited cursor; the two staging *)
(* cursors are 32 bits and are kept modulo Word.                           *)
(***************************************************************************)
EXTENDS Integers, Sequences, FiniteSets

CONSTANTS Depth,      \* AUDIO_FABRIC_LEASE_STAGING_PERIODS (32)
          Tx,         \* AUDIO_NUM_PERIODS (8)
          Burst,      \* AUDIO_FABRIC_MULTISLOT_MAX_FILLS (2)
          Word,       \* periods in 2^32 bytes, no multiple of Depth
          Budget,     \* AUDIO_FABRIC_LEASE_PRECONVERT_BUDGET
          Capacity,   \* source periods in the granted ring
          Preroll,    \* source periods before going live
          Timeout,    \* interrupts without a heartbeat
          RebaseRace  \* an IRQ may land before the poll masks its rebase

ASSUME Sizes == /\ Tx \in Nat /\ Tx > 2 /\ Depth \in Nat /\ Depth >= 2 * Tx - 2
                /\ Word \in Nat /\ Word > 2 * Depth /\ Preroll \in Nat
                /\ Capacity \in Nat /\ Capacity >= Preroll
                /\ Timeout \in Nat \ {0} /\ Burst \in 1..Tx /\ Budget \in Nat /\ RebaseRace \in BOOLEAN

Target == Tx - 2                     \* AUDIO_FABRIC_TARGET_AHEAD
Runway == Depth - Tx - 1             \* Tx is also AUDIO_FABRIC_LEASE_REPLAY_PERIODS
Limit  == Word - 1 - Depth           \* staging cursors above it are rebased
Lost   == -1                         \* not a period of this source, in order
Silent == -1                         \* a TX period without this lease's audio
Fresh  == -2                         \* a converter not initialised (convert_rate = 0)

VARIABLES
  lease,     \* state, line_valid, paused, write_cursor, heartbeat age, live
  cons,      \* lease.consumed
  src,       \* preconvert.src_consumed
  staged, played,  \* preconvert.staged and .consumed
  stg,       \* the staging ring: which source period each slot holds
  conv,      \* the converter: the source period its history expects next
  tx,        \* staged_seq of the periods from the DMA's to the fill frontier
  poll,      \* audio_fabric_lease_poll and the words it shares with the IRQ
  isr,       \* the audio IRQ
  host       \* the producer's line and state

cursors == <<cons, src, staged, played, stg, tx>>
vars == <<lease, cursors, conv, poll, isr, host>>

Free == [state |-> "none", valid |-> FALSE, paused |-> FALSE, view |-> 0, age |-> 0,
         live |-> FALSE]
NoPoll == [pc |-> "idle", src |-> 0, staged |-> 0, view |-> 0, out |-> Lost, budget |-> 0,
           inflight |-> FALSE, stolen |-> FALSE, snap |-> Lost, isrc |-> 0, rebase |-> 0]
NoIsr == [pc |-> "off", moved |-> 0, left |-> 0]
NoHost == [line |-> "zero", write |-> 0, paused |-> TRUE, beat |-> FALSE, dead |-> FALSE]

Outstanding == (staged - played) % Word

TypeOK ==
  /\ lease \in [state : {"none", "leased", "active"}, valid : BOOLEAN, paused : BOOLEAN,
                view : 0..Capacity, age : 0..Timeout, live : BOOLEAN]
  /\ cons \in 0..Capacity /\ src \in 0..Capacity
  /\ staged \in 0..Word - 1 /\ played \in 0..Word - 1
  /\ stg \in [0..Depth - 1 -> Lost..Capacity] /\ conv \in Fresh..Capacity
  /\ Len(tx) <= Target /\ \A i \in DOMAIN tx : tx[i] \in Silent..Word - 1
  /\ isr.pc \in {"off", "finish", "catchup", "retire", "fill"} /\ isr.moved \in 0..Target
  /\ isr.left \in 0..Tx

Dropped ==                            \* fabric_slot_drop
  /\ lease' = Free /\ host' = NoHost
  /\ cons' = 0 /\ src' = 0 /\ staged' = 0 /\ played' = 0
  /\ conv' = Fresh /\ tx' = << >> /\ stg' = [i \in 0..Depth - 1 |-> Lost]

Init ==
  /\ lease = Free /\ cons = 0 /\ src = 0 /\ staged = 0 /\ played = 0
  /\ stg = [i \in 0..Depth - 1 |-> Lost] /\ conv = Fresh /\ tx = << >>
  /\ poll = NoPoll /\ isr = NoIsr /\ host = NoHost

Main == isr.pc = "off"                \* core 0 is not in the audio IRQ

----------------------------------------------------------------------------
(* The lease's life in the main loop, and its producer.                    *)

audio_fabric_ring_acquire ==
  /\ Main /\ poll.pc = "idle" /\ lease.state = "none"
  /\ lease' = [Free EXCEPT !.state = "leased"] /\ conv' = Fresh
  /\ UNCHANGED <<cursors, poll, isr, host>>

audio_fabric_ring_release ==
  /\ Main /\ poll.pc = "idle" /\ lease.state # "none"
  /\ Dropped /\ UNCHANGED <<poll, isr>>

Alive == lease.state # "none" /\ ~host.dead

(* What it publishes during an IRQ is read by the next, so it acts between *)
(* them.                                                                   *)
Publishes == Alive /\ Main

(* The producer publishes a period more, a heartbeat, or that it pauses; a *)
(* client may well wait for ACTIVE before it goes on.                      *)
Produce ==
  /\ Publishes /\ host.write < Capacity
  /\ host' = [host EXCEPT !.line = "ok", !.beat = TRUE, !.write = @ + 1]
  /\ UNCHANGED <<lease, cursors, conv, poll, isr>>

Beat ==
  /\ Publishes /\ ~host.beat /\ host' = [host EXCEPT !.line = "ok", !.beat = TRUE]
  /\ UNCHANGED <<lease, cursors, conv, poll, isr>>

Unpause ==
  /\ Publishes /\ host.paused /\ lease.state = "active"
  /\ host' = [host EXCEPT !.line = "ok", !.beat = TRUE, !.paused = FALSE]
  /\ UNCHANGED <<lease, cursors, conv, poll, isr>>

Pause ==
  /\ Publishes /\ lease.live /\ ~host.paused
  /\ host' = [host EXCEPT !.line = "ok", !.beat = TRUE, !.paused = TRUE]
  /\ UNCHANGED <<lease, cursors, conv, poll, isr>>

(* It dies, with the line in any state.                                    *)
Die ==
  /\ Publishes /\ host' = [host EXCEPT !.dead = TRUE, !.beat = FALSE]
  /\ UNCHANGED <<lease, cursors, conv, poll, isr>>

----------------------------------------------------------------------------
(* Converting and staging one source period.                               *)

Fed(c, k) == IF c = k THEN k + 1 ELSE IF c = Fresh THEN c ELSE Lost      \* the converter's history after period k
Output(c, k) == IF c = k THEN k ELSE Lost       \* what it delivers for period k

Rebase == LET lowest == IF played < staged THEN played ELSE staged
          IN  lowest - (lowest % Depth)

(* fabric_lease_rebase_cursors, of cursors that a publisher in the IRQ has *)
(* just moved to s.                                                        *)
RebaseFrom(s) ==
  LET lowest == IF played < s THEN played ELSE s
      r == IF s > Limit THEN lowest - (lowest % Depth) ELSE 0
  IN  staged' = s - r /\ played' = played - r

----------------------------------------------------------------------------
(* audio_fabric_lease_poll.                                                *)

PollBegin ==
  /\ Main /\ poll.pc = "idle" /\ lease.state # "none" /\ host.line = "ok"
  /\ poll' = [poll EXCEPT !.pc = "read", !.view = host.write, !.budget = Budget]
  /\ UNCHANGED <<lease, cursors, conv, isr, host>>

PollIgnoresReplay ==      (* Mutant: the replay window is not kept. *)
  /\ Main /\ poll.pc = "read"
  /\ IF lease.state = "none" \/ poll.budget = 0 \/ Outstanding > Depth - 1
        \/ src + 1 > poll.view
     THEN poll' = NoPoll /\ UNCHANGED conv
     ELSE /\ poll' = [poll EXCEPT !.pc = "claim", !.src = src, !.staged = staged]
          /\ conv' = IF conv = Fresh THEN src ELSE conv
  /\ UNCHANGED <<lease, cursors, isr, host>>

(* The head of the loop: stop without room, source or budget; initialise   *)
(* the converter of a fresh lease.                                         *)
PollRead ==
  /\ Main /\ poll.pc = "read"
  /\ IF lease.state = "none" \/ poll.budget = 0 \/ Outstanding > Runway
        \/ src + 1 > poll.view
     THEN poll' = NoPoll /\ UNCHANGED conv
     ELSE /\ poll' = [poll EXCEPT !.pc = "claim", !.src = src, !.staged = staged]
          /\ conv' = IF conv = Fresh THEN src ELSE conv
  /\ UNCHANGED <<lease, cursors, isr, host>>

(* With IRQs masked: claim the period, unless the IRQ was faster.          *)
PollClaim ==
  /\ Main /\ poll.pc = "claim"
  /\ poll' = IF src # poll.src \/ staged # poll.staged
             THEN NoPoll
             ELSE [poll EXCEPT !.pc = "fir", !.snap = conv, !.isrc = src,
                               !.stolen = FALSE, !.inflight = TRUE]
  /\ UNCHANGED <<lease, cursors, conv, isr, host>>

PollFir ==
  /\ Main /\ poll.pc = "fir"
  /\ poll' = [poll EXCEPT !.pc = "publish", !.out = Output(conv, poll.src)]
  /\ conv' = Fed(conv, poll.src)
  /\ UNCHANGED <<lease, cursors, isr, host>>

(* With IRQs masked: adopt the converter of an IRQ that finished the       *)
(* period, or discard what a lease that died was owed, or publish.         *)
PollPublish ==
  /\ Main /\ poll.pc = "publish"
  /\ \/ /\ poll.stolen
        /\ poll' = NoPoll
        /\ conv' = poll.snap /\ UNCHANGED cursors
     \/ /\ ~poll.stolen /\ (staged # poll.staged \/ lease.state = "none")
        /\ poll' = NoPoll
        /\ UNCHANGED <<conv, cursors>>
     \/ /\ ~poll.stolen /\ staged = poll.staged /\ lease.state # "none"
        /\ stg' = [stg EXCEPT ![staged % Depth] = poll.out]
        /\ staged' = (staged + 1) % Word /\ src' = poll.src + 1
        /\ poll' = [NoPoll EXCEPT !.pc = IF staged' > Limit THEN "rebase" ELSE "read",
                                  !.view = poll.view, !.budget = poll.budget - 1]
        /\ UNCHANGED <<conv, cons, played, tx>>
  /\ UNCHANGED <<lease, isr, host>>

(* The boundary rebase: computed first, applied with IRQs masked.          *)
PollRebase ==
  /\ Main /\ poll.pc = "rebase"
  /\ poll' = [poll EXCEPT !.pc = "apply", !.rebase = Rebase]
  /\ UNCHANGED <<lease, cursors, conv, isr, host>>

PollApply ==
  /\ Main /\ poll.pc = "apply"
  /\ staged' = (staged - poll.rebase) % Word /\ played' = (played - poll.rebase) % Word
  /\ poll' = [poll EXCEPT !.pc = "read", !.rebase = 0]
  /\ UNCHANGED <<lease, cons, src, stg, tx, conv, isr, host>>

----------------------------------------------------------------------------
(* The audio IRQ: fabric_lease_isr_tick.                                   *)

Interrupt == isr.pc = "off" /\ lease.state # "none" /\ (poll.pc = "apply" => RebaseRace)

(* The lease is revoked: the slot is free and the rest of the IRQ is not   *)
(* about it.                                                               *)
Revoke == Dropped /\ UNCHANGED <<poll, isr>>

Ages == lease.age + 1 < Timeout

MissNeverAges ==          (* Mutant: an unreadable line does not age the lease. *)
  /\ Interrupt
  /\ lease' = [lease EXCEPT !.valid = @ /\ host.line # "zero"]
  /\ isr' = [isr EXCEPT !.pc = "finish"]
  /\ UNCHANGED <<cursors, conv, poll, host>>

(* The line is being written, or its writer died in it: the last view      *)
(* stands.  A line not of this generation isolates the slot.               *)
TickMiss ==
  /\ Interrupt
  /\ IF Ages
     THEN /\ lease' = [lease EXCEPT !.age = @ + 1, !.valid = @ /\ host.line # "zero"]
          /\ isr' = [isr EXCEPT !.pc = "finish"]
          /\ UNCHANGED <<cursors, conv, poll, host>>
     ELSE Revoke

(* The producer's cursor went back or past the ring.                       *)
TickFault == Interrupt /\ Alive /\ Revoke

ActivatedReady(l) ==      (* Mutant: a paused publication does not record ACTIVE. *)
  LET ready == l.view >= Preroll /\ Outstanding >= Target /\ ~l.paused
      s == IF l.state = "leased" /\ ready THEN "active" ELSE l.state
  IN  [l EXCEPT !.state = s, !.live = @ \/ (s = "active" /\ ready)]

(* LEASED to ACTIVE and going live.  Alone it restarts the frontier, with  *)
(* a live peer it joins the peer's.                                        *)
Activated(l) ==
  LET ready == l.view >= Preroll /\ Outstanding >= Target /\ ~l.paused
      s == IF l.state = "leased" /\ (l.paused \/ ready) THEN "active" ELSE l.state
  IN  [l EXCEPT !.state = s, !.live = @ \/ (s = "active" /\ ready)]

TickLine ==
  /\ Interrupt /\ host.line = "ok"
  /\ LET age == IF host.beat THEN 0 ELSE lease.age + 1 IN
     IF age >= Timeout THEN Revoke
     ELSE /\ lease' = Activated([lease EXCEPT !.age = age, !.paused = host.paused,
                                              !.view = host.write, !.valid = TRUE])
          /\ IF lease'.live /\ ~lease.live
             THEN \E n \in 1..Target : tx' = [i \in 1..n |-> Silent]
             ELSE UNCHANGED tx
          /\ host' = [host EXCEPT !.beat = FALSE]
          /\ isr' = [isr EXCEPT !.pc = "finish"]
          /\ UNCHANGED <<cons, src, staged, played, stg, conv, poll>>

----------------------------------------------------------------------------
(* The audio IRQ: fabric_lease_catchup.  The DMA has moved on by one       *)
(* period, or by more when the IRQ was late; the fill will want what is    *)
(* missing to the target.                                                  *)

Idle1 == isr' = NoIsr /\ UNCHANGED <<lease, cursors, conv, poll, host>>
NotLive == isr.pc = "finish" /\ ~lease.live /\ Idle1

(* What the fill will want, no more than Burst when a peer is ready too.   *)
Guards == {Burst, Tx}
Owed(k, guard) == LET deficit == Target - (IF k < Len(tx) THEN Len(tx) - k ELSE 1)
                  IN  IF deficit < guard THEN deficit ELSE guard

StealsConverted ==        (* Mutant: from the poll's converter, not the snapshot. *)
  /\ isr.pc = "finish" /\ lease.live
  /\ \E k \in 1..Len(tx), guard \in Guards :
       /\ isr' = [pc |-> "catchup", moved |-> k, left |-> Owed(k, guard)]
       /\ IF poll.inflight /\ ~poll.stolen /\ Outstanding < Owed(k, guard) /\ src = poll.isrc
          THEN /\ stg' = [stg EXCEPT ![staged % Depth] = Output(conv, src)]
               /\ RebaseFrom(staged + 1) /\ src' = src + 1
               /\ poll' = [poll EXCEPT !.stolen = TRUE, !.snap = Fed(conv, src)]
          ELSE UNCHANGED <<stg, staged, played, src, poll>>
  /\ UNCHANGED <<lease, cons, tx, conv, host>>

(* fabric_lease_finish_inflight: the period the poll has claimed and not   *)
(* published, from the converter as it was before.                         *)
FinishInflight ==
  /\ isr.pc = "finish" /\ lease.live
  /\ \E k \in 1..Len(tx), guard \in Guards :
       /\ isr' = [pc |-> "catchup", moved |-> k, left |-> Owed(k, guard)]
       /\ IF poll.inflight /\ ~poll.stolen /\ Outstanding < Owed(k, guard) /\ src = poll.isrc
          THEN /\ stg' = [stg EXCEPT ![staged % Depth] = Output(poll.snap, src)]
               /\ RebaseFrom(staged + 1) /\ src' = src + 1
               /\ poll' = [poll EXCEPT !.stolen = TRUE, !.snap = Fed(@, src)]
          ELSE UNCHANGED <<stg, staged, played, src, poll>>
  /\ UNCHANGED <<lease, cons, tx, conv, host>>

(* fabric_lease_catchup_unclaimed, period by period.                       *)
MayCatchUp ==
  /\ ~lease.paused /\ (poll.inflight => poll.stolen)
  /\ Outstanding < isr.left /\ Outstanding < Runway /\ src + 1 <= lease.view

CatchUp ==
  /\ isr.pc = "catchup" /\ MayCatchUp
  /\ LET c == IF poll.stolen THEN poll.snap ELSE conv IN
       /\ stg' = [stg EXCEPT ![staged % Depth] = Output(c, src)]
       /\ IF poll.stolen THEN poll' = [poll EXCEPT !.snap = Fed(c, src)] /\ UNCHANGED conv
                         ELSE conv' = Fed(c, src) /\ UNCHANGED poll
  /\ RebaseFrom(staged + 1) /\ src' = src + 1
  /\ UNCHANGED <<lease, cons, tx, isr, host>>

CaughtUp ==
  /\ isr.pc = "catchup" /\ ~MayCatchUp /\ isr' = [isr EXCEPT !.pc = "retire", !.left = 0]
  /\ UNCHANGED <<lease, cursors, conv, poll, host>>

----------------------------------------------------------------------------
(* The audio IRQ: retiring and filling.                                    *)

Tagged(n) == Cardinality({i \in 1..n : i <= Len(tx) /\ tx[i] # Silent})

(* Every period the DMA left is credited.  All source cursors now count    *)
(* from the new credit.                                                    *)
Retire ==
  /\ isr.pc = "retire"
  /\ LET r == IF Tagged(isr.moved) < cons THEN Tagged(isr.moved) ELSE cons
         Sub(x) == IF x < 0 THEN x ELSE IF x < r THEN Lost ELSE x - r
         Sub0(x) == IF x < r THEN 0 ELSE x - r
     IN /\ cons' = cons - r /\ src' = Sub0(src) /\ conv' = Sub(conv)
        /\ stg' = [i \in 0..Depth - 1 |-> Sub(stg[i])]
        /\ lease' = [lease EXCEPT !.view = Sub0(@)]
        /\ host' = [host EXCEPT !.write = Sub0(@)]
        /\ poll' = [poll EXCEPT !.src = Sub(@), !.view = Sub0(@), !.out = Sub(@),
                                !.snap = Sub(@), !.isrc = Sub(@)]
  /\ tx' = LET rest == SubSeq(tx, isr.moved + 1, Len(tx))
           IN  IF rest = << >> THEN <<Silent>> ELSE rest
  /\ \E guard \in Guards : isr' = [pc |-> "fill", moved |-> 0, left |-> guard]
  /\ UNCHANGED <<staged, played>>

MayStage == lease.valid /\ ~lease.paused /\ Outstanding > 0 /\ lease.view - cons >= 1

(* One period of the fill loop.                                            *)
Fill ==
  /\ isr.pc = "fill" /\ isr.left > 0 /\ Len(tx) < Target /\ MayStage
  /\ tx' = Append(tx, played) /\ played' = (played + 1) % Word /\ cons' = cons + 1
  /\ isr' = [isr EXCEPT !.left = @ - 1]
  /\ UNCHANGED <<lease, src, staged, stg, conv, poll, host>>

(* Without this lease the frontier advances only when a peer fills it.     *)
FillPeer ==
  /\ isr.pc = "fill" /\ isr.left > 0 /\ Len(tx) < Target /\ ~MayStage
  /\ tx' = Append(tx, Silent) /\ isr' = [isr EXCEPT !.left = @ - 1]
  /\ UNCHANGED <<lease, cons, src, staged, played, stg, conv, poll, host>>

FillEnd ==
  /\ isr.pc = "fill" /\ (Len(tx) = Target \/ isr.left = 0 \/ ~MayStage) /\ Idle1

----------------------------------------------------------------------------
Poll == PollBegin \/ PollRead \/ PollClaim \/ PollFir \/ PollPublish \/ PollRebase \/ PollApply
IsrBody == NotLive \/ FinishInflight \/ CatchUp \/ CaughtUp \/ Retire \/ Fill \/ FillPeer \/ FillEnd
Tick == TickMiss \/ TickFault \/ TickLine

Next ==
  \/ audio_fabric_ring_acquire \/ audio_fabric_ring_release
  \/ Produce \/ Beat \/ Unpause \/ Pause \/ Die
  \/ Poll \/ Tick \/ IsrBody

Spec == Init /\ [][Next]_vars

(* The audio IRQ comes every period and returns, the main loop goes on     *)
(* between two IRQs, and most reads of the line succeed.  A producer that  *)
(* lives unpauses when it sees ACTIVE.                                     *)
FairSpec ==
  /\ Spec
  /\ WF_vars(IsrBody) /\ SF_vars(Tick) /\ SF_vars(TickLine) /\ SF_vars(Poll)
  /\ SF_vars(Unpause)

----------------------------------------------------------------------------
(* Between the two cursors the staging ring holds the source periods that  *)
(* come next, each converted once, in order and by a converter that saw    *)
(* all before it: whoever converted them, the poll, the IRQ behind its     *)
(* back or the IRQ in its place, and across the rebase of the cursors.     *)
StagedInOrder ==
  lease.state # "none" =>
    /\ src = cons + Outstanding
    /\ \A k \in 0..Outstanding - 1 : stg[((played + k) % Word) % Depth] = cons + k

(* What is queued for the DMA is the uncredited source periods, each once  *)
(* and in order: a period is credited when the DMA has left it and never   *)
(* before, and until then it can be replayed, because "staging slots       *)
(* behind the ISR consumed cursor stay intact".                            *)
QueueExact ==
  /\ Tagged(Len(tx)) = cons
  /\ \A i \in DOMAIN tx : tx[i] # Silent => stg[tx[i] % Depth] = Tagged(i - 1)

(* "a producer that died mid-publication must still lose its lease": a     *)
(* dead producer's slot is free again.                                     *)
DeadFreed == host.dead /\ lease.state # "none" ~> lease.state = "none"

(* "A client that waits for ACTIVE before unpausing would otherwise        *)
(* deadlock", and a wrapped ring position would "wedge the lease silent":  *)
(* the ring of a live producer that fills it and waits is drained, unless  *)
(* it paused on the air or lost the lease.                                 *)
Drains ==
  Alive /\ host.write = Capacity
    ~> host.write < Capacity \/ ~Alive \/ (lease.live /\ host.paused)
===============================================================================
