------------------------------ MODULE CardPool ------------------------------
(***************************************************************************)
(* The card pool (card_pool.c) and the part of handle_amiga_reset (main.c) *)
(* that moves the Fast-RAM window between the Amiga and the ARM.           *)
(*                                                                         *)
(* Addresses and sizes count 64 KB pages.  The pool has the two ranges of  *)
(* card_pool_setup_card: the permanent pages Base..Mid-1, always open, and *)
(* the revocable pages Mid..End-1, the window the Amiga sees as Fast RAM   *)
(* when the gate register REG6 is open on a Zorro III board.               *)
(*                                                                         *)
(* The address-sorted array of live blocks is the set of its records.      *)
(* Every operation of the pool is one section under the pool's lock, so it *)
(* is one action; the reset handler is one action per such section.        *)
(***************************************************************************)
EXTENDS Integers, FiniteSets

CONSTANTS
    Base, Mid, End,   \* page bounds of the two ranges
    Owners,           \* owner words: a class and an instance
    ClassOf,          \* the class of each owner
    Limit,            \* class_limit
    MaxBlocks,        \* CARD_POOL_MAX_BLOCKS
    MaxSize           \* bound: largest request, in pages

(* The classes card_pool_alloc and the reset tell apart; MEDIA stands for  *)
(* every other class, each of which has its own limit and is revocable.    *)
Classes == {"FIRMWARE", "APP", "MEDIA"}

Boards == {"z2", "z3old", "z3"}

ASSUME BoundsAssumption ==
    /\ Base \in Nat /\ Mid \in Nat /\ End \in Nat /\ MaxSize \in Nat
    /\ 0 < Base /\ Base < Mid /\ Mid < End
ASSUME OwnersAssumption ==
    /\ ClassOf \in [Owners -> Classes]
    /\ Limit \in [Classes -> Nat]
    /\ MaxBlocks \in Nat

VARIABLES
    blocks,      \* the live blocks
    open,        \* ranges[r].open
    used,        \* class_used
    gate,        \* REG6, as the FPGA holds it
    advertise,   \* zz_config_fastram_advertise()
    board,       \* what REG3 and REG7 say of the bitstream; never changes
    boot,        \* amiga_boot_reset_pass
    pc,          \* where core 0 is in handle_amiga_reset; "run" when outside
    core1        \* the block a task of core 1 is working in, or NoBlock

poolVars == <<blocks, open, used>>
vars == <<blocks, open, used, gate, advertise, board, boot, pc, core1>>

Ranges == {"permanent", "revocable"}
RangeBase(r) == IF r = "permanent" THEN Base ELSE Mid
RangeEnd(r) == IF r = "permanent" THEN Mid ELSE End
Revocable(r) == r = "revocable"

Block == [addr : Base .. End - 1, size : 1 .. MaxSize, owner : Owners]
NoBlock == [addr |-> 0, size |-> 0]

Stop(b) == b.addr + b.size
InRange(r) == {b \in blocks : RangeBase(r) <= b.addr /\ b.addr < RangeEnd(r)}
InClass(c) == {b \in blocks : ClassOf[b.owner] = c}

(* The sum of the sizes of the blocks S, counted as pairs of a block and   *)
(* the number of one of its pages.                                         *)
Pages(S) == Cardinality({bp \in S \X (1 .. MaxSize) : bp[2] <= bp[1].size})

(***************************************************************************)
(* The boards: is_zorro3 comes from REG3, the capability from REG7, which  *)
(* reads as zero on Zorro II and on older bitstreams.                      *)
(***************************************************************************)
Zorro3 == board # "z2"
CanAdvertise == advertise /\ board = "z3"

TypeOK ==
    /\ blocks \subseteq Block
    /\ open \in [Ranges -> BOOLEAN]
    /\ DOMAIN used = Classes   \* its values are pinned by AccountingExact
    /\ gate \in BOOLEAN /\ advertise \in BOOLEAN /\ boot \in BOOLEAN
    /\ board \in Boards
    /\ pc \in {"run", "enter", "lent", "take_back", "reload", "gate",
               "modules", "release", "lend"}
    /\ core1 \in Block \cup {NoBlock}

(***************************************************************************)
(* card_pool_setup_card has opened the permanent range and main() has      *)
(* written the gate from the configuration; the boot pass of the reset     *)
(* handler runs next.                                                      *)
(***************************************************************************)
Init ==
    /\ blocks = {}
    /\ open = [r \in Ranges |-> ~Revocable(r)]
    /\ used = [c \in Classes |-> 0]
    /\ board \in Boards
    /\ advertise \in BOOLEAN
    /\ gate = CanAdvertise
    /\ boot = TRUE
    /\ pc = "enter"
    /\ core1 = NoBlock

-----------------------------------------------------------------------------
(* Allocation *)

(***************************************************************************)
(* find_gap walks the range's blocks in address order; its candidates are  *)
(* the start of the range and the end of each block, and it stops at the   *)
(* first one whose distance to the next block, or to the end of the range, *)
(* is large enough.                                                        *)
(***************************************************************************)
(* Mutant: a gap between two blocks is not a candidate, only the last one. *)
CandidatesTail(r) ==
    {RangeBase(r)} \cup {Stop(b) : b \in {x \in InRange(r) :
        \A y \in InRange(r) : y.addr <= x.addr}}

Candidates(r) == {RangeBase(r)} \cup {Stop(b) : b \in InRange(r)}

(* Mutant: only the gap before the next block is measured by its start.    *)
GapFitsAnyHole(r, a, size) ==
    /\ a + size <= RangeEnd(r)
    /\ \A b \in InRange(r) : a <= b.addr => a < b.addr

GapFits(r, a, size) ==
    /\ a + size <= RangeEnd(r)
    /\ \A b \in InRange(r) : a <= b.addr => a + size <= b.addr
Gaps(r, size) == {a \in Candidates(r) : GapFits(r, a, size)}

(* Mutant: the revocable range is closed to FIRMWARE only.                 *)
MayPlaceApp(r, c) == open[r] /\ ~(Revocable(r) /\ c = "FIRMWARE")

MayPlace(r, c) == open[r] /\ ~(Revocable(r) /\ c \in {"FIRMWARE", "APP"})

(***************************************************************************)
(* Ranges are tried in the order they were added: the window only when the *)
(* permanent range has no gap.                                             *)
(***************************************************************************)
FirstRange(r, size, c) ==
    /\ MayPlace(r, c)
    /\ Gaps(r, size) # {}
    /\ Revocable(r) => ~(MayPlace("permanent", c) /\ Gaps("permanent", size) # {})

(***************************************************************************)
(* The two tests made before the search: a free row in the table and room  *)
(* under the class's limit.                                                *)
(***************************************************************************)
Affordable(size, c) ==
    /\ Cardinality(blocks) < MaxBlocks
    /\ size <= Limit[c] - used[c]

(***************************************************************************)
(* A request that finds no gap, or fails a test, returns 0 and changes     *)
(* nothing, so only the successful ones are actions.                       *)
(***************************************************************************)
Alloc(o, size) ==
    LET c == ClassOf[o] IN
    /\ Affordable(size, c)
    /\ \E r \in Ranges :
         /\ FirstRange(r, size, c)
         /\ \E a \in Gaps(r, size) :
              /\ \A other \in Gaps(r, size) : a <= other
              /\ blocks' = blocks \cup {[addr |-> a, size |-> size, owner |-> o]}
    /\ used' = [used EXCEPT ![c] = @ + size]
    /\ UNCHANGED <<open, gate, advertise, board, boot, pc, core1>>

-----------------------------------------------------------------------------
(* Release *)

(* Mutant: the sizes are not taken off the classes.                        *)
RemoveUncharged(S) ==
    /\ blocks' = blocks \ S
    /\ UNCHANGED used

(***************************************************************************)
(* remove_blocks and release_where: drop the blocks S and subtract each    *)
(* one's size from its class.                                              *)
(***************************************************************************)
Remove(S) ==
    /\ blocks' = blocks \ S
    /\ used' = [c \in Classes |-> used[c] - Pages(S \cap InClass(c))]

(***************************************************************************)
(* card_pool_free: only the block that starts at the address and belongs   *)
(* to the caller.  A free that names anything else changes no block.       *)
(***************************************************************************)
Free(o, a) ==
    /\ \E b \in blocks : b.addr = a /\ b.owner = o /\ Remove({b})
    /\ UNCHANGED <<open, gate, advertise, board, boot, pc, core1>>

ReleaseOwner(o) ==
    /\ Remove({b \in blocks : b.owner = o})
    /\ UNCHANGED <<open, gate, advertise, board, boot, pc, core1>>

-----------------------------------------------------------------------------
(* Queries *)

BlockOwned(a, length, o) ==
    \E b \in blocks : b.addr = a /\ b.owner = o /\ length <= b.size

(***************************************************************************)
(* card_pool_range_owned looks at one block only: the last one that starts *)
(* at or below the address.                                                *)
(***************************************************************************)
Word == 2 * End   \* any modulus above the addresses, for unsigned wrap

(* Mutant: the unsigned difference past the end of the block wraps.        *)
CoversWrap(b, a, length) == length <= (b.size - (a - b.addr)) % Word

Covers(b, a, length) ==
    /\ a - b.addr < b.size
    /\ length <= b.size - (a - b.addr)
RangeOwned(a, length, o) ==
    \E b \in blocks :
        /\ b.addr <= a
        /\ \A other \in blocks : other.addr <= a => other.addr <= b.addr
        /\ b.owner = o
        /\ Covers(b, a, length)

RangeFreeBytes(r) ==
    IF open[r] THEN RangeEnd(r) - RangeBase(r) - Pages(InRange(r)) ELSE 0

-----------------------------------------------------------------------------
(* Core 1 *)

(***************************************************************************)
(* The scheduler hands core 1 a task that works in a block; core 0 does so *)
(* only outside the reset handler.                                         *)
(***************************************************************************)
StartTask(b) ==
    /\ pc = "run" /\ core1 = NoBlock
    /\ core1' = b
    /\ UNCHANGED <<poolVars, gate, advertise, board, boot, pc>>

EndTask ==
    /\ core1 # NoBlock
    /\ core1' = NoBlock
    /\ UNCHANGED <<poolVars, gate, advertise, board, boot, pc>>

-----------------------------------------------------------------------------
(* handle_amiga_reset *)

AmigaReset ==
    /\ pc = "run"
    /\ pc' = "enter"
    /\ UNCHANGED <<poolVars, gate, advertise, board, boot, core1>>

(***************************************************************************)
(* A firmware-update job stuck on core 1 is stopped first; any other task  *)
(* of core 1 goes on.  Then the gate closes.                               *)
(***************************************************************************)
CloseGate ==
    /\ pc = "enter"
    /\ pc' = "lent"
    /\ gate' = FALSE
    /\ core1' \in {core1, NoBlock}
    /\ UNCHANGED <<poolVars, advertise, board, boot>>

(***************************************************************************)
(* card_pool_has_lent; scheduler_quiesce_for_reset and, if core 1 does not *)
(* answer, core1_cold_restart: either way no task runs on core 1.          *)
(***************************************************************************)
HasLent == \E r \in Ranges : Revocable(r) /\ open[r]

(* Mutant: the window is taken back without stopping core 1.               *)
QuiesceNothing ==
    /\ pc = "lent"
    /\ pc' = IF HasLent THEN "take_back" ELSE "reload"
    /\ UNCHANGED <<poolVars, gate, advertise, board, boot, core1>>

Quiesce ==
    /\ pc = "lent"
    /\ IF HasLent
         THEN pc' = "take_back" /\ core1' = NoBlock
         ELSE pc' = "reload" /\ UNCHANGED core1
    /\ UNCHANGED <<poolVars, gate, advertise, board, boot>>

(***************************************************************************)
(* card_pool_take_back_lent: card_pool_revoke_range of every lent range.   *)
(***************************************************************************)
Lent(b) == \E r \in Ranges : Revocable(r) /\ open[r] /\ b \in InRange(r)
TakeBackLent ==
    /\ pc = "take_back"
    /\ pc' = "reload"
    /\ Remove({b \in blocks : Lent(b)})
    /\ open' = [r \in Ranges |-> open[r] /\ ~Revocable(r)]
    /\ UNCHANGED <<gate, advertise, board, boot, core1>>

(***************************************************************************)
(* zz_config_fastram_reload_warm: any outcome, the SD file may have been   *)
(* edited, removed or be unreadable.  The boot pass keeps main()'s one.    *)
(***************************************************************************)
Reload ==
    /\ pc = "reload"
    /\ pc' = "gate"
    /\ IF boot THEN UNCHANGED advertise ELSE advertise' \in BOOLEAN
    /\ boot' = FALSE
    /\ UNCHANGED <<poolVars, gate, board, core1>>

WriteGate ==
    /\ pc = "gate"
    /\ pc' = "modules"
    /\ gate' = CanAdvertise
    /\ UNCHANGED <<poolVars, advertise, board, boot, core1>>

(***************************************************************************)
(* The module resets; sdk_mailbox_init quiesces the scheduler.             *)
(***************************************************************************)
ResetModules ==
    /\ pc = "modules"
    /\ pc' = "release"
    /\ core1' = NoBlock
    /\ UNCHANGED <<poolVars, gate, advertise, board, boot>>

(***************************************************************************)
(* card_pool_finish_amiga_reset: release every class but FIRMWARE, then,   *)
(* in a section of its own, lend the window if the Amiga cannot use it.    *)
(***************************************************************************)
(* Mutant: every class is released.                                        *)
ReleaseEveryClass ==
    /\ pc = "release"
    /\ pc' = "lend"
    /\ Remove(blocks)
    /\ UNCHANGED <<open, gate, advertise, board, boot, core1>>

ReleaseAll ==
    /\ pc = "release"
    /\ pc' = "lend"
    /\ Remove({b \in blocks : ClassOf[b.owner] # "FIRMWARE"})
    /\ UNCHANGED <<open, gate, advertise, board, boot, core1>>

Lend ==
    /\ pc = "lend"
    /\ pc' = "run"
    /\ open' = IF Zorro3 /\ CanAdvertise
                 THEN open
                 ELSE [r \in Ranges |-> open[r] \/ Revocable(r)]
    /\ UNCHANGED <<blocks, used, gate, advertise, board, boot, core1>>

(***************************************************************************)
(* The services of both cores allocate and release at any time, inside the *)
(* reset handler too: core 1 runs on until a quiesce, and the module       *)
(* resets release what their sessions held.                                *)
(***************************************************************************)
Next ==
    \/ \E o \in Owners, size \in 1 .. MaxSize : Alloc(o, size)
    \/ \E o \in Owners, a \in Base .. End - 1 : Free(o, a)
    \/ \E o \in Owners : ReleaseOwner(o)
    \/ \E b \in blocks : StartTask(b)
    \/ EndTask
    \/ AmigaReset \/ CloseGate \/ Quiesce \/ TakeBackLent \/ Reload
    \/ WriteGate \/ ResetModules \/ ReleaseAll \/ Lend

Spec == Init /\ [][Next]_vars

-----------------------------------------------------------------------------
(* Properties *)

Apart(b, other) == Stop(b) <= other.addr \/ Stop(other) <= b.addr

(***************************************************************************)
(* No page is handed out twice, whatever mix of first-fit allocations,     *)
(* frees, revocations and resets came before (card_pool_alloc).            *)
(***************************************************************************)
BlocksDisjoint == \A b, other \in blocks : b # other => Apart(b, other)

(***************************************************************************)
(* Every live block lies wholly in one range that is open to it: no block  *)
(* outlives the revocation of its range, none crosses from the permanent   *)
(* pages into the window, and FIRMWARE and APP blocks never are in it.     *)
(***************************************************************************)
BlocksPlaced ==
    \A b \in blocks : \E r \in Ranges :
        /\ open[r]
        /\ Revocable(r) => ClassOf[b.owner] \notin {"FIRMWARE", "APP"}
        /\ RangeBase(r) <= b.addr /\ Stop(b) <= RangeEnd(r)

(***************************************************************************)
(* While the Amiga owns the window (gate open, Zorro III board) the ARM    *)
(* does not: the range is closed, holds no block, and no task of core 1    *)
(* still works in it (handle_amiga_reset's take-back before the gate).     *)
(***************************************************************************)
AmigaOwnsWindow == gate /\ Zorro3
WindowExclusive ==
    AmigaOwnsWindow =>
        /\ ~open["revocable"]
        /\ \A b \in blocks : Stop(b) <= Mid
        /\ core1 # NoBlock => Stop(core1) <= Mid

(***************************************************************************)
(* class_used is the exact sum of the class's live blocks and within its   *)
(* limit, so `class_limit - class_used` never wraps and a revocation or a  *)
(* reset gives back exactly what the class had been charged.               *)
(***************************************************************************)
AccountingExact ==
    \A c \in Classes : used[c] = Pages(InClass(c)) /\ used[c] <= Limit[c]

(***************************************************************************)
(* The queries the services trust before they touch memory agree with the  *)
(* pages: card_pool_range_owned answers yes exactly when one live block of *)
(* the owner covers the whole range, card_pool_block_owned when it starts  *)
(* there, and card_pool_range_free_bytes counts the pages in no block.     *)
(***************************************************************************)
QueriesExact ==
    /\ \A a \in Base .. End, length \in 1 .. (End - Base), o \in Owners :
         LET covering(b) == b.owner = o /\ b.addr <= a /\ a + length <= Stop(b) IN
         /\ RangeOwned(a, length, o) <=> \E b \in blocks : covering(b)
         /\ BlockOwned(a, length, o) <=> \E b \in blocks : covering(b) /\ b.addr = a
    /\ \A r \in Ranges :
         RangeFreeBytes(r) =
             IF open[r]
               THEN Cardinality({p \in RangeBase(r) .. RangeEnd(r) - 1 :
                                   \A b \in blocks : ~(b.addr <= p /\ p < Stop(b))})
               ELSE 0

(***************************************************************************)
(* First fit misses nothing: a range has a gap among find_gap's candidates *)
(* exactly when some run of `size` consecutive pages of it is free.        *)
(***************************************************************************)
FirstFitComplete ==
    \A r \in Ranges, size \in 1 .. MaxSize :
        Gaps(r, size) # {} <=>
            \E a \in RangeBase(r) .. RangeEnd(r) - size :
                \A b \in blocks : Stop(b) <= a \/ a + size <= b.addr

(***************************************************************************)
(* A step of the reset handler takes no page from a FIRMWARE owner: those  *)
(* allocations survive every Amiga reset (card_pool_finish_amiga_reset).   *)
(***************************************************************************)
FirmwareSurvives ==
    [][pc' # pc => \A b \in blocks : ClassOf[b.owner] = "FIRMWARE" => b \in blocks']_vars
=============================================================================
