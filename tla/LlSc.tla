-------------------------------- MODULE LlSc --------------------------------
(***************************************************************************)
(* Load-linked and store-conditional over the memory the cores share       *)
(* (sc1_mem.c, lock_set to lock_write, and the LL, LLD, SC and SCD cases   *)
(* of cpu_one_inst).  The main loop sim_instr runs one instruction of      *)
(* every enabled core in turn; a step here is one instruction.             *)
(*                                                                         *)
(* Data is left out: what matters of a write is which 32-bit words it      *)
(* touches and the physical address lock_write is given.  So are           *)
(* lock_try and lock_last, which only count towards a warning.             *)
(***************************************************************************)
EXTENDS Integers, FiniteSets

CONSTANTS
  NumCores,     \* NUM_CORES
  Enabled,      \* the cores that are not disabled
  Accesses,     \* the aligned memory accesses of the programs: [pa, size]
  DiskBlocks    \* the sets of words a disk read replaces

Cores == 0 .. NumCores - 1

(* The 32-bit words an access touches.                                     *)
Touches(a) == {w \in {a.pa - (a.pa % 4), a.pa + 4} : w < a.pa + a.size}

Links == {a \in Accesses : a.size \in {4, 8}}

(* sim_instr calls cpu_one_inst for core 0 whatever its state.             *)
ASSUME CoresAssumption ==
  /\ NumCores \in Nat \ {0}
  /\ Enabled \subseteq Cores /\ 0 \in Enabled

ASSUME AccessAssumption ==
  /\ Accesses \subseteq [pa : Nat, size : {1, 2, 4, 8}]
  /\ \A a \in Accesses : a.pa % a.size = 0

(* What touches the words of the access has its address, and no disk read  *)
(* replaces them: an exact comparison of addresses then suffices.          *)
Exclusive(a) ==
  /\ \A b \in Accesses : Touches(a) \cap Touches(b) # {} => a.pa = b.pa
  /\ \A d \in DiskBlocks : Touches(a) \cap d = {}

VARIABLES
  lock,         \* global_lock, as the set of cores whose bit is set
  lockAddr,     \* lock_addr
  turn,         \* the core whose instruction is next
  link,         \* history: the access of the core's last LL,
  intact        \*   and whether nothing has broken it since

vars == <<lock, lockAddr, turn, link, intact>>
history == <<link, intact>>

NoLink == [pa |-> 0, size |-> 0]

(* Mutant of NextTurn: the last core does not run.                         *)
NextTurnShort ==
  LET later == {c \in Enabled : c > turn /\ c < NumCores - 1}
  IN IF later = {} THEN 0 ELSE CHOOSE c \in later : \A d \in later : c <= d

(* The next enabled core of the loop, and after the last one core 0.       *)
NextTurn ==
  LET later == {c \in Enabled : c > turn}
  IN IF later = {} THEN 0 ELSE CHOOSE c \in later : \A d \in later : c <= d

Step(c) == c = turn /\ turn' = NextTurn

(* Mutant of Holders: only the first core's lock is broken.               *)
HoldersFirst(pa) ==
  {c \in lock : lockAddr[c] = pa /\ \A d \in lock : lockAddr[d] = pa => c <= d}

(* Mutant of Holders: a write to a neighbouring word counts as well.       *)
HoldersNear(pa) == {c \in lock : lockAddr[c] - pa \in -4 .. 4}

(* lock_write: the cores whose lock a write at pa breaks.                  *)
Holders(pa) == {c \in lock : lockAddr[c] = pa}

LockWrite(pa, also) ==
  /\ lock' = lock \ (Holders(pa) \cup also)
  /\ lockAddr' = [c \in Cores |-> IF c \in Holders(pa) THEN 0 ELSE lockAddr[c]]

(* History: a write of these words breaks the links to any of them.        *)
Disturb(words, also) ==
  intact' = [c \in Cores |->
               intact[c] /\ Touches(link[c]) \cap words = {} /\ c \notin also]
-----------------------------------------------------------------------------
(* LL, LLD: lock_set, after a load that raised no trap.                    *)
LoadLinked(c, a) ==
  /\ Step(c)
  /\ lock' = lock \cup {c}
  /\ lockAddr' = [lockAddr EXCEPT ![c] = a.pa]
  /\ link' = [link EXCEPT ![c] = a]
  /\ intact' = [intact EXCEPT ![c] = TRUE]

(* SC, SCD with the lock held: the store, if it raises no trap.            *)
StoreConditional(c, a) ==
  /\ Step(c) /\ c \in lock
  /\ LockWrite(a.pa, {c})
  /\ Disturb(Touches(a), {c})
  /\ UNCHANGED link

(* SC, SCD without it, or trapped by a misaligned or untranslatable        *)
(* address: nothing is stored, and the lock is cleared.                    *)
StoreConditionalFails(c) ==
  /\ Step(c)
  /\ lock' = lock \ {c}
  /\ Disturb({}, {c})
  /\ UNCHANGED <<lockAddr, link>>

(* Any other store of a core: WritePB, WritePH, WritePW, WritePD.          *)
Store(c, a) ==
  /\ Step(c)
  /\ LockWrite(a.pa, {})
  /\ Disturb(Touches(a), {})
  /\ UNCHANGED link

(* A store to the disk's command register: disk_docmd reads the disk into  *)
(* memory, past lock_write.                                                *)
DiskRead(c, words) ==
  /\ Step(c)
  /\ Disturb(words, {})
  /\ UNCHANGED <<lock, lockAddr, link>>

(* Mutant of Eret: the lock is kept.                                       *)
EretKeepsLock(c) ==
  /\ Step(c)
  /\ Disturb({}, {c})
  /\ UNCHANGED <<lock, lockAddr, link>>

(* ERET clears the lock; an exception itself does not.                     *)
Eret(c) ==
  /\ Step(c)
  /\ lock' = lock \ {c}
  /\ Disturb({}, {c})
  /\ UNCHANGED <<lockAddr, link>>

(* An instruction that neither stores nor locks, an exception, a core that *)
(* sleeps.                                                                 *)
Other(c) ==
  /\ Step(c)
  /\ UNCHANGED <<lock, lockAddr, history>>

(* cpu_reset of one core, from the console between two rounds: lock_reset. *)
Reset(c) ==
  /\ lock' = lock \ {c}
  /\ lockAddr' = [lockAddr EXCEPT ![c] = 0]
  /\ Disturb({}, {c})
  /\ turn' = 0
  /\ UNCHANGED link
-----------------------------------------------------------------------------
Init ==
  /\ lock = {} /\ lockAddr = [c \in Cores |-> 0]
  /\ turn = 0
  /\ link = [c \in Cores |-> NoLink]
  /\ intact = [c \in Cores |-> FALSE]

Instruction(c) ==
  \/ \E a \in Links : LoadLinked(c, a) \/ StoreConditional(c, a)
  \/ StoreConditionalFails(c)
  \/ \E a \in Accesses : Store(c, a)
  \/ \E words \in DiskBlocks : DiskRead(c, words)
  \/ Eret(c)
  \/ Other(c)

Next == \E c \in Cores : Instruction(c) \/ Reset(c)

Spec == Init /\ [][Next]_vars
-----------------------------------------------------------------------------
TypeOK ==
  /\ lock \subseteq Cores
  /\ lockAddr \in [Cores -> Nat]
  /\ turn \in Enabled
  /\ link \in [Cores -> Links \cup {NoLink}]
  /\ intact \in [Cores -> BOOLEAN]

(* A core that linked an address used in one size alone holds its lock     *)
(* exactly as long as nothing, of any core, has written there and it has   *)
(* neither stored conditionally nor returned from an exception: no SC      *)
(* stores over a lost link, and none fails without a reason.               *)
LockIffIntact ==
  \A c \in Cores : Exclusive(link[c]) => (c \in lock <=> intact[c])

(* Whatever the accesses, no link is lost to a write elsewhere.            *)
NoSpuriousLoss == \A c \in Cores : intact[c] => c \in lock

(* A held lock names the address the core linked last.                     *)
LockNamesLink == \A c \in lock : link[c] \in Links /\ lockAddr[c] = link[c].pa
=============================================================================
