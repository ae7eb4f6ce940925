----------------------------- MODULE LlScProofs -----------------------------
(***************************************************************************)
(* What holds of load-linked and store-conditional for every number of     *)
(* cores and every set of accesses, and of the loops that count with them. *)
(***************************************************************************)
EXTENDS LlScCounter, WellFoundedInduction, TLAPS

(* A set of natural numbers has a least element.                           *)
LEMMA Least ==
  ASSUME NEW T \in SUBSET Nat, T # {}
  PROVE  \E x \in T : \A y \in T : x <= y
<1>1. PICK x \in T : \A y \in T : ~(<<y, x>> \in OpToRel(<, Nat))
  BY NatLessThanWellFounded, WFMin
<1>2. \A y \in T : ~(y < x)
  BY <1>1 DEF OpToRel
<1> QED BY <1>2

(* The loop over the cores goes on with an enabled one.                    *)
LEMMA NextTurnEnabled == NextTurn \in Enabled
<1> DEFINE later == {c \in Enabled : c > turn}
<1>1. Enabled \subseteq Nat /\ 0 \in Enabled
  BY CoresAssumption DEF Cores
<1>2. CASE later = {}
  BY <1>1, <1>2 DEF NextTurn
<1>3. CASE later # {}
  <2>1. later \in SUBSET Nat
    BY <1>1
  <2> HIDE DEF later
  <2>2. \E c \in later : \A d \in later : c <= d
    BY <1>3, <2>1, Least
  <2>3. NextTurn = CHOOSE c \in later : \A d \in later : c <= d
    BY <1>3 DEF NextTurn, later
  <2>4. NextTurn \in later
    BY <2>2, <2>3
  <2> QED BY <2>4 DEF later
<1> QED BY <1>2, <1>3

(* An access touches the word its address lies in.                         *)
LEMMA FirstWord ==
  ASSUME NEW a \in Accesses
  PROVE  a.pa - (a.pa % 4) \in Touches(a)
<1> DEFINE p == a.pa
           r == a.pa % 4
           n == a.size
<1>1. p \in Nat /\ n \in Nat /\ n > 0
  BY AccessAssumption
<1>2. r \in 0 .. 3
  BY <1>1
<1>3. p - r < p + n
  <2> HIDE DEF p, r, n
  <2> QED BY <1>1, <1>2
<1> QED BY <1>3 DEF Touches

(* Accesses to one address touch a common word.                            *)
LEMMA SameAddress ==
  ASSUME NEW a \in Accesses, NEW b \in Accesses
  PROVE  a.pa = b.pa => Touches(a) \cap Touches(b) # {}
BY FirstWord
-----------------------------------------------------------------------------
(* The inductive invariant: a held lock names the last link, a link that   *)
(* nothing broke is held, and no other of an exclusive access is.           *)
LockInv ==
  /\ TypeOK
  /\ LockNamesLink
  /\ NoSpuriousLoss
  /\ \A c \in lock : Exclusive(link[c]) => intact[c]

(* What a write at a.pa by lock_write does to the invariant, whichever     *)
(* core gives up its own lock with it.                                     *)
LEMMA WriteInv ==
  ASSUME LockInv, NEW a \in Accesses, NEW also \in SUBSET Cores,
         LockWrite(a.pa, also), Disturb(Touches(a), also), UNCHANGED link,
         turn' \in Enabled
  PROVE  LockInv'
<1>1. TypeOK'
  BY AccessAssumption DEF LockInv, TypeOK, LockWrite, Disturb, Holders
<1>2. \A d \in lock' : d \in lock /\ d \in Cores /\ d \notin also
                       /\ lockAddr[d] # a.pa /\ lockAddr'[d] = lockAddr[d]
  BY DEF LockInv, TypeOK, LockWrite, Holders
<1>3. LockNamesLink'
  BY <1>2 DEF LockInv, LockNamesLink
<1>4. ASSUME NEW d \in Cores, intact'[d] PROVE d \in lock'
  <2>1. intact[d] /\ Touches(link[d]) \cap Touches(a) = {} /\ d \notin also
    BY <1>4 DEF Disturb
  <2>2. d \in lock /\ link[d] \in Accesses /\ lockAddr[d] = link[d].pa
    BY <2>1 DEF LockInv, NoSpuriousLoss, LockNamesLink, Links
  <2>3. lockAddr[d] # a.pa
    BY <2>1, <2>2, SameAddress
  <2> QED BY <2>1, <2>2, <2>3 DEF LockWrite, Holders
<1>5. ASSUME NEW d \in lock', Exclusive(link[d]) PROVE intact'[d]
  <2>1. intact[d] /\ link[d] \in Accesses /\ lockAddr[d] = link[d].pa
    BY <1>2, <1>5 DEF LockInv, LockNamesLink, Links
  <2>2. Touches(link[d]) \cap Touches(a) = {}
    BY <1>2, <1>5, <2>1 DEF Exclusive
  <2> QED BY <1>2, <2>1, <2>2 DEF Disturb
<1> QED BY <1>1, <1>3, <1>4, <1>5 DEF LockInv, NoSpuriousLoss

(* A core that gives up its own lock.                                      *)
LEMMA GiveUpInv ==
  ASSUME LockInv, NEW c \in Cores, lock' = lock \ {c}, Disturb({}, {c}),
         UNCHANGED link, turn' \in Enabled,
         lockAddr' \in [Cores -> Nat], \A d \in Cores \ {c} : lockAddr'[d] = lockAddr[d]
  PROVE  LockInv'
<1>1. TypeOK'
  BY DEF LockInv, TypeOK, Disturb
<1>2. LockNamesLink'
  BY DEF LockInv, TypeOK, LockNamesLink
<1>3. \A d \in Cores : intact'[d] <=> intact[d] /\ d # c
  BY DEF Disturb
<1> QED BY <1>1, <1>2, <1>3 DEF LockInv, TypeOK, NoSpuriousLoss

LEMMA LoadLinkedInv ==
  ASSUME LockInv, NEW c \in Cores, NEW a \in Links, LoadLinked(c, a)
  PROVE  LockInv'
<1>1. a.pa \in Nat /\ turn' \in Enabled
  BY AccessAssumption, NextTurnEnabled DEF LoadLinked, Step, Links
<1>2. TypeOK'
  BY <1>1 DEF LockInv, TypeOK, LoadLinked
<1> QED BY <1>2 DEF LockInv, TypeOK, LoadLinked, LockNamesLink, NoSpuriousLoss

LEMMA InstructionInv ==
  ASSUME LockInv, NEW c \in Cores, Instruction(c)
  PROVE  LockInv'
<1>1. turn' \in Enabled
  BY NextTurnEnabled
  DEF Instruction, LoadLinked, StoreConditional, StoreConditionalFails, Store,
      DiskRead, Eret, Other, Step
<1>2. ASSUME NEW a \in Links, LoadLinked(c, a) PROVE LockInv'
  BY <1>2, LoadLinkedInv
<1>3. ASSUME NEW a \in Links, StoreConditional(c, a) PROVE LockInv'
  BY <1>1, <1>3, WriteInv DEF StoreConditional, Links
<1>4. ASSUME NEW a \in Accesses, Store(c, a) PROVE LockInv'
  BY <1>1, <1>4, WriteInv DEF Store
<1>5. CASE StoreConditionalFails(c) \/ Eret(c)
  BY <1>1, <1>5, GiveUpInv DEF StoreConditionalFails, Eret, LockInv, TypeOK
<1>6. ASSUME NEW words \in DiskBlocks, DiskRead(c, words) PROVE LockInv'
  <2>1. TypeOK' /\ LockNamesLink'
    BY <1>1, <1>6 DEF DiskRead, LockInv, TypeOK, LockNamesLink, Disturb
  <2>2. NoSpuriousLoss'
    BY <1>6 DEF DiskRead, LockInv, NoSpuriousLoss, Disturb
  <2>3. ASSUME NEW d \in lock', Exclusive(link[d]) PROVE intact'[d]
    <3>1. d \in lock /\ d \in Cores /\ intact[d] /\ link[d] \in Accesses
      BY <1>6, <2>3 DEF DiskRead, LockInv, TypeOK, LockNamesLink, Links
    <3>2. Touches(link[d]) \cap words = {}
      BY <2>3, <3>1 DEF Exclusive
    <3> QED BY <1>6, <3>1, <3>2 DEF DiskRead, Disturb
  <2> QED BY <1>6, <2>1, <2>2, <2>3 DEF LockInv, DiskRead
<1>7. CASE Other(c)
  BY <1>1, <1>7 DEF Other, LockInv, TypeOK, LockNamesLink, NoSpuriousLoss, history
<1> QED BY <1>2, <1>3, <1>4, <1>5, <1>6, <1>7 DEF Instruction

LEMMA NextInv ==
  ASSUME LockInv, [Next]_vars
  PROVE  LockInv'
<1>1. ASSUME NEW c \in Cores, Instruction(c) PROVE LockInv'
  BY <1>1, InstructionInv
<1>2. ASSUME NEW c \in Cores, Reset(c) PROVE LockInv'
  BY <1>2, GiveUpInv, CoresAssumption DEF Reset, LockInv, TypeOK
<1>3. CASE UNCHANGED vars
  BY <1>3 DEF vars, LockInv, TypeOK, LockNamesLink, NoSpuriousLoss
<1> QED BY <1>1, <1>2, <1>3 DEF Next

LEMMA InitInv == Init => LockInv
BY CoresAssumption
DEF Init, LockInv, TypeOK, LockNamesLink, NoSpuriousLoss

THEOREM LockInvariant == Spec => []LockInv
<1>1. LockInv /\ [Next]_vars => LockInv'
  BY NextInv
<1> QED BY <1>1, InitInv, PTL DEF Spec

(* A core whose link is exclusive holds its lock exactly as long as the    *)
(* link is intact.                                                         *)
THEOREM LockSound == Spec => []LockIffIntact
<1>1. LockInv => LockIffIntact
  BY DEF LockInv, TypeOK, LockIffIntact, NoSpuriousLoss
<1> QED BY <1>1, LockInvariant, PTL

(* In all programs no lock is lost without a write to the link.            *)
THEOREM NoLossSound == Spec => []NoSpuriousLoss
<1>1. LockInv => NoSpuriousLoss
  BY DEF LockInv
<1> QED BY <1>1, LockInvariant, PTL

(* The variables of the locks keep their types.                            *)
THEOREM LockTyped == Spec => []TypeOK
<1>1. LockInv => TypeOK
  BY DEF LockInv
<1> QED BY <1>1, LockInvariant, PTL
-----------------------------------------------------------------------------
(* The inductive invariant of the counting loops.  Outside handlers a lock *)
(* a loop holds is the counter's; a core that has something to store has an*)
(* increment left.                                                         *)
ProgramTypeOK ==
  /\ mem \in Nat /\ reg \in [Cores -> Nat]
  /\ pc \in [Cores -> {"LL", "ADDIU", "SC", "BEQZ", "NOP", "done", "guest"}]
  /\ left \in [Cores -> Nat]
  /\ handler \in [Cores -> {"none", "LL", "SC", "ERET"}]
  /\ exceptions \in [Cores -> Nat]

GuestsIdle == \A c \in Guests : pc[c] = "guest" /\ handler[c] = "none"

LockIsCounter ==
  \A c \in Cores \ Guests : handler[c] = "none" /\ c \in lock => link[c] = Counter

WorkLeft ==
  \A c \in Cores :
    \/ pc[c] \in {"LL", "ADDIU", "SC"}
    \/ pc[c] \in {"BEQZ", "NOP"} /\ reg[c] = 0
    => left[c] > 0

LoopInv ==
  LockInv /\ ProgramTypeOK /\ GuestsIdle /\ ReadIsCurrent /\ LockIsCounter /\ WorkLeft

LEMMA OtherAddress ==
  /\ Counter \in Links /\ KernelWord \in Links
  /\ Counter.pa # KernelWord.pa
<1>1. Counter \in Links /\ KernelWord \in Links
  BY CounterAssumption
<1>2. Counter \in Accesses /\ KernelWord \in Accesses
  BY <1>1 DEF Links
<1> QED BY <1>1, <1>2, SameAddress, CounterAssumption

LEMMA ProgramLock ==
  ASSUME LockInv, [ProgramNext]_allVars
  PROVE  LockInv'
<1>1. ASSUME NEW c \in Cores, ProgramStep(c) PROVE Instruction(c)
  BY <1>1, OtherAddress
  DEF ProgramStep, DoLL, DoADDIU, DoSC, DoSCFails, DoBEQZ, DoNOP, Done, Exception,
      HandlerLL, HandlerSC, HandlerERET, Instruction
<1>2. ASSUME NEW c \in Cores, GuestStep(c) PROVE Instruction(c)
  BY <1>2 DEF GuestStep, Instruction, Elsewhere
<1>3. ASSUME NEW c \in Cores, GuestReset(c) PROVE Reset(c)
  BY <1>3 DEF GuestReset
<1>4. [Next]_vars
  <2>1. CASE UNCHANGED allVars
    BY <2>1 DEF allVars
  <2>2. CASE ProgramNext
    BY <1>1, <1>2, <1>3, <2>2 DEF ProgramNext, Next
  <2> QED BY <2>1, <2>2
<1> QED BY <1>4, NextInv

LEMMA LoopInit == ProgramInit => LoopInv
<1> SUFFICES ASSUME ProgramInit PROVE LoopInv
  OBVIOUS
<1>1. LockInv
  BY InitInv DEF ProgramInit
<1>2. ProgramTypeOK
  BY CounterAssumption DEF ProgramInit, ProgramTypeOK
<1> QED BY <1>1, <1>2, CounterAssumption
        DEF ProgramInit, Init, LoopInv, GuestsIdle, ReadIsCurrent, LockIsCounter, WorkLeft

(* The store of the loop: whoever else had read the counter loses the lock.*)
LEMMA SCStep ==
  ASSUME LoopInv, NEW c \in Cores, DoSC(c)
  PROVE  /\ ProgramTypeOK' /\ GuestsIdle' /\ ReadIsCurrent'
         /\ LockIsCounter' /\ WorkLeft'
         /\ Atomic!Increment(c)
<1>1. c \in lock /\ handler[c] = "none" /\ pc[c] = "SC" /\ link[c] = Counter
      /\ lockAddr[c] = Counter.pa /\ c \notin Guests
  BY DEF LoopInv, GuestsIdle, LockIsCounter, LockInv, LockNamesLink, DoSC, InLoop, StoreConditional
<1>2. reg[c] = mem + 1 /\ left[c] > 0 /\ left[c] \in Nat /\ mem \in Nat
  BY <1>1 DEF LoopInv, WorkLeft, ReadIsCurrent, ProgramTypeOK
<1>3. /\ mem' = reg[c] /\ reg' = [reg EXCEPT ![c] = 1]
      /\ left' = [left EXCEPT ![c] = @ - 1] /\ pc' = [pc EXCEPT ![c] = "BEQZ"]
      /\ handler' = handler /\ exceptions' = exceptions /\ link' = link
  BY DEF DoSC, StoreConditional
<1>4. \A d \in lock' : d \in lock /\ d # c /\ lockAddr'[d] = lockAddr[d]
                       /\ lockAddr[d] # Counter.pa /\ d \in Cores
  BY DEF DoSC, StoreConditional, LockWrite, Holders, LoopInv, LockInv, TypeOK
<1>5. ProgramTypeOK' /\ GuestsIdle'
  BY <1>1, <1>2, <1>3 DEF LoopInv, ProgramTypeOK, GuestsIdle
<1>6. ReadIsCurrent'
  BY <1>4 DEF ReadIsCurrent
<1>7. LockIsCounter'
  BY <1>3, <1>4 DEF LoopInv, LockIsCounter
<1>8. WorkLeft'
  BY <1>3 DEF LoopInv, WorkLeft, ProgramTypeOK
<1>9. Atomic!Increment(c)
  BY <1>2, <1>3 DEF Atomic!Increment
<1> QED BY <1>5, <1>6, <1>7, <1>8, <1>9

(* Every other step leaves the counter and the increments left as they are.*)
LEMMA QuietStep ==
  ASSUME LoopInv, NEW c \in Cores, ProgramStep(c), ~DoSC(c)
  PROVE  /\ ProgramTypeOK' /\ GuestsIdle' /\ ReadIsCurrent'
         /\ LockIsCounter' /\ WorkLeft'
         /\ UNCHANGED <<mem, left>>
<1> USE OtherAddress DEF LoopInv, ProgramTypeOK, GuestsIdle, ReadIsCurrent,
                         LockIsCounter, WorkLeft, LockInv, TypeOK, InLoop
<1>1. CASE DoLL(c)
  BY <1>1 DEF DoLL, LoadLinked
<1>2. CASE DoADDIU(c)
  BY <1>2 DEF DoADDIU, Other, history
<1>3. CASE DoSCFails(c)
  BY <1>3 DEF DoSCFails, StoreConditionalFails
<1>4. CASE DoBEQZ(c)
  BY <1>4 DEF DoBEQZ, Other, history
<1>9. CASE DoNOP(c)
  BY <1>9 DEF DoNOP, Other, history
<1>10. CASE Done(c)
  BY <1>10 DEF Done, Other, history, program
<1>5. CASE Exception(c)
  BY <1>5 DEF Exception, Other, history
<1>6. CASE HandlerLL(c)
  <2>0. PICK h \in {"SC", "ERET"} : handler' = [handler EXCEPT ![c] = h]
    BY <1>6 DEF HandlerLL
  <2>1. c \notin Guests /\ handler' \in [Cores -> {"none", "LL", "SC", "ERET"}]
        /\ handler'[c] # "none" /\ (\A d \in Cores \ {c} : handler'[d] = handler[d])
        /\ UNCHANGED <<mem, reg, pc, left, exceptions>>
    BY <1>6, <2>0 DEF HandlerLL
  <2>2. lock' = lock \cup {c} /\ lockAddr' = [lockAddr EXCEPT ![c] = KernelWord.pa]
        /\ link' = [link EXCEPT ![c] = KernelWord]
    BY <1>6 DEF HandlerLL, LoadLinked
  <2>3. ProgramTypeOK' /\ GuestsIdle' /\ WorkLeft'
    BY <2>1, CounterAssumption
  <2>4. ReadIsCurrent' /\ LockIsCounter'
    BY <2>1, <2>2
  <2> QED BY <2>1, <2>3, <2>4
<1>7. CASE HandlerSC(c)
  <2>1. CASE StoreConditional(c, KernelWord) /\ handler' = [handler EXCEPT ![c] = "ERET"]
    BY <1>7, <2>1 DEF HandlerSC, StoreConditional, LockWrite, Holders
  <2>2. CASE StoreConditionalFails(c) /\ handler' = [handler EXCEPT ![c] = "LL"]
    BY <1>7, <2>2 DEF HandlerSC, StoreConditionalFails
  <2> QED BY <1>7, <2>1, <2>2 DEF HandlerSC
<1>8. CASE HandlerERET(c)
  BY <1>8 DEF HandlerERET, Eret
<1> QED BY <1>1, <1>2, <1>3, <1>4, <1>5, <1>6, <1>7, <1>8,
        <1>9, <1>10 DEF ProgramStep

(* A guest leaves the program alone: its stores break no lock that a core  *)
(* of the loops needs to know of.                                          *)
LEMMA GuestQuiet ==
  ASSUME LoopInv, NEW c \in Cores, GuestStep(c) \/ GuestReset(c)
  PROVE  /\ ProgramTypeOK' /\ GuestsIdle' /\ ReadIsCurrent'
         /\ LockIsCounter' /\ WorkLeft'
         /\ UNCHANGED <<mem, left>>
<1>1. c \in Guests /\ UNCHANGED <<mem, reg, pc, left, handler>>
  BY DEF GuestStep, GuestReset, program
<1>2. \A d \in lock' \ Guests : d \in lock /\ link'[d] = link[d] /\ lockAddr'[d] = lockAddr[d]
  <2>1. ASSUME NEW a \in Links, LoadLinked(c, a)
        PROVE  \A d \in lock' \ {c} :
                 d \in lock /\ link'[d] = link[d] /\ lockAddr'[d] = lockAddr[d]
    BY <2>1 DEF LoadLinked, LoopInv, LockInv, TypeOK
  <2>2. ASSUME NEW a \in Accesses, Store(c, a) \/ StoreConditional(c, a)
        PROVE  \A d \in lock' :
                 d \in lock /\ link'[d] = link[d] /\ lockAddr'[d] = lockAddr[d]
    BY <2>2 DEF Store, StoreConditional, LockWrite, Holders, LoopInv, LockInv, TypeOK
  <2>3. ASSUME StoreConditionalFails(c) \/ Eret(c) \/ Reset(c)
        PROVE  \A d \in lock' :
                 d \in lock /\ link'[d] = link[d] /\ lockAddr'[d] = lockAddr[d]
    BY <2>3 DEF StoreConditionalFails, Eret, Reset, LoopInv, LockInv, TypeOK
  <2>4. ASSUME NEW words \in DiskBlocks, DiskRead(c, words) PROVE UNCHANGED <<lock, link, lockAddr>>
    BY <2>4 DEF DiskRead
  <2>5. ASSUME Other(c) PROVE UNCHANGED <<lock, link, lockAddr>>
    BY <2>5 DEF Other, history
  <2> QED BY <1>1, <2>1, <2>2, <2>3, <2>4, <2>5 DEF GuestStep, GuestReset, Elsewhere, Links
<1>3. ProgramTypeOK' /\ GuestsIdle' /\ WorkLeft'
  BY <1>1 DEF LoopInv, ProgramTypeOK, GuestsIdle, WorkLeft, GuestStep, GuestReset, program
<1>4. ReadIsCurrent'
  <2> SUFFICES ASSUME NEW d \in Cores \ Guests, d \in lock', lockAddr'[d] = Counter.pa
               PROVE  /\ pc[d] = "ADDIU" => reg[d] = mem
                      /\ pc[d] = "SC" => reg[d] = mem + 1
    BY <1>1 DEF ReadIsCurrent, LoopInv, GuestsIdle
  <2> QED BY <1>2 DEF LoopInv, ReadIsCurrent
<1>5. LockIsCounter'
  BY <1>1, <1>2 DEF LoopInv, LockIsCounter
<1> QED BY <1>1, <1>3, <1>4, <1>5

LEMMA LoopStep ==
  ASSUME LoopInv, [ProgramNext]_allVars
  PROVE  LoopInv' /\ [Atomic!Next]_<<mem, left>>
<1>1. LockInv'
  BY ProgramLock DEF LoopInv
<1>2. ASSUME NEW c \in Cores, DoSC(c) PROVE LoopInv' /\ [Atomic!Next]_<<mem, left>>
  BY <1>1, <1>2, SCStep DEF LoopInv, Atomic!Next
<1>3. ASSUME NEW c \in Cores, ProgramStep(c), ~DoSC(c)
      PROVE  LoopInv' /\ [Atomic!Next]_<<mem, left>>
  BY <1>1, <1>3, QuietStep DEF LoopInv
<1>4. ASSUME NEW c \in Cores, GuestStep(c) \/ GuestReset(c)
      PROVE  LoopInv' /\ [Atomic!Next]_<<mem, left>>
  BY <1>1, <1>4, GuestQuiet DEF LoopInv
<1>5. CASE UNCHANGED allVars
  BY <1>1, <1>5
     DEF allVars, vars, program, LoopInv, ProgramTypeOK, GuestsIdle, ReadIsCurrent,
         LockIsCounter, WorkLeft
<1> QED BY <1>2, <1>3, <1>4, <1>5 DEF ProgramNext

(* A core about to store with the lock of the counter has read the         *)
(* counter's present value.                                                *)
THEOREM ReadSound == ProgramSpec => []ReadIsCurrent
<1>1. LoopInv => ReadIsCurrent
  BY DEF LoopInv
<1>2. LoopInv /\ [ProgramNext]_allVars => LoopInv'
  BY LoopStep
<1> QED BY <1>1, <1>2, LoopInit, PTL DEF ProgramSpec

(* The LL/SC loops of any number of cores, with exceptions at any point,   *)
(* implement the atomic counter.                                           *)
THEOREM CounterImplements == ProgramSpec => Implements
<1>1. ProgramInit => Atomic!Init
  BY DEF ProgramInit, Atomic!Init
<1>2. LoopInv /\ [ProgramNext]_allVars => LoopInv' /\ [Atomic!Next]_(Atomic!vars)
  BY LoopStep DEF Atomic!vars
<1> QED BY <1>1, <1>2, LoopInit, PTL DEF ProgramSpec, Implements, Atomic!Spec
-----------------------------------------------------------------------------
(* Outside its handlers a loop loses its lock to an increment alone.       *)
LosesToIncrement ==
  \A c \in Cores \ Guests :
    c \in lock /\ handler[c] = "none" /\ handler'[c] = "none"
      => c \in lock' \/ mem' = mem + 1

(* A store to another word takes nobody's lock of the counter.             *)
LEMMA StoreElsewhere ==
  ASSUME LoopInv, NEW a \in Accesses, a.pa # Counter.pa, NEW also, LockWrite(a.pa, also),
         NEW d \in Cores \ Guests, d \in lock, handler[d] = "none", d \notin also
  PROVE  d \in lock'
<1>1. lockAddr[d] = Counter.pa
  BY DEF LoopInv, LockIsCounter, LockInv, LockNamesLink
<1> QED BY <1>1 DEF LockWrite, Holders

LEMMA QuietLock ==
  ASSUME LoopInv, NEW c \in Cores, ProgramStep(c), ~DoSC(c),
         NEW d \in Cores \ Guests, d \in lock, handler[d] = "none", handler'[d] = "none"
  PROVE  d \in lock'
<1>1. CASE DoLL(c)
  BY <1>1 DEF DoLL, LoadLinked
<1>2. CASE DoADDIU(c) \/ DoBEQZ(c) \/ DoNOP(c) \/ Done(c) \/ Exception(c)
  BY <1>2 DEF DoADDIU, DoBEQZ, DoNOP, Done, Exception, Other
<1>3. CASE DoSCFails(c)
  BY <1>3 DEF DoSCFails, StoreConditionalFails
<1>4. CASE HandlerLL(c)
  BY <1>4 DEF HandlerLL, LoadLinked
<1>5. CASE HandlerSC(c)
  <2>1. d # c
    BY <1>5 DEF HandlerSC
  <2>2. CASE StoreConditional(c, KernelWord)
    BY <2>1, <2>2, OtherAddress, StoreElsewhere DEF StoreConditional, Links
  <2>3. CASE StoreConditionalFails(c)
    BY <2>1, <2>3 DEF StoreConditionalFails
  <2> QED BY <1>5, <2>2, <2>3 DEF HandlerSC
<1>6. CASE HandlerERET(c)
  <2>1. d # c
    BY <1>6 DEF HandlerERET
  <2> QED BY <1>6, <2>1 DEF HandlerERET, Eret
<1> QED BY <1>1, <1>2, <1>3, <1>4, <1>5, <1>6 DEF ProgramStep

LEMMA GuestLock ==
  ASSUME LoopInv, NEW c \in Cores, GuestStep(c) \/ GuestReset(c),
         NEW d \in Cores \ Guests, d \in lock, handler[d] = "none"
  PROVE  d \in lock'
<1>1. d # c
  BY DEF GuestStep, GuestReset
<1>2. ASSUME NEW a \in Elsewhere PROVE a \in Accesses /\ a.pa # Counter.pa
  <2>1. a \in Accesses /\ Touches(a) \cap Touches(Counter) = {}
    BY DEF Elsewhere, Shared
  <2>2. a.pa # Counter.pa
    <3>1. Counter \in Accesses
      BY OtherAddress DEF Links
    <3> QED BY <2>1, <3>1, FirstWord
  <2> QED BY <2>1, <2>2
<1>3. ASSUME NEW a \in Elsewhere, StoreConditional(c, a) \/ Store(c, a) PROVE d \in lock'
  BY <1>1, <1>2, <1>3, StoreElsewhere DEF StoreConditional, Store
<1>4. ASSUME NEW a, LoadLinked(c, a) PROVE d \in lock'
  BY <1>4 DEF LoadLinked
<1>5. CASE StoreConditionalFails(c) \/ Eret(c) \/ Reset(c)
  BY <1>1, <1>5 DEF StoreConditionalFails, Eret, Reset
<1>6. ASSUME NEW words, DiskRead(c, words) PROVE d \in lock'
  BY <1>6 DEF DiskRead
<1>7. CASE Other(c)
  BY <1>7 DEF Other
<1> QED BY <1>3, <1>4, <1>5, <1>6, <1>7 DEF GuestStep, GuestReset

(* A loop whose SC fails has been interrupted since its LL, or another     *)
(* loop has incremented the counter in between: neither the handlers'      *)
(* locks nor what the guests store, link or read from the disk takes the   *)
(* lock from it.  So the loops cannot hinder each other without getting    *)
(* on, which AllFinish rests on.                                           *)
THEOREM LossIsIncrement == ProgramSpec => [][LosesToIncrement]_allVars
<1>1. ASSUME LoopInv, [ProgramNext]_allVars PROVE [LosesToIncrement]_allVars
  <2>1. ASSUME NEW c \in Cores, DoSC(c) PROVE LosesToIncrement
    BY <1>1, <2>1, SCStep DEF LosesToIncrement, Atomic!Increment
  <2>2. ASSUME NEW c \in Cores, ProgramStep(c), ~DoSC(c) PROVE LosesToIncrement
    BY <1>1, <2>2, QuietLock DEF LosesToIncrement
  <2>3. ASSUME NEW c \in Cores, GuestStep(c) \/ GuestReset(c) PROVE LosesToIncrement
    BY <1>1, <2>3, GuestLock DEF LosesToIncrement
  <2> QED BY <1>1, <2>1, <2>2, <2>3 DEF ProgramNext
<1>2. LoopInv /\ [ProgramNext]_allVars => LoopInv'
  BY LoopStep
<1> QED BY <1>1, <1>2, LoopInit, PTL DEF ProgramSpec
=============================================================================
