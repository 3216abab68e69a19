--------------------------- MODULE MachineProofs ---------------------------
(***************************************************************************)
(* What the machine keeps to for programs, memories and registers of any   *)
(* size, whatever ^ and | do to a word.                                    *)
(***************************************************************************)
EXTENDS Machine, SequenceTheorems, TLAPS

-----------------------------------------------------------------------------
(* Words. *)

LEMMA WordSize == Half * Half \in Nat /\ Half * Half >= 16 /\ Half * Half >= 2 * Half
  BY IsaAssumption

\* The low half of a word is an address, and the high half is one too.
LEMMA Halves ==
  ASSUME NEW x \in Nat
  PROVE  /\ x % Half \in Location
         /\ x % Half \in Word
         /\ x \in Word => x \div Half \in Word
  <1>1. x % Half \in Location
    BY IsaAssumption DEF Location
  <1>2. \A y \in Location : y \in Word
    BY WordSize, IsaAssumption DEF Location, Word
  <1>3. x \div Half \in Nat /\ x \div Half <= x
    BY IsaAssumption
  <1> QED
    BY <1>1, <1>2, <1>3, WordSize DEF Word

\* Two half-words make a word.
LEMMA TwoHalves ==
  ASSUME NEW hi \in Nat, NEW lo \in Nat
  PROVE  (hi % Half) * Half + (lo % Half) \in Word
  <1> DEFINE h == hi % Half
             l == lo % Half
  <1>1. h \in 0..Half - 1 /\ l \in 0..Half - 1
    BY IsaAssumption
  <1> HIDE DEF h, l
  <1>2. h * Half + l \in 0..Half * Half - 1
    BY <1>1, IsaAssumption
  <1> QED
    BY <1>2 DEF h, l, Word

LEMMA LowIsWord ==
  ASSUME NEW x \in Int
  PROVE  Low(x) \in Word
  <1> DEFINE W == Half * Half
  <1>1. W \in Nat /\ W > 0
    BY WordSize
  <1> HIDE DEF W
  <1>2. x % W \in 0..W - 1
    BY <1>1
  <1> QED
    BY <1>2 DEF Low, Word, W

LEMMA Powers ==
  ASSUME NEW r \in 0..3
  PROVE  2^r \in {1, 2, 4, 8}
  <1>1. 2^0 = 1 /\ 2^1 = 2 /\ 2^2 = 4 /\ 2^3 = 8
    OBVIOUS
  <1>2. CASE r = 0
    BY <1>1, <1>2, Zenon
  <1>3. CASE r = 1
    BY <1>1, <1>3, Zenon
  <1>4. CASE r = 2
    BY <1>1, <1>4, Zenon
  <1>5. CASE r = 3
    BY <1>1, <1>5, Zenon
  <1> QED
    BY <1>2, <1>3, <1>4, <1>5

\* A rotation of a word by up to three bits is a word.
LEMMA Rotations ==
  ASSUME NEW x \in Word, NEW r \in 0..3
  PROVE  Rotl(x, r) \in Word /\ Rotr(x, r) \in Word
  <1> DEFINE W == Half * Half
             p == 2^r
  <1>1. p \in {1, 2, 4, 8}
    BY Powers
  <1>2. W \in Nat /\ W >= 16
    BY WordSize
  <1>3. Word = 0..W - 1
    BY DEF Word
  <1> HIDE DEF W, p
  <1>4. W \div p \in Nat /\ W \div p >= 1
    BY <1>1, <1>2
  <1> DEFINE q == W \div p
  <1>5. q \in Nat /\ q >= 1
    BY <1>4
  <1> HIDE DEF q
  <1>6. x \in Nat /\ x < W
    BY <1>2, <1>3
  <1>7. x \div p \in Word
    <2>1. x \div p \in Nat /\ x \div p <= x
      BY <1>1, <1>6
    <2> QED
      BY <1>2, <1>3, <1>6, <2>1
  <1>8. x \div q \in Word
    <2>1. x \div q \in Nat /\ x \div q <= x
      BY <1>5, <1>6
    <2> QED
      BY <1>2, <1>3, <1>6, <2>1
  <1>9. x * p \in Int /\ x * q \in Int
    BY <1>1, <1>5, <1>6
  <1>10. Low(x * p) \in Word /\ Low(x * q) \in Word
    BY <1>9, LowIsWord
  <1>11. BitOr(Low(x * p), x \div q) \in Word /\ BitOr(x \div p, Low(x * q)) \in Word
    BY <1>7, <1>8, <1>10, MachineAssumption
  <1> QED
    BY <1>11 DEF Rotl, Rotr, W, p, q

-----------------------------------------------------------------------------
(* The slots of the stack. *)

\* The slot of the k-th open call when the stack pointer is sp.
SlotFrom(sp, k) == (sp + k - 1) % Half

\* Up to a memory full of calls, each has a slot of its own, the first where the
\* stack pointer is.
LEMMA SlotsApart ==
  ASSUME NEW sp \in Location
  PROVE  /\ \A k \in 1..Half : SlotFrom(sp, k) \in Location
         /\ \A j, k \in 1..Half : SlotFrom(sp, j) = SlotFrom(sp, k) => j = k
         /\ SlotFrom(sp, 1) = sp
  <1>1. \A k \in 1..Half :
          SlotFrom(sp, k) = IF sp + k - 1 < Half THEN sp + k - 1 ELSE sp + k - 1 - Half
    BY IsaAssumption DEF SlotFrom, Location
  <1> QED
    BY <1>1, IsaAssumption DEF Location

\* A call moves the stack pointer down by one slot, and every open call up by one.
LEMMA PushMovesSlots ==
  ASSUME NEW sp \in Location
  PROVE  /\ (sp - 1) % Half \in Location
         /\ \A k \in 1..Half - 1 : SlotFrom((sp - 1) % Half, k + 1) = SlotFrom(sp, k)
  <1> DEFINE to == (sp - 1) % Half
  <1>1. to = IF sp = 0 THEN Half - 1 ELSE sp - 1
    BY IsaAssumption DEF Location
  <1> HIDE DEF to
  <1>2. to \in Location
    BY <1>1, IsaAssumption DEF Location
  <1>3. ASSUME NEW k \in 1..Half - 1
        PROVE  SlotFrom(to, k + 1) = SlotFrom(sp, k)
    BY <1>1, IsaAssumption DEF SlotFrom, Location
  <1> QED
    BY <1>2, <1>3 DEF to

\* A return does the reverse.
LEMMA PopMovesSlots ==
  ASSUME NEW sp \in Location
  PROVE  /\ (sp + 1) % Half \in Location
         /\ \A k \in 1..Half : SlotFrom((sp + 1) % Half, k) = SlotFrom(sp, k + 1)
  <1> DEFINE to == (sp + 1) % Half
  <1>1. to = IF sp = Half - 1 THEN 0 ELSE sp + 1
    BY IsaAssumption DEF Location
  <1> HIDE DEF to
  <1>2. to \in Location
    BY <1>1, IsaAssumption DEF Location
  <1>3. ASSUME NEW k \in 1..Half
        PROVE  SlotFrom(to, k) = SlotFrom(sp, k + 1)
    BY <1>1, IsaAssumption DEF SlotFrom, Location
  <1> QED
    BY <1>2, <1>3 DEF to

-----------------------------------------------------------------------------
(* Typing. *)

RegistersOK == R \in [Register -> Word] /\ delta_acc \in Word
MemoryOK    == MEM \in [Location -> Word]
ControlOK   == PC \in Nat /\ SP \in Location /\ FLAGS \subseteq {SP_FLAG, HALT_FLAG}
ModeOK      == mode \in {"boot", "kernel", "user"}
ProgramOK   == program \in Seq(Nat) /\ Len(program) <= MaxCode

TypeInv == RegistersOK /\ MemoryOK /\ ControlOK /\ ModeOK /\ ProgramOK

LEMMA TypeInit == MachineInit => TypeInv
  <1> SUFFICES ASSUME MachineInit PROVE TypeInv
    OBVIOUS
  <1>1. 0 \in Word /\ 0 \in Location
    BY WordSize, IsaAssumption DEF Word, Location
  <1>2. MEM \in [Location -> Word]
    BY MachineAssumption DEF MachineInit
  <1> QED
    BY <1>1, <1>2 DEF MachineInit, TypeInv, RegistersOK, MemoryOK, ControlOK, ModeOK, ProgramOK

\* The fields of an instruction name registers, and those hold words.
LEMMA Fields ==
  ASSUME TypeInv, Running
  PROVE  /\ Instr \in Nat /\ Dst \in Register /\ Imm \in 0..3
         /\ RA \in Word /\ RB \in Word /\ RA \in Nat /\ RB \in Nat
         /\ PC \in Nat /\ PC + 1 \in Word
  <1>1. PC \in Nat /\ PC < Len(program) /\ program \in Seq(Nat) /\ Len(program) <= MaxCode
    BY DEF Running, TypeInv, ControlOK, ProgramOK
  <1>2. PC + 1 \in 1..Len(program)
    BY <1>1
  <1>3. Instr \in Nat
    BY <1>1, <1>2, ElementOfSeq DEF Instr
  <1>4. Dst \in Register /\ Imm \in 0..3
    BY <1>3 DEF Dst, Imm, Register
  <1>5. (Instr \div 32) % 8 \in Register /\ (Instr \div 4) % 8 \in Register
    BY <1>3 DEF Register
  <1>6. RA \in Word /\ RB \in Word
    BY <1>5 DEF RA, RB, TypeInv, RegistersOK
  <1>7. Word \subseteq Nat
    BY WordSize DEF Word
  <1>8. PC + 1 \in Word
    <2> DEFINE W == Half * Half
    <2>1. W \in Nat /\ MaxCode \in Nat /\ MaxCode < W /\ Word = 0..W - 1
      BY WordSize, IsaAssumption DEF Word
    <2> HIDE DEF W
    <2> QED
      BY <1>1, <2>1
  <1> QED
    BY <1>1, <1>3, <1>4, <1>6, <1>7, <1>8

\* What an instruction computes is a word.
LEMMA ComputedIsWord ==
  ASSUME TypeInv, Running,
         Op \in {"MOV", "LOAD", "XOR", "ROTL", "ROTR", "ADD", "SUB", "CAR", "CDR", "DELTA", "LOADM"}
  PROVE  Computed \in Word
  <1>1. /\ Imm \in 0..3 /\ PC \in Nat
        /\ RA \in Word /\ RB \in Word /\ RA \in Nat /\ RB \in Nat
    BY Fields
  <1>2. CASE Op = "MOV"
    BY <1>1, <1>2 DEF Computed, Wide
  <1>3. CASE Wide
    <2>1. program \in Seq(Nat) /\ PC + 3 \in 1..Len(program) /\ PC + 2 \in 1..Len(program)
      BY <1>1, <1>3 DEF Wide, TypeInv, ProgramOK
    <2>2. program[PC + 3] \in Nat /\ program[PC + 2] \in Nat
      BY <2>1, ElementOfSeq
    <2>3. (program[PC + 3] % Half) * Half + (program[PC + 2] % Half) \in Word
      BY <2>2, TwoHalves
    <2>4. Computed = (program[PC + 3] % Half) * Half + (program[PC + 2] % Half)
      BY <1>3 DEF Computed, Wide
    <2> QED
      BY <2>3, <2>4
  <1>4. CASE Op = "LOAD" /\ ~Wide
    <2>1. Imm \in Word
      BY <1>1, WordSize DEF Word
    <2>2. Computed = Imm
      BY <1>4 DEF Computed
    <2> QED
      BY <2>1, <2>2
  <1>5. CASE Op = "XOR"
    <2>1. Computed = BitXor(RA, RB)
      BY <1>5 DEF Computed, Wide
    <2> QED
      BY <1>1, <2>1, MachineAssumption
  <1>6. CASE Op = "ROTL"
    <2>1. Computed = Rotl(RA, Imm)
      BY <1>6 DEF Computed, Wide
    <2> QED
      BY <1>1, <2>1, Rotations
  <1>7. CASE Op = "ROTR"
    <2>1. Computed = Rotr(RA, Imm)
      BY <1>7 DEF Computed, Wide
    <2> QED
      BY <1>1, <2>1, Rotations
  <1>8. CASE Op = "ADD"
    <2>1. Computed = Low(RA + RB)
      BY <1>8 DEF Computed, Wide
    <2> QED
      BY <1>1, <2>1, LowIsWord
  <1>9. CASE Op = "SUB"
    <2>1. Computed = Low(RA - RB)
      BY <1>9 DEF Computed, Wide
    <2> QED
      BY <1>1, <2>1, LowIsWord
  <1>10. CASE Op = "CAR"
    <2>1. Computed = RA % Half
      BY <1>10 DEF Computed, Wide
    <2> QED
      BY <1>1, <2>1, Halves
  <1>11. CASE Op = "CDR"
    <2>1. Computed = RA \div Half
      BY <1>11 DEF Computed, Wide
    <2> QED
      BY <1>1, <2>1, Halves
  <1>12. CASE Op = "DELTA"
    <2>1. Computed = BitXor(BitXor(Rotl(RA, 1), Rotl(RA, 3)), BitXor(Rotr(RA, 2), Pattern))
      BY <1>12 DEF Computed, Wide
    <2>2. Rotl(RA, 1) \in Word /\ Rotl(RA, 3) \in Word /\ Rotr(RA, 2) \in Word
      BY <1>1, Rotations
    <2>3. BitXor(Rotl(RA, 1), Rotl(RA, 3)) \in Word /\ BitXor(Rotr(RA, 2), Pattern) \in Word
      BY <2>2, MachineAssumption
    <2> QED
      BY <2>1, <2>3, MachineAssumption
  <1>13. CASE Op = "LOADM"
    <2>1. Computed = MEM[(RA + Imm) % Half]
      BY <1>13 DEF Computed, Wide
    <2>2. RA + Imm \in Nat
      BY <1>1
    <2>3. (RA + Imm) % Half \in Location
      BY <2>2, Halves
    <2> QED
      BY <2>1, <2>3 DEF TypeInv, MemoryOK
  <1> QED
    BY <1>2, <1>3, <1>4, <1>5, <1>6, <1>7, <1>8, <1>9, <1>10, <1>11, <1>12, <1>13

LEMMA TypeStep ==
  ASSUME TypeInv, MachineNext
  PROVE  TypeInv'
  <1> USE DEF SP_FLAG, HALT_FLAG
  <1>1. CASE Boot
    <2>1. 0 \in Word /\ 0 \in Nat /\ Pattern \in Word /\ StackBase \in Location
      BY WordSize, MachineAssumption DEF Word
    <2>2. RegistersOK'
      BY <1>1, <2>1 DEF Boot, RegistersOK
    <2>3. MemoryOK'
      BY <1>1, MachineAssumption DEF Boot, TypeInv, MemoryOK
    <2> QED
      BY <1>1, <2>1, <2>2, <2>3 DEF Boot, TypeInv, ControlOK, ModeOK, ProgramOK
  <1>2. ASSUME Running, UNCHANGED program,
               RegistersOK', MemoryOK', ControlOK', ModeOK'
        PROVE  TypeInv'
    BY <1>2 DEF TypeInv, ProgramOK
  <1>3. CASE Trap
    BY <1>2, <1>3
    DEF Trap, GoOn, TypeInv, RegistersOK, MemoryOK, ControlOK, ModeOK
  <1>4. CASE Compute
    <2>1. Running /\ Computed \in Word /\ Dst \in Register
      BY <1>4, Fields, ComputedIsWord DEF Compute, Executes
    <2>2. R' \in [Register -> Word]
      BY <1>4, <2>1 DEF Compute, TypeInv, RegistersOK
    <2>3. delta_acc' \in Word
      BY <1>4, <2>1, MachineAssumption DEF Compute, TypeInv, RegistersOK
    <2> QED
      BY <1>2, <1>4, <2>1, <2>2, <2>3
      DEF Compute, Executes, TypeInv, RegistersOK, MemoryOK, ControlOK, ModeOK
  <1>5. CASE Store
    <2>1. Running /\ Dst \in Register
      BY <1>5, Fields DEF Store, Executes
    <2>2. R[Dst] \in Word
      BY <2>1 DEF TypeInv, RegistersOK
    <2>3. MEM' \in [Location -> Word]
      BY <1>5, <2>2 DEF Store, TypeInv, MemoryOK
    <2> QED
      BY <1>2, <1>5, <2>1, <2>3
      DEF Store, Executes, GoOn, TypeInv, RegistersOK, MemoryOK, ControlOK, ModeOK
  <1>6. CASE Compare
    <2>1. Running /\ RA \in Nat /\ RB \in Nat
      BY <1>6, Fields DEF Compare, Executes
    <2>2. FLAGS' \subseteq {SP_FLAG, HALT_FLAG}
      BY <1>6, <2>1 DEF Compare
    <2> QED
      BY <1>2, <1>6, <2>1, <2>2
      DEF Compare, Executes, GoOn, TypeInv, RegistersOK, MemoryOK, ControlOK, ModeOK
  <1>7. CASE Jump
    <2>1. Running /\ RA \in Nat /\ RB \in Nat /\ PC \in Nat
      BY <1>7, Fields DEF Jump, Executes
    <2>2. PC' \in Nat
      BY <1>7, <2>1 DEF Jump, Executes
    <2> QED
      BY <1>2, <1>7, <2>1, <2>2
      DEF Jump, Executes, TypeInv, RegistersOK, MemoryOK, ControlOK, ModeOK
  <1>8. CASE Call
    <2>1. Running /\ RA \in Nat /\ PC + 1 \in Word
      BY <1>8, Fields DEF Call, Executes
    <2>2. SP' \in Location
      BY <1>8, PushMovesSlots DEF Call, TypeInv, ControlOK
    <2>3. MEM' \in [Location -> Word]
      BY <1>8, <2>1 DEF Call, TypeInv, MemoryOK
    <2> QED
      BY <1>2, <1>8, <2>1, <2>2, <2>3
      DEF Call, Executes, TypeInv, RegistersOK, MemoryOK, ControlOK, ModeOK
  <1>9. CASE Ret
    <2>1. Running /\ SP' \in Location
      BY <1>9, PopMovesSlots DEF Ret, Executes, TypeInv, ControlOK
    <2>2. PC' \in Nat
      BY <1>9, WordSize DEF Ret, TypeInv, ControlOK, MemoryOK, Word
    <2> QED
      BY <1>2, <1>9, <2>1, <2>2
      DEF Ret, Executes, TypeInv, RegistersOK, MemoryOK, ControlOK, ModeOK
  <1>10. CASE Syscall
    <2>1. Running /\ delta_acc' \in Word
      BY <1>10, WordSize DEF Syscall, Executes, TypeInv, RegistersOK, Word
    <2> QED
      BY <1>2, <1>10, <2>1
      DEF Syscall, Executes, GoOn, TypeInv, RegistersOK, MemoryOK, ControlOK, ModeOK
  <1>11. CASE Halt
    BY <1>2, <1>11
    DEF Halt, Executes, GoOn, TypeInv, RegistersOK, MemoryOK, ControlOK, ModeOK
  <1>12. CASE Nop
    BY <1>2, <1>12
    DEF Nop, Executes, GoOn, TypeInv, RegistersOK, MemoryOK, ControlOK, ModeOK
  <1> QED
    BY <1>1, <1>3, <1>4, <1>5, <1>6, <1>7, <1>8, <1>9, <1>10, <1>11, <1>12 DEF MachineNext

LEMMA TypeStutter ==
  ASSUME TypeInv, UNCHANGED machineVars
  PROVE  TypeInv'
  BY DEF machineVars, TypeInv, RegistersOK, MemoryOK, ControlOK, ModeOK, ProgramOK

\* Whatever a program does, also one that nobody compiled, registers, memory and
\* accumulator hold words, the stack pointer is an address and the flags keep to
\* their two bits.
THEOREM MachineTyped == MachineSpec => []CpuTypeOK
  <1>1. TypeInv /\ [MachineNext]_machineVars => TypeInv'
    BY TypeStep, TypeStutter
  <1>2. TypeInv => CpuTypeOK
    BY DEF TypeInv, RegistersOK, MemoryOK, ControlOK, ModeOK, CpuTypeOK
  <1> QED
    BY TypeInit, <1>1, <1>2, PTL DEF MachineSpec

-----------------------------------------------------------------------------
(* The stack. *)

\* No more calls are open than memory has words, and none before boot.
StackInv ==
  /\ open \in Seq(Nat) /\ Len(open) <= Half
  /\ mode = "boot" => open = <<>>
  /\ StackHolds

LEMMA StackInit == MachineInit => StackInv
  <1>1. <<>> \in Seq(Nat)
    OBVIOUS
  <1> QED
    BY <1>1, IsaAssumption DEF MachineInit, StackInv, StackHolds

LEMMA SlotIsSlotFrom == \A k : Slot(k) = SlotFrom(SP, k)
  BY DEF Slot, SlotFrom

LEMMA StoreStep ==
  ASSUME TypeInv, StackInv, Store
  PROVE  StackInv'
  <1>1. open \in Seq(Nat) /\ Len(open) \in Nat /\ Len(open) <= Half
    BY DEF StackInv
  <1>2. SP \in Location /\ SP' = SP /\ mode' = mode /\ mode # "boot"
    BY DEF Store, Executes, Running, TypeInv, ControlOK
  <1>3. StoreAddress \in Location
    BY Fields, Halves DEF Store, Executes, StoreAddress
  <1>4. \A adr \in Location : adr # StoreAddress => MEM'[adr] = MEM[adr]
    BY <1>3 DEF Store, TypeInv, MemoryOK
  <1>5. /\ \A k \in 1..Len(open) : Slot(k) \in Location
        /\ \A j, k \in 1..Len(open) : Slot(j) = Slot(k) => j = k
    <2>1. \A k \in 1..Len(open) : k \in 1..Half
      BY <1>1, IsaAssumption
    <2> QED
      BY <1>2, <2>1, SlotsApart, SlotIsSlotFrom
  <1>6. \A k : Slot(k)' = Slot(k)
    BY <1>2 DEF Slot
  <1>7. CASE \A k \in 1..Len(open) : Slot(k) # StoreAddress
    <2>1. open' = open
      BY <1>7 DEF Store, OpenAfterStore
    <2>2. \A k \in 1..Len(open) : MEM'[Slot(k)] = open[k]
      BY <1>4, <1>5, <1>7 DEF StackInv, StackHolds
    <2> QED
      BY <1>1, <1>2, <1>6, <2>1, <2>2 DEF StackInv, StackHolds
  <1>8. CASE \E k \in 1..Len(open) : Slot(k) = StoreAddress
    <2> DEFINE hit == {k \in 1..Len(open) : Slot(k) = StoreAddress}
               c == CHOOSE k \in hit : TRUE
    <2>1. c \in 1..Len(open) /\ Slot(c) = StoreAddress
      BY <1>8
    <2>2. open' = SubSeq(open, 1, c - 1)
      BY <1>8 DEF Store, OpenAfterStore
    <2> HIDE DEF c
    <2>3. \A i \in 1..c - 1 : i \in 1..Len(open) /\ open[i] \in Nat
      BY <1>1, <2>1, ElementOfSeq
    <2>4. /\ SubSeq(open, 1, c - 1) \in Seq(Nat)
          /\ Len(SubSeq(open, 1, c - 1)) = c - 1
          /\ \A i \in 1..c - 1 : SubSeq(open, 1, c - 1)[i] = open[i]
      BY <2>1, <2>3, SubSeqProperties
    <2>5. \A k \in 1..c - 1 : Slot(k) # StoreAddress
      BY <1>5, <2>1, <2>3
    <2>6. \A k \in 1..c - 1 : MEM'[Slot(k)] = open[k]
      BY <1>4, <1>5, <2>3, <2>5 DEF StackInv, StackHolds
    <2>7. open' \in Seq(Nat) /\ Len(open') = c - 1 /\ \A i \in 1..c - 1 : open'[i] = open[i]
      BY <2>2, <2>4
    <2>8. Half \in Nat
      BY IsaAssumption
    <2>9. Len(open') <= Half
      BY <1>1, <2>1, <2>7, <2>8
    <2>10. StackHolds'
      BY <1>6, <2>6, <2>7 DEF StackHolds
    <2> QED
      BY <1>2, <2>7, <2>9, <2>10 DEF StackInv
  <1> QED
    BY <1>7, <1>8

LEMMA CallStep ==
  ASSUME TypeInv, StackInv, Call
  PROVE  StackInv'
  <1>1. open \in Seq(Nat) /\ Len(open) \in Nat /\ Len(open) <= Half
    BY DEF StackInv
  <1>2. SP \in Location /\ SP' = (SP - 1) % Half /\ mode' = mode /\ mode # "boot"
    BY DEF Call, Executes, Running, TypeInv, ControlOK
  <1>3. SP' \in Location
    BY <1>2, PushMovesSlots
  <1>4. PC + 1 \in Nat
    BY DEF TypeInv, ControlOK
  <1>5. MEM'[SP'] = PC + 1 /\ \A adr \in Location : adr # SP' => MEM'[adr] = MEM[adr]
    BY <1>3 DEF Call, TypeInv, MemoryOK
  <1> DEFINE n == IF Len(open) < Half THEN Len(open) ELSE Half - 1
             kept == SubSeq(open, 1, n)
  <1>6. n \in Nat /\ n <= Len(open) /\ n <= Half - 1
    BY <1>1, IsaAssumption
  <1>7. open' = <<PC + 1>> \o kept
    BY DEF Call, OpenAfterCall
  <1> HIDE DEF n
  <1>8. \A i \in 1..n : i \in 1..Len(open) /\ open[i] \in Nat
    BY <1>1, <1>6, ElementOfSeq
  <1>9. kept \in Seq(Nat) /\ Len(kept) = n /\ \A i \in 1..n : kept[i] = open[i]
    BY <1>6, <1>8, SubSeqProperties
  <1> HIDE DEF kept
  <1>10. /\ open' \in Seq(Nat) /\ Len(open') = n + 1 /\ open'[1] = PC + 1
         /\ \A k \in 1..n : open'[k + 1] = open[k]
    <2>1. <<PC + 1>> \in Seq(Nat) /\ Len(<<PC + 1>>) = 1 /\ <<PC + 1>>[1] = PC + 1
      BY <1>4
    <2>2. /\ open' \in Seq(Nat) /\ Len(open') = 1 + n
          /\ \A i \in 1..1 + n : open'[i] = IF i <= 1 THEN <<PC + 1>>[i] ELSE kept[i - 1]
      BY <1>7, <1>9, <2>1, ConcatProperties
    <2>3. open'[1] = PC + 1
      BY <1>6, <2>1, <2>2
    <2>4. ASSUME NEW k \in 1..n PROVE open'[k + 1] = open[k]
      <3>1. k + 1 \in 1..1 + n /\ ~(k + 1 <= 1) /\ k + 1 - 1 = k
        BY <1>6
      <3> QED
        BY <1>9, <2>2, <3>1
    <2> QED
      BY <1>6, <2>2, <2>3, <2>4
  <1>11. MEM'[SlotFrom(SP', 1)] = open'[1]
    BY <1>3, <1>5, <1>10, SlotsApart
  <1>12. ASSUME NEW k \in 1..n
         PROVE  MEM'[SlotFrom(SP', k + 1)] = open'[k + 1]
    <2>1. k \in 1..Half - 1 /\ k + 1 \in 1..Half /\ 1 \in 1..Half /\ k + 1 # 1
      BY <1>6, IsaAssumption
    <2>2. SlotFrom(SP', k + 1) = SlotFrom(SP, k)
      BY <1>2, <2>1, PushMovesSlots
    <2>3. SlotFrom(SP', k + 1) \in Location /\ SlotFrom(SP', k + 1) # SP'
      BY <1>3, <2>1, SlotsApart
    <2>4. MEM[SlotFrom(SP, k)] = open[k]
      BY <1>8, SlotIsSlotFrom DEF StackInv, StackHolds
    <2> QED
      BY <1>5, <1>10, <2>2, <2>3, <2>4
  <1>13. \A k \in 1..Len(open') : MEM'[SlotFrom(SP', k)] = open'[k]
    <2> TAKE k \in 1..Len(open')
    <2>1. k = 1 \/ (k - 1 \in 1..n /\ (k - 1) + 1 = k)
      BY <1>6, <1>10
    <2> QED
      BY <1>11, <1>12, <2>1
  <1>14. StackHolds'
    BY <1>13 DEF StackHolds, Slot, SlotFrom
  <1> QED
    BY <1>2, <1>6, <1>10, <1>14, IsaAssumption DEF StackInv

LEMMA RetStep ==
  ASSUME TypeInv, StackInv, Ret
  PROVE  StackInv'
  <1>1. open \in Seq(Nat) /\ Len(open) \in Nat /\ Len(open) <= Half
    BY DEF StackInv
  <1>2. SP \in Location /\ SP' = (SP + 1) % Half /\ MEM' = MEM /\ mode' = mode /\ mode # "boot"
    BY DEF Ret, Executes, Running, TypeInv, ControlOK
  <1>3. CASE open = <<>>
    BY <1>1, <1>2, <1>3 DEF Ret, StackInv, StackHolds
  <1>4. CASE open # <<>>
    <2>1. /\ open' \in Seq(Nat) /\ Len(open') = Len(open) - 1
          /\ \A i \in 1..Len(open') : open'[i] = open[i + 1]
      BY <1>1, <1>4, HeadTailProperties DEF Ret
    <2>2. ASSUME NEW k \in 1..Len(open')
          PROVE  MEM'[SlotFrom(SP', k)] = open'[k]
      <3>1. k \in 1..Len(open) - 1
        BY <2>1
      <3>2. Half \in Nat
        BY IsaAssumption
      <3>3. k \in 1..Half /\ k + 1 \in 1..Len(open)
        BY <1>1, <3>1, <3>2
      <3>4. SlotFrom(SP', k) = SlotFrom(SP, k + 1)
        BY <1>2, <3>3, PopMovesSlots
      <3>5. MEM[SlotFrom(SP, k + 1)] = open[k + 1]
        BY <3>3, SlotIsSlotFrom DEF StackInv, StackHolds
      <3> QED
        BY <1>2, <2>1, <3>4, <3>5
    <2>3. StackHolds'
      BY <2>2 DEF StackHolds, Slot, SlotFrom
    <2> QED
      BY <1>1, <1>2, <2>1, <2>3, IsaAssumption DEF StackInv
  <1> QED
    BY <1>3, <1>4

LEMMA StackStep ==
  ASSUME TypeInv, StackInv, MachineNext
  PROVE  StackInv'
  <1>1. CASE Boot
    BY <1>1 DEF Boot, StackInv, StackHolds
  <1>2. ASSUME mode' # "boot", UNCHANGED <<open, MEM, SP>>
        PROVE  StackInv'
    BY <1>2 DEF StackInv, StackHolds, Slot
  <1>3. CASE Trap
    BY <1>2, <1>3 DEF Trap
  <1>4. CASE Compute
    BY <1>2, <1>4 DEF Compute, Executes, Running
  <1>5. CASE Store
    BY <1>5, StoreStep
  <1>6. CASE Compare
    BY <1>2, <1>6 DEF Compare, Executes, Running
  <1>7. CASE Jump
    BY <1>2, <1>7 DEF Jump, Executes, Running
  <1>8. CASE Call
    BY <1>8, CallStep
  <1>9. CASE Ret
    BY <1>9, RetStep
  <1>10. CASE Syscall
    BY <1>2, <1>10 DEF Syscall, Executes, Running
  <1>11. CASE Halt
    BY <1>2, <1>11 DEF Halt, Executes, Running
  <1>12. CASE Nop
    BY <1>2, <1>12 DEF Nop, Executes, Running
  <1> QED
    BY <1>1, <1>3, <1>4, <1>5, <1>6, <1>7, <1>8, <1>9, <1>10, <1>11, <1>12 DEF MachineNext

LEMMA StackStutter ==
  ASSUME StackInv, UNCHANGED machineVars
  PROVE  StackInv'
  BY DEF machineVars, StackInv, StackHolds, Slot

LEMMA Invariant == MachineSpec => [](TypeInv /\ StackInv)
  <1>1. TypeInv /\ StackInv /\ [MachineNext]_machineVars => (TypeInv /\ StackInv)'
    BY TypeStep, TypeStutter, StackStep, StackStutter
  <1> QED
    BY TypeInit, StackInit, <1>1, PTL DEF MachineSpec

\* However a program calls, returns and stores, and however often the stack has
\* wrapped round memory, the words from the stack pointer on are the return
\* addresses of the calls that are open, the last one first.
THEOREM StackKeepsReturns == MachineSpec => []StackHolds
  <1>1. StackInv => StackHolds
    BY DEF StackInv
  <1> QED
    BY Invariant, <1>1, PTL

\* So a RET continues behind the last call that has not returned, unless a store or
\* the calls since have overwritten the word, or one above it, that held the place.
THEOREM ReturnsMatchCalls ==
  MachineSpec => [][Ret /\ open # <<>> => PC' = Head(open)]_machineVars
  <1>1. ASSUME StackInv, TypeInv, Ret, open # <<>>
        PROVE  PC' = Head(open)
    <2>1. open \in Seq(Nat) /\ 1 \in 1..Len(open) /\ Head(open) = open[1]
      BY <1>1 DEF StackInv
    <2>2. Slot(1) = SP
      BY <1>1, SlotsApart, SlotIsSlotFrom DEF TypeInv, ControlOK
    <2> QED
      BY <1>1, <2>1, <2>2 DEF Ret, StackInv, StackHolds
  <1>2. /\ TypeInv /\ StackInv /\ [MachineNext]_machineVars
        => [Ret /\ open # <<>> => PC' = Head(open)]_machineVars
    BY <1>1
  <1> QED
    BY Invariant, <1>2, PTL DEF MachineSpec

-----------------------------------------------------------------------------
(* Halting, and the kernel's memory. *)

\* Only a HALT that the kernel executes and a comparison set the bit that stops the
\* machine; neither boot, nor a trap, nor a system call does.
THEOREM HaltsAreMeant == MachineSpec => []HaltIsMeant
  <1>1. MachineInit => HaltIsMeant
    BY DEF MachineInit, HaltIsMeant
  <1>2. ASSUME TypeInv, HaltIsMeant, MachineNext
        PROVE  HaltIsMeant'
    <2> USE DEF SP_FLAG, HALT_FLAG, HaltIsMeant
    <2>1. CASE Boot
      BY <2>1 DEF Boot
    <2>2. ASSUME Running, FLAGS' \subseteq FLAGS \cup {SP_FLAG}
          PROVE  HALT_FLAG \notin FLAGS'
      BY <2>2 DEF Running
    <2>3. CASE Trap
      BY <2>2, <2>3 DEF Trap
    <2>4. CASE Compute
      BY <2>2, <2>4 DEF Compute, Executes
    <2>5. CASE Store
      BY <2>2, <2>5 DEF Store, Executes
    <2>6. CASE Compare
      BY <2>6 DEF Compare, Executes
    <2>7. CASE Jump
      BY <2>2, <2>7 DEF Jump, Executes
    <2>8. CASE Call
      BY <2>2, <2>8 DEF Call, Executes
    <2>9. CASE Ret
      BY <2>2, <2>9 DEF Ret, Executes
    <2>10. CASE Syscall
      BY <2>2, <2>10 DEF Syscall, Executes
    <2>11. CASE Halt
      <3>1. Op = "HALT" /\ ~Trapped /\ mode # "boot" /\ last' = "HALT" /\ mode' = mode
        BY <2>11 DEF Halt, Executes, Running
      <3>2. mode = "kernel"
        BY <1>2, <3>1 DEF Trapped, TypeInv, ModeOK
      <3> QED
        BY <3>1, <3>2
    <2>12. CASE Nop
      BY <2>2, <2>12 DEF Nop, Executes
    <2> QED
      BY <1>2, <2>1, <2>3, <2>4, <2>5, <2>6, <2>7, <2>8, <2>9, <2>10, <2>11, <2>12 DEF MachineNext
  <1>3. ASSUME HaltIsMeant, UNCHANGED machineVars
        PROVE  HaltIsMeant'
    BY <1>3 DEF HaltIsMeant, machineVars
  <1>4. TypeInv /\ HaltIsMeant /\ [MachineNext]_machineVars => HaltIsMeant'
    BY <1>2, <1>3
  <1> QED
    BY Invariant, <1>1, <1>4, PTL DEF MachineSpec

=============================================================================
