------------------------------ MODULE Machine ------------------------------
(***************************************************************************)
(* The virtual machine (lib/cpu.c, lib/boot.c) with a program to run.      *)
(* One action is one turn of the loop of run().                            *)
(***************************************************************************)
EXTENDS Isa

CONSTANTS
  KernelSize,   \* KERNEL_SIZE, 0x7000: below it a STORE in user mode traps
  StackBase,    \* the stack pointer after boot
  HexTable,     \* what init_hex_table writes, a function on addresses
  Pattern,      \* 0xA5A5A5A5
  Garbage,      \* what memory nobody has written may hold
  BitXor(_, _), \* C's ^ and | on words
  BitOr(_, _)

SP_FLAG   == 1
HALT_FLAG == 2
Location  == 0..Half - 1
Register  == 0..7

ASSUME MachineAssumption ==
  /\ KernelSize \in 0..Half /\ StackBase \in Location
  /\ Pattern \in Word /\ Garbage \subseteq Word
  /\ \A adr \in DOMAIN HexTable : HexTable[adr] \in Word
  /\ \A x, y \in Word : BitXor(x, y) \in Word /\ BitOr(x, y) \in Word

VARIABLES
  R, MEM, PC, SP, FLAGS, mode,
  delta_acc,   \* the exclusive or of what XOR and DELTA have computed
  program,     \* the code, all of it before the machine starts
  (* histories, for the properties *)
  open,        \* where calls that have not returned go back to, the last one first
  last         \* the instruction executed last

machineVars == <<R, MEM, PC, SP, FLAGS, mode, delta_acc, program, open, last>>

\* init_cpu.  It clears no memory, and the machine is a local variable.
MachineInit ==
  /\ program \in Seq(Nat) /\ Len(program) <= MaxCode
  /\ R = [r \in Register |-> 0] /\ delta_acc = 0 /\ PC = 0 /\ SP = 0 /\ FLAGS = {}
  /\ mode = "boot"
  /\ \E g \in Garbage : MEM = [adr \in Location |-> g]
  /\ open = <<>> /\ last = "NOP"

Boot ==
  /\ mode = "boot"
  /\ R' = [r \in Register |-> IF r = 0 THEN Pattern ELSE 0]
  /\ delta_acc' = Pattern
  /\ PC' = 0 /\ SP' = StackBase /\ FLAGS' = {SP_FLAG} /\ mode' = "kernel"
  /\ MEM' = [adr \in Location |-> IF adr \in DOMAIN HexTable THEN HexTable[adr] ELSE MEM[adr]]
  /\ UNCHANGED <<program, open, last>>

-----------------------------------------------------------------------------
(* Fetching and decoding. *)

Running == mode # "boot" /\ PC < Len(program) /\ HALT_FLAG \notin FLAGS

Instr == program[PC + 1]
Op  == LET i == Instr \div 2048 IN IF i < Len(Opcode) THEN Opcode[i + 1] ELSE "NOP"
Dst == (Instr \div 256) % 8
RA  == R[(Instr \div 32) % 8]
RB  == R[(Instr \div 4) % 8]
Imm == Instr % 4

\* Mutant of Trapped: HALT is let through.
TrappedStoreOnly ==
  mode = "user" /\ Op = "STORE" /\ RA % Half < KernelSize

\* In user mode the machine goes back to the kernel instead of halting or of
\* storing below KernelSize. That is not the kernel's region of cpu.h, which has
\* KernelSize words too but starts above the boot ROM, so its last 0x1000 words
\* lie above the trap: no property here says that the kernel is protected.
Trapped ==
  mode = "user" /\ (Op = "HALT" \/ (Op = "STORE" /\ RA % Half < KernelSize))

\* One step for an instruction of ops that does not trap.
Executes(ops) == Running /\ Op \in ops /\ ~Trapped /\ last' = Op /\ UNCHANGED program
GoOn == PC' = PC + 1

Trap ==
  /\ Running /\ Trapped
  /\ mode' = "kernel" /\ FLAGS' = FLAGS \cup {SP_FLAG}
  /\ GoOn /\ last' = "trap"
  /\ UNCHANGED <<R, MEM, SP, delta_acc, program, open>>

-----------------------------------------------------------------------------
(* Instructions that compute a value for a register. *)

Low(x) == x % (Half * Half)

\* A rotation by 0 shifts by the width of the word, which C does not define; the
\* outcomes, 0 and x, both give x.
Rotl(x, r) == BitOr(Low(x * 2^r), x \div ((Half * Half) \div 2^r))
Rotr(x, r) == BitOr(x \div 2^r, Low(x * ((Half * Half) \div 2^r)))

\* LOAD 3 takes the next two words, unless they are not there.
Wide == Op = "LOAD" /\ Imm = 3 /\ PC + 2 < Len(program)

Computed ==
  CASE Op = "MOV"   -> RA
    [] Wide         -> (program[PC + 3] % Half) * Half + (program[PC + 2] % Half)
    [] Op = "LOAD" /\ ~Wide -> Imm
    [] Op = "XOR"   -> BitXor(RA, RB)
    [] Op = "ROTL"  -> Rotl(RA, Imm)
    [] Op = "ROTR"  -> Rotr(RA, Imm)
    [] Op = "ADD"   -> Low(RA + RB)
    [] Op = "SUB"   -> Low(RA - RB)
    [] Op = "CAR"   -> RA % Half
    [] Op = "CDR"   -> RA \div Half
    [] Op = "DELTA" -> BitXor(BitXor(Rotl(RA, 1), Rotl(RA, 3)), BitXor(Rotr(RA, 2), Pattern))
    [] Op = "LOADM" -> MEM[(RA + Imm) % Half]

\* Register 0 is left out of delta_acc.
Compute ==
  /\ Executes({"MOV", "LOAD", "XOR", "ROTL", "ROTR", "ADD", "SUB", "CAR", "CDR", "DELTA", "LOADM"})
  /\ R' = [R EXCEPT ![Dst] = Computed]
  /\ delta_acc' = IF Op \in {"XOR", "DELTA"} /\ Dst # 0 THEN BitXor(delta_acc, Computed) ELSE delta_acc
  /\ PC' = IF Wide THEN PC + 3 ELSE PC + 1
  /\ UNCHANGED <<MEM, SP, FLAGS, mode, open>>

-----------------------------------------------------------------------------
(* Memory, control and the stack. *)

\* The stack slot of the k-th open call, the last one first.
Slot(k) == (SP + k - 1) % Half
StoreAddress == RA % Half

\* The calls that are still open above a slot that a STORE overwrites.
OpenAfterStore ==
  LET hit == {k \in 1..Len(open) : Slot(k) = StoreAddress}
  IN  IF hit = {} THEN open ELSE SubSeq(open, 1, (CHOOSE k \in hit : TRUE) - 1)

Store ==
  /\ Executes({"STORE"})
  /\ MEM' = [MEM EXCEPT ![StoreAddress] = R[Dst]]
  /\ open' = OpenAfterStore
  /\ GoOn /\ UNCHANGED <<R, SP, FLAGS, mode, delta_acc>>

\* CMP uses the two bits of the flags that elsewhere mean SP_FLAG and HALT_FLAG.
Compare ==
  /\ Executes({"CMP"})
  /\ FLAGS' = CASE RA = RB -> {SP_FLAG} [] RA < RB -> {HALT_FLAG} [] RA > RB -> {}
  /\ GoOn /\ UNCHANGED <<R, MEM, SP, mode, delta_acc, open>>

Jump ==
  /\ Executes({"JMP", "JZ"})
  /\ PC' = CASE Op = "JMP" -> RA
             [] Op = "JZ"  -> IF RA = 0 THEN RB ELSE PC + 1
  /\ UNCHANGED <<R, MEM, SP, FLAGS, mode, delta_acc, open>>

\* The stack wraps round memory, and then the call open longest is lost.
OpenAfterCall == <<PC + 1>> \o SubSeq(open, 1, IF Len(open) < Half THEN Len(open) ELSE Half - 1)

\* Mutants of Call: the return address goes where the stack pointer has been; the
\* stack pointer does not wrap.
CallPostDecrement ==
  /\ Executes({"CALL"})
  /\ SP' = (SP - 1) % Half
  /\ MEM' = [MEM EXCEPT ![SP] = PC + 1]
  /\ PC' = RA
  /\ open' = OpenAfterCall
  /\ UNCHANGED <<R, FLAGS, mode, delta_acc>>

CallUnwrapped ==
  /\ Executes({"CALL"})
  /\ SP' = SP - 1
  /\ MEM' = [MEM EXCEPT ![SP'] = PC + 1]
  /\ PC' = RA
  /\ open' = OpenAfterCall
  /\ UNCHANGED <<R, FLAGS, mode, delta_acc>>

Call ==
  /\ Executes({"CALL"})
  /\ SP' = (SP - 1) % Half
  /\ MEM' = [MEM EXCEPT ![SP'] = PC + 1]
  /\ PC' = RA
  /\ open' = OpenAfterCall
  /\ UNCHANGED <<R, FLAGS, mode, delta_acc>>

Ret ==
  /\ Executes({"RET"})
  /\ PC' = MEM[SP]
  /\ SP' = (SP + 1) % Half
  /\ open' = IF open = <<>> THEN <<>> ELSE Tail(open)
  /\ UNCHANGED <<R, MEM, FLAGS, mode, delta_acc>>

\* syscall_handler: 0 writes to the log, and numbers above 3 do nothing.
Syscall ==
  /\ Executes({"SYSCALL"})
  /\ delta_acc' = IF RA = 1 THEN 0 ELSE delta_acc
  /\ mode' = CASE RA = 2 -> "user" [] RA = 3 -> "kernel" [] OTHER -> mode
  /\ FLAGS' = IF RA = 3 THEN FLAGS \cup {SP_FLAG} ELSE FLAGS
  /\ GoOn /\ UNCHANGED <<R, MEM, SP, open>>

Halt ==
  /\ Executes({"HALT"})
  /\ FLAGS' = FLAGS \cup {HALT_FLAG}
  /\ GoOn /\ UNCHANGED <<R, MEM, SP, mode, delta_acc, open>>

\* NOP, and the twelve opcodes that only envelopes know.
Nop ==
  /\ Executes({"NOP"})
  /\ GoOn /\ UNCHANGED <<R, MEM, SP, FLAGS, mode, delta_acc, open>>

MachineNext ==
  \/ Boot \/ Trap \/ Compute \/ Store \/ Compare \/ Jump
  \/ Call \/ Ret \/ Syscall \/ Halt \/ Nop

MachineSpec == MachineInit /\ [][MachineNext]_machineVars

-----------------------------------------------------------------------------
(* Properties. *)

CpuTypeOK ==
  /\ R \in [Register -> Word] /\ delta_acc \in Word
  /\ \A adr \in Location : MEM[adr] \in Word
  /\ PC \in Nat /\ SP \in Location /\ FLAGS \subseteq {SP_FLAG, HALT_FLAG}
  /\ mode \in {"boot", "kernel", "user"}

\* However calls, returns and stores follow each other, and wherever the stack
\* has wrapped to, the slots from SP on hold the places that the open calls go
\* back to, so that RET goes behind the last call that has not returned.
StackHolds == \A k \in 1..Len(open) : MEM[Slot(k)] = open[k]

\* The machine is stopped by a HALT of the kernel, and by a comparison that finds
\* its first operand smaller, in any mode: the two share a bit of the flags.
HaltIsMeant ==
  HALT_FLAG \in FLAGS => (last = "HALT" /\ mode = "kernel") \/ last = "CMP"

=============================================================================
