------------------------------ MODULE MCLocal ------------------------------
(***************************************************************************)
(* The libraries that a node uses without its network: the virtual         *)
(* machine, the prefix resolver and the gauge table.  They share no state, *)
(* so one behaviour of all is a behaviour of each; here a behaviour uses   *)
(* one of them at a time.                                                  *)
(***************************************************************************)
EXTENDS Omion, Cpu, Gauge, TLC

(* The resolver: addresses of two bits, of which two lengths tell 0 and 1  *)
(* apart or do not. *)
MCBlock == [l \in 0..Width |-> 2^(Width - l)]

\* Envelopes by the layer that speaks in them, and the rest it leaves.
Speaker(layer, rest) == [l \in 9..12 |-> IF l = layer THEN l + rest ELSE l]
MCSegments == {Speaker(9, 0), Speaker(9, 1), Speaker(11, 2)}

(* The machine: memory of 16 words of 8 bits, divided as the real one is. *)
MCHexTable == 3 :> 10
MCXor(x, y) == x ^^ y
MCOr(x, y) == x | y

Instruction(op, d, a, b, imm) == <<Encode(op, d, a, b, imm)>>
LoadWide(r, v) == <<Encode("LOAD", r, 0, 0, 3), v % Half, v \div Half>>

\* Instructions over three registers.  R[0] holds Pattern, 2 is the number of a
\* system call, the slot of no call and an address of the kernel, 18 has the
\* same lower half, 7 is the first stack slot and 9 an address of the user.
Snippets ==
  {Instruction("LOAD", 1, 0, 0, i) : i \in 1..3} \cup
  {Instruction("CMP", 0, 1, 2, 0), Instruction("CMP", 0, 2, 1, 0)} \cup
  {Instruction("STORE", 1, 2, 0, 0), Instruction("STORE", 2, 1, 0, 0)} \cup
  {Instruction("CALL", 0, r, 0, 0) : r \in 1..2} \cup
  {Instruction(op, 1, 0, 0, 1) : op \in {"ROTL", "CAR", "CDR", "DELTA", "HALT", "RET"}} \cup
  {Instruction(op, 2, 1, 2, 0) :
     op \in {"XOR", "ADD", "SUB", "MOV", "SYSCALL", "JMP", "JZ"}} \cup
  {Instruction("ROTR", 1, 1, 0, 3), Instruction("LOADM", 1, 2, 0, 1), <<20 * 2048>>} \cup
  {LoadWide(1, 9), LoadWide(2, 18), LoadWide(2, 7)}

ToUserMode == Instruction("LOAD", 1, 0, 0, 2) \o Instruction("SYSCALL", 0, 1, 0, 0)

\* What a program may end with; a jump or a call begins it again.
Endings ==
  {Instruction(op, 1, 1, 0, 0) : op \in {"CALL", "RET", "JMP", "HALT", "STORE"}} \cup
  {Instruction("CALL", 0, 2, 0, 0), Instruction("STORE", 1, 2, 0, 0)}

\* Three instructions in either mode.
MCPrograms == {<<>>} \cup
  {m \o s \o t \o u : m \in {<<>>, ToUserMode}, s \in Snippets, t \in Snippets, u \in Endings}

\* Every tree of two levels, and trees of three and four on one side.
Leaves   == {Atom(2), Atom(92), Missing}
OneLevel == Leaves \cup {Pair(x, y) : x \in Leaves, y \in Leaves}
MCTrees  ==
  OneLevel \cup {Pair(x, y) : x \in OneLevel, y \in OneLevel} \cup
  {Pair(Atom(7), Pair(x, Pair(Atom(3), y))) : x \in OneLevel, y \in OneLevel} \cup
  {Pair(Pair(Pair(Atom(92), x), y), Atom(7)) : x \in OneLevel, y \in OneLevel}

(* The gauge table: three codes, all in use until one is changed, and       *)
(* references that are taken modulo the number of slots. *)
GaugeEntry(active, is_lambda, car_addr, cdr_addr) ==
  [active |-> active, is_lambda |-> is_lambda, car_addr |-> car_addr, cdr_addr |-> cdr_addr]
Lambda(car_addr, cdr_addr) == GaugeEntry(TRUE, TRUE, car_addr, cdr_addr)
MCTable      == [c \in Code |-> GaugeEntry(TRUE, FALSE, 0, 0)]
MCEntries    == {Lambda(1, 2), Lambda(2, 0), Lambda(3, 1), Lambda(0, 2), Lambda(0, 0),
                 GaugeEntry(FALSE, TRUE, 1, 0)}
MCSlideCodes == <<0, 1, 2, 0>>

\* The machine has nothing to run and has not been started; nothing was changed.
MachineUntouched == mode = "boot" /\ program = <<>> /\ MEM[0] = 0
GaugeUntouched   == changes = 0 /\ call = None

MCInit == OmionInit /\ CpuInit /\ GaugeInit
MCNext ==
  \/ GaugeUntouched /\ CpuNext /\ UNCHANGED <<omionVars, gaugeVars>>
  \/ MachineUntouched /\ GaugeUntouched /\ OmionNext /\ UNCHANGED <<cpuVars, gaugeVars>>
  \/ MachineUntouched /\ entries = <<>> /\ GaugeNext /\ UNCHANGED <<omionVars, cpuVars>>
MCSpec == MCInit /\ [][MCNext]_<<omionVars, cpuVars, gaugeVars>>

=============================================================================
