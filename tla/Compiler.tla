------------------------------ MODULE Compiler ------------------------------
(***************************************************************************)
(* The compiler (lib/compiler.c): from a dotted pair to code that leaves   *)
(* the exclusive or of its atoms in a register.  Each pair takes two       *)
(* registers for its halves, and an instruction is a word of five fields.  *)
(*                                                                         *)
(* A tree is what lib/parser.c builds: an atom, which stands for the hash  *)
(* of its symbol, a pair, or nothing where the text has no expression.     *)
(***************************************************************************)
EXTENDS Isa, Bitwise

CodeOf(op) == CHOOSE i \in 0..Len(Opcode) - 1 : Opcode[i + 1] = op

Atom(hash)     == [kind |-> "atom", hash |-> hash]
Pair(car, cdr) == [kind |-> "pair", car |-> car, cdr |-> cdr]
Missing        == [kind |-> "missing"]

\* The fields overlap if one of them is too large for its place.
Encode(op, d, a, b, imm) ==
  (((((CodeOf(op) * 2048) | (d * 256)) | (a * 32)) | (b * 4)) % 65536) + (imm % 4)

\* Past the end of the buffer, words are dropped without a word.
Emit(word, code) == IF Len(code) < MaxCode THEN Append(code, word) ELSE code

\* A value above 3 follows its instruction in two words, both or none.
LoadValue(value, code, reg) ==
  IF value <= 3 THEN Emit(Encode("LOAD", reg, 0, 0, value), code)
  ELSE LET load == Emit(Encode("LOAD", reg, 0, 0, 3), code)
       IN  IF Len(load) + 1 >= MaxCode THEN load
           ELSE load \o <<value % Half, value \div Half>>

\* The registers free for what is below a pair whose halves go to reg and reg + 1.
\* Mutant: they count as free themselves.
BelowAll(reg) == reg
Below(reg)    == reg + 2

\* The search for (word . n) reads the atom that a tree begins with, in its first
\* half or in the first half of that, and the compiler crashes if there is none.
Readable(n) ==
  CASE n.kind = "missing" -> FALSE
    [] n.kind = "atom"    -> TRUE
    [] n.kind = "pair"    -> /\ n.car.kind # "missing"
                             /\ n.car.kind = "pair" => n.car.car.kind # "missing"

RECURSIVE CompileToReg(_, _, _, _)
CompileToReg(n, code, dst, next) ==
  CASE n.kind = "missing" -> code
    [] n.kind = "atom"    -> LoadValue(n.hash, code, dst)
    [] n.kind = "pair"    ->
         LET car == CompileToReg(n.car, code, next, Below(next))
             cdr == CompileToReg(n.cdr, car, next + 1, Below(next))
         IN  Emit(Encode("XOR", dst, next, next + 1, 0), cdr)

Compile(n) == Emit(Encode("HALT", 0, 0, 0, 0), CompileToReg(n, <<>>, 0, 1))

-----------------------------------------------------------------------------
(* What the code of a tree is to compute. *)

RECURSIVE Value(_)
Value(n) == IF n.kind = "pair" THEN Value(n.car) ^^ Value(n.cdr) ELSE n.hash

\* The exclusive or of the values of all pairs within n, n itself included.
RECURSIVE PairValues(_)
PairValues(n) ==
  IF n.kind # "pair" THEN 0 ELSE Value(n) ^^ (PairValues(n.car) ^^ PairValues(n.cdr))

\* That of the pairs whose value goes to a register other than 0.
InnerValues(n) ==
  IF n.kind # "pair" THEN 0 ELSE PairValues(n.car) ^^ PairValues(n.cdr)

\* Seven registers serve three levels of pairs; the hash 3 cannot be told from
\* the mark of a value that follows; and the code must fit.
RECURSIVE Depth(_)
Depth(n) ==
  IF n.kind # "pair" THEN 0
  ELSE 1 + (IF Depth(n.car) > Depth(n.cdr) THEN Depth(n.car) ELSE Depth(n.cdr))

RECURSIVE Regular(_)
Regular(n) ==
  CASE n.kind = "missing" -> FALSE
    [] n.kind = "atom"    -> n.hash # 3
    [] n.kind = "pair"    -> Regular(n.car) /\ Regular(n.cdr)

RECURSIVE Words(_)
Words(n) ==
  CASE n.kind = "pair" -> Words(n.car) + Words(n.cdr) + 1
    [] n.kind = "atom" -> IF n.hash <= 3 THEN 1 ELSE 3
    [] n.kind = "missing" -> 0

Compilable(n) == Regular(n) /\ Depth(n) <= 3 /\ Words(n) < MaxCode

=============================================================================
