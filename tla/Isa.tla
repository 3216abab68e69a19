-------------------------------- MODULE Isa --------------------------------
(***************************************************************************)
(* What the compiler and the machine agree on (lib/isa.h): the words, and  *)
(* the operations by their codes.                                          *)
(***************************************************************************)
EXTENDS Integers, Sequences

CONSTANTS
  Half,     \* 2^16: what a half-word, an address or a word of code can hold
  MaxCode   \* size of the code buffer

\* A word has bits enough for the longest rotation, and holds every address of code.
ASSUME IsaAssumption ==
  /\ Half \in Nat /\ Half >= 4
  /\ MaxCode \in Nat /\ MaxCode < Half * Half

Word == 0..Half * Half - 1

Opcode == <<"NOP", "MOV", "LOAD", "STORE", "XOR", "ROTL", "ROTR", "ADD", "SUB", "CAR", "CDR",
            "CMP", "JMP", "JZ", "DELTA", "HALT", "SYSCALL", "LOADM", "CALL", "RET">>

=============================================================================
