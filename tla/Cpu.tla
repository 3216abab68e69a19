-------------------------------- MODULE Cpu --------------------------------
(***************************************************************************)
(* The machine running what main.c gives it: a compiled tree, or the words *)
(* of a (word . n) chain as they are.                                      *)
(***************************************************************************)
EXTENDS Machine, Compiler

CONSTANTS
  Trees,        \* the sources that are compiled
  Programs      \* the sources that are words already

Raw == [kind |-> "raw"]   \* no tree: the program is given in words

VARIABLE source   \* the tree the code comes from, or Raw

cpuVars == <<machineVars, source>>

CpuInit ==
  /\ \/ source \in {n \in Trees : Readable(n)} /\ program = Compile(source)
     \/ source = Raw /\ program \in Programs
  /\ MachineInit

CpuNext == MachineNext /\ UNCHANGED source

CpuSpec == CpuInit /\ [][CpuNext]_cpuVars

-----------------------------------------------------------------------------
\* The code of a tree halts with the exclusive or of its atoms in R[0], and that of
\* its inner pairs in delta_acc, whatever memory held before: registers are
\* enough, none is overwritten before it is read, and no word of a value is
\* taken for an instruction.
CompiledValue ==
  source # Raw /\ mode # "boot" /\ ~Running /\ Compilable(source) =>
    /\ HALT_FLAG \in FLAGS
    /\ R[0] = Value(source)
    /\ delta_acc = Pattern ^^ InnerValues(source)

=============================================================================
