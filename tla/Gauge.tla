------------------------------- MODULE Gauge -------------------------------
(***************************************************************************)
(* The gauge table (lib/omienv.c) and its evaluator (lib/gauge_exec.c):    *)
(* entries that may refer to two others, handlers bound to them, and the   *)
(* walk that runs them.  The calls of gauge_exec_eval still to be made are *)
(* kept in `pending`, in order: a failure gives them all up, so a success  *)
(* is the only way to the next.  One step of a walk is one such call.      *)
(***************************************************************************)
EXTENDS Integers, Sequences

CONSTANTS
  GAUGE_EXEC_SLOTS,  \* 128; the mask of an address is one less
  GAUGE_EVAL_MAX,    \* 16
  Table,       \* what omi_gauge_build_table writes
  Entries,     \* the entries that are put into the table
  SlideCodes,  \* the four codes of omicron_slide, in order
  MaxChanges   \* bound: changes of the table and of the handlers

Code  == 0..GAUGE_EXEC_SLOTS - 1
OmiGaugeEntry == [active : BOOLEAN, is_lambda : BOOLEAN, car_addr : Nat, cdr_addr : Nat]

ASSUME GaugeAssumption ==
  /\ GAUGE_EXEC_SLOTS \in Nat \ {0} /\ GAUGE_EVAL_MAX \in Nat
  /\ Table \in [Code -> OmiGaugeEntry] /\ Entries \subseteq OmiGaugeEntry
  /\ SlideCodes \in Seq(Code) /\ SlideCodes # <<>>

NoHandler == "NULL"
Handler   == {"succeeds", "fails"}   \* external: told apart by what they return
Failure   == -9                      \* what a failing handler returns

VARIABLES
  gauge_table,   \* of an entry: active, is_lambda, car_addr and cdr_addr
  gauge_exec_handlers, gauge_exec_bound,
  pending,       \* calls of gauge_exec_eval still to be made, the next one first
  slide,         \* codes of omicron_slide still to be evaluated
  call,          \* the call under way, or the last one: its name and its code
  result,           \* what it has returned, or Busy
  ran,           \* the codes whose handler it has run
  noted,         \* the code it has put into R[0] of the machine, or NoCode
  changes        \* number of changes made, for the bound

gaugeVars == <<gauge_table, gauge_exec_handlers, gauge_exec_bound,
               pending, slide, call, result, ran, noted, changes>>
tables    == <<gauge_table, gauge_exec_handlers, gauge_exec_bound, changes>>

None == <<"none", 0>>
Busy == 1
Idle == result # Busy
NoCode == -1

Unhandled == [c \in Code |-> NoHandler]
Unbound   == [c \in Code |-> FALSE]

GaugeInit ==
  /\ gauge_table = Table /\ gauge_exec_handlers = Unhandled /\ gauge_exec_bound = Unbound
  /\ pending = <<>> /\ slide = <<>>
  /\ call = None /\ result = 0 /\ ran = {} /\ noted = NoCode /\ changes = 0

-----------------------------------------------------------------------------
(* Changes.  Nothing is evaluated meanwhile. *)

Change ==
  /\ Idle /\ changes < MaxChanges /\ changes' = changes + 1
  /\ call' = None /\ result' = 0 /\ ran' = {} /\ noted' = NoCode
  /\ UNCHANGED <<pending, slide>>

\* A code past the last slot is refused by each of them, and changes nothing.
Bind(c, handler) ==
  /\ Change
  /\ gauge_exec_handlers' = [gauge_exec_handlers EXCEPT ![c] = handler]
  /\ gauge_exec_bound' = [gauge_exec_bound EXCEPT ![c] = TRUE]
  /\ UNCHANGED gauge_table

\* The opcode of that name binds no handler, whatever the envelope says.
GaugeBind(c) == Bind(c, NoHandler)

Unbind(c) ==
  /\ Change
  /\ gauge_exec_handlers' = [gauge_exec_handlers EXCEPT ![c] = NoHandler]
  /\ gauge_exec_bound' = [gauge_exec_bound EXCEPT ![c] = FALSE]
  /\ UNCHANGED gauge_table

SetSemantics(c, entry) ==
  /\ Change
  /\ gauge_table' = [gauge_table EXCEPT ![c] = entry]
  /\ UNCHANGED <<gauge_exec_handlers, gauge_exec_bound>>

\* omi_dispatch_init: the handlers go, the table stays as it is.
InitHandlers ==
  /\ Change
  /\ gauge_exec_handlers' = Unhandled /\ gauge_exec_bound' = Unbound
  /\ UNCHANGED gauge_table

-----------------------------------------------------------------------------
(* Evaluation. *)

Return(r) == result' = r /\ pending' = <<>> /\ slide' = <<>>

\* The opcode GAUGE_INVOKE notes the code in R[0] when it comes to an end well.
Note(r, c) == noted' = IF r = 0 THEN c ELSE NoCode

\* The entries that a lambda goes on with; 0 is no address.
Reference(address) == IF address = 0 THEN <<>> ELSE <<address % GAUGE_EXEC_SLOTS>>
References(entry) ==
  IF entry.is_lambda THEN Reference(entry.car_addr) \o Reference(entry.cdr_addr) ELSE <<>>

\* What the handler of c returns, if there is one.
Outcome(c) == IF gauge_exec_handlers[c] = "fails" THEN Failure ELSE 0

RunHandler(c) == ran' = IF gauge_exec_handlers[c] = NoHandler THEN ran ELSE ran \cup {c}

\* Mutant of EvalFailure: the walk stops one level early.
EvalFailureEarly(c, depth) ==
  IF depth >= GAUGE_EVAL_MAX THEN -4
  ELSE IF ~gauge_table[c].active THEN -3 ELSE Outcome(c)

\* What a call of gauge_exec_eval returns before it comes to what a lambda refers to.
EvalFailure(c, depth) ==
  IF depth > GAUGE_EVAL_MAX THEN -4
  ELSE IF ~gauge_table[c].active THEN -3 ELSE Outcome(c)

Underneath(c, depth) ==
  LET refs == References(gauge_table[c]) IN [i \in DOMAIN refs |-> <<refs[i], depth + 1>>]

\* omicron_slide returns which of its codes it was that failed.
EvalFails(c, depth) ==
  /\ EvalFailure(c, depth) # 0
  /\ Return(IF call[1] = "slide" THEN Len(slide) - Len(SlideCodes)
            ELSE EvalFailure(c, depth))
  /\ UNCHANGED noted

EvalSucceeds(c, depth) ==
  /\ EvalFailure(c, depth) = 0
  /\ LET rest == Underneath(c, depth) \o Tail(pending)
     IN \/ /\ rest # <<>> /\ pending' = rest
           /\ UNCHANGED <<noted, result, slide>>
        \/ /\ rest = <<>> /\ slide # <<>>
           /\ pending' = <<<<Head(slide), 0>>>> /\ slide' = Tail(slide)
           /\ UNCHANGED <<noted, result>>
        \/ /\ rest = <<>> /\ slide = <<>>
           /\ Return(0)
           /\ IF call[1] = "invoke" THEN Note(0, call[2]) ELSE UNCHANGED noted

\* No handler of the repository returns a positive value, and none does here.  One
\* would end this walk as a failure does, and not the slide above it.
Eval ==
  /\ ~Idle
  /\ LET c == Head(pending)[1]
         depth == Head(pending)[2]
     IN /\ EvalFails(c, depth) \/ EvalSucceeds(c, depth)
        /\ IF EvalFailure(c, depth) \in {-3, -4} THEN UNCHANGED ran ELSE RunHandler(c)
  /\ UNCHANGED <<tables, call>>

\* gauge_exec_lambda: a handler is run in place of the walk.
Invoke(c) ==
  /\ Idle /\ call' = <<"invoke", c>> /\ UNCHANGED tables
  /\ \/ /\ ~gauge_table[c].active
        /\ ran' = {} /\ Return(-3) /\ Note(-3, c)
     \/ /\ gauge_table[c].active /\ gauge_exec_handlers[c] # NoHandler
        /\ ran' = {c} /\ Return(Outcome(c)) /\ Note(Outcome(c), c)
     \/ /\ gauge_table[c].active /\ gauge_exec_handlers[c] = NoHandler
        /\ ~gauge_table[c].is_lambda
        /\ ran' = {} /\ Return(0) /\ Note(0, c)
     \/ /\ gauge_table[c].active /\ gauge_exec_handlers[c] = NoHandler
        /\ gauge_table[c].is_lambda
        /\ ran' = {} /\ result' = Busy /\ pending' = <<<<c, 0>>>>
        /\ noted' = NoCode /\ UNCHANGED slide

\* omicron_slide looks the code up and then evaluates four others.
Slide(c) ==
  /\ Idle /\ call' = <<"slide", c>> /\ ran' = {} /\ noted' = NoCode /\ UNCHANGED tables
  /\ IF ~gauge_table[c].active THEN Return(-1)
     ELSE /\ result' = Busy
          /\ pending' = <<<<Head(SlideCodes), 0>>>> /\ slide' = Tail(SlideCodes)

GaugeNext ==
  \/ \E c \in Code, handler \in Handler : Bind(c, handler)
  \/ \E c \in Code : GaugeBind(c) \/ Unbind(c) \/ Invoke(c) \/ Slide(c)
  \/ \E c \in Code, entry \in Entries : SetSemantics(c, entry)
  \/ InitHandlers \/ Eval

GaugeSpec == GaugeInit /\ [][GaugeNext]_gaugeVars

-----------------------------------------------------------------------------
(* What a walk is for. *)

Referred(c) ==
  LET refs == References(gauge_table[c]) IN {refs[i] : i \in DOMAIN refs}

\* The chains of n codes from c on, each referred to by the one before.
Chains(c, n) ==
  {p \in [1..n -> Code] : p[1] = c /\ \A i \in 1..n - 1 : p[i + 1] \in Referred(p[i])}

\* The codes that chains of at most n codes lead to.
Reached(c, n) == {d \in Code : \E k \in 1..n : \E p \in Chains(c, k) : p[k] = d}

\* What c refers to, directly or through others, is active, its handlers succeed and
\* no chain has more than n codes.
Whole(c, n) ==
  /\ Chains(c, n + 1) = {}
  /\ \A d \in Reached(c, n) : gauge_table[d].active /\ Outcome(d) = 0

\* The codes of a chain that the limit allows.
MaxChain == GAUGE_EVAL_MAX + 1

\* The codes a call is to walk from; an invoked code with a handler is not walked from.
Handled == call[1] = "invoke" /\ gauge_exec_handlers[call[2]] # NoHandler
Roots   == IF call[1] = "slide" THEN {SlideCodes[i] : i \in DOMAIN SlideCodes}
           ELSE IF Handled THEN {} ELSE {call[2]}

AllWell ==
  /\ gauge_table[call[2]].active
  /\ Handled => Outcome(call[2]) = 0
  /\ \A c \in Roots : Whole(c, MaxChain)

\* The codes whose handlers the call is to run.
Meant == {c \in Code : /\ gauge_exec_handlers[c] # NoHandler
                       /\ \/ Handled /\ c = call[2]
                          \/ \E r \in Roots : c \in Reached(r, MaxChain)}

\* A call returns 0 if and only if everything it refers to, directly or through
\* other entries, is active, no handler fails and nothing is further away than the
\* limit: a loop never passes for a success, and neither does a walk that was given
\* up half way (gauge_exec_eval, omicron_slide).  It has then run every handler on
\* the way and no other; and never, whatever it returns, one that is off the way.
ReturnIsWhole ==
  call # None =>
    /\ ran \subseteq Meant
    /\ Idle => (result = 0 <=> AllWell)
    /\ result = 0 => ran = Meant

=============================================================================
