---------------------------- MODULE GaugeProofs ----------------------------
(***************************************************************************)
(* What a walk through the gauge table returns, and that it ends, for      *)
(* tables of any size and with any references, loops included, and any     *)
(* limit.                                                                  *)
(***************************************************************************)
EXTENDS Gauge, SequenceTheorems, FiniteSetTheorems, TLAPS

-----------------------------------------------------------------------------
(* What a sequence holds. *)

Items(s) == {s[i] : i \in 1..Len(s)}

LEMMA ItemsOfConcat ==
  ASSUME NEW T, NEW s \in Seq(T), NEW t \in Seq(T)
  PROVE  s \o t \in Seq(T) /\ Items(s \o t) = Items(s) \cup Items(t)
  <1> DEFINE u == s \o t
  <1>1. /\ Len(s) \in Nat /\ Len(t) \in Nat /\ u \in Seq(T) /\ Len(u) = Len(s) + Len(t)
        /\ \A i \in 1..Len(s) + Len(t) : u[i] = IF i <= Len(s) THEN s[i] ELSE t[i - Len(s)]
    BY ConcatProperties, LenProperties
  <1> HIDE DEF u
  <1>2. ASSUME NEW x \in Items(u)
        PROVE  x \in Items(s) \cup Items(t)
    <2>1. PICK i \in 1..Len(s) + Len(t) : x = u[i]
      BY <1>1 DEF Items
    <2>2. CASE i <= Len(s)
      <3>1. i \in 1..Len(s) /\ x = s[i]
        BY <1>1, <2>1, <2>2
      <3> QED
        BY <3>1 DEF Items
    <2>3. CASE ~(i <= Len(s))
      <3>1. i - Len(s) \in 1..Len(t) /\ x = t[i - Len(s)]
        BY <1>1, <2>1, <2>3
      <3> QED
        BY <3>1 DEF Items
    <2> QED
      BY <2>2, <2>3
  <1>3. ASSUME NEW x \in Items(s)
        PROVE  x \in Items(u)
    BY <1>1 DEF Items
  <1>4. ASSUME NEW x \in Items(t)
        PROVE  x \in Items(u)
    <2>1. PICK j \in 1..Len(t) : x = t[j]
      BY DEF Items
    <2>2. Len(s) + j \in 1..Len(u) /\ u[Len(s) + j] = t[j]
      BY <1>1
    <2> QED
      BY <2>1, <2>2 DEF Items
  <1> QED
    BY <1>1, <1>2, <1>3, <1>4 DEF u

LEMMA ItemsOfNone == Items(<<>>) = {}
  BY DEF Items

LEMMA ItemsOfOne == ASSUME NEW x PROVE Items(<<x>>) = {x}
  BY DEF Items

LEMMA ItemsOfTail ==
  ASSUME NEW T, NEW s \in Seq(T), s # <<>>
  PROVE  /\ Head(s) \in T /\ Tail(s) \in Seq(T) /\ Len(Tail(s)) = Len(s) - 1
         /\ Items(s) = {Head(s)} \cup Items(Tail(s))
  <1>1. /\ Head(s) \in T /\ Head(s) = s[1]
        /\ Tail(s) \in Seq(T) /\ Len(Tail(s)) = Len(s) - 1
        /\ \A i \in 1..Len(Tail(s)) : Tail(s)[i] = s[i + 1]
        /\ Len(s) \in Nat /\ Len(s) >= 1
    BY HeadTailProperties, EmptySeq, LenProperties
  <1>2. ASSUME NEW x \in Items(s)
        PROVE  x \in {Head(s)} \cup Items(Tail(s))
    <2>1. PICK i \in 1..Len(s) : x = s[i]
      BY DEF Items
    <2>2. CASE i = 1
      BY <1>1, <2>1, <2>2
    <2>3. CASE i # 1
      <3>1. i - 1 \in 1..Len(Tail(s)) /\ Tail(s)[i - 1] = s[i]
        BY <1>1, <2>3
      <3> QED
        BY <2>1, <3>1 DEF Items
    <2> QED
      BY <2>2, <2>3
  <1>3. Head(s) \in Items(s)
    BY <1>1 DEF Items
  <1>4. ASSUME NEW x \in Items(Tail(s))
        PROVE  x \in Items(s)
    <2>1. PICK i \in 1..Len(Tail(s)) : x = Tail(s)[i]
      BY DEF Items
    <2>2. i + 1 \in 1..Len(s) /\ x = s[i + 1]
      BY <1>1, <2>1
    <2> QED
      BY <2>2 DEF Items
  <1> QED
    BY <1>1, <1>2, <1>3, <1>4

-----------------------------------------------------------------------------
(* Chains. *)

LEMMA ReferencesAreCodes ==
  ASSUME NEW entry \in OmiGaugeEntry
  PROVE  References(entry) \in Seq(Code)
  <1>1. ASSUME NEW a \in Nat
        PROVE  Reference(a) \in Seq(Code)
    <2>1. a % GAUGE_EXEC_SLOTS \in Code
      BY GaugeAssumption DEF Code
    <2>2. <<>> \in Seq(Code)
      OBVIOUS
    <2>3. <<a % GAUGE_EXEC_SLOTS>> \in Seq(Code)
      BY <2>1
    <2> QED
      BY <2>2, <2>3 DEF Reference
  <1>2. Reference(entry.car_addr) \in Seq(Code) /\ Reference(entry.cdr_addr) \in Seq(Code)
    BY <1>1 DEF OmiGaugeEntry
  <1>3. <<>> \in Seq(Code)
    OBVIOUS
  <1> QED
    BY <1>2, <1>3, ConcatProperties DEF References

TableOK == gauge_table \in [Code -> OmiGaugeEntry]

LEMMA ReferredAreCodes ==
  ASSUME TableOK, NEW c \in Code
  PROVE  Referred(c) \subseteq Code /\ Referred(c) = Items(References(gauge_table[c]))
  <1>1. References(gauge_table[c]) \in Seq(Code)
    BY ReferencesAreCodes DEF TableOK
  <1>2. DOMAIN References(gauge_table[c]) = 1..Len(References(gauge_table[c]))
    BY <1>1
  <1> QED
    BY <1>1, <1>2, ElementOfSeq DEF Referred, Items

\* A chain begins with its first code, and goes on as a chain of something it refers to.
LEMMA ChainOfOne ==
  ASSUME NEW c \in Code
  PROVE  /\ [i \in 1..1 |-> c] \in Chains(c, 1)
         /\ \A p \in Chains(c, 1) : p[1] = c
  BY DEF Chains

LEMMA ChainTail ==
  ASSUME TableOK, NEW c \in Code, NEW n \in Nat \ {0}, NEW p \in Chains(c, n + 1)
  PROVE  \E r \in Referred(c) : \E q \in Chains(r, n) : q[n] = p[n + 1]
  <1> DEFINE q == [i \in 1..n |-> p[i + 1]]
  <1>1. /\ p \in [1..n + 1 -> Code] /\ p[1] = c
        /\ \A i \in 1..n : p[i + 1] \in Referred(p[i])
    BY DEF Chains
  <1>2. q \in [1..n -> Code]
    BY <1>1
  <1>3. q[1] \in Referred(c) /\ q[n] = p[n + 1]
    BY <1>1
  <1>4. \A i \in 1..n - 1 : q[i + 1] \in Referred(q[i])
    BY <1>1
  <1>5. q \in Chains(q[1], n)
    BY <1>2, <1>4 DEF Chains
  <1> QED
    BY <1>3, <1>5

LEMMA ChainCons ==
  ASSUME TableOK, NEW c \in Code, NEW n \in Nat \ {0},
         NEW r \in Referred(c), NEW q \in Chains(r, n)
  PROVE  \E p \in Chains(c, n + 1) : p[n + 1] = q[n]
  <1> DEFINE p == [i \in 1..n + 1 |-> IF i = 1 THEN c ELSE q[i - 1]]
  <1>1. q \in [1..n -> Code] /\ q[1] = r /\ \A i \in 1..n - 1 : q[i + 1] \in Referred(q[i])
    BY DEF Chains
  <1>2. p \in [1..n + 1 -> Code]
    <2>1. \A i \in 1..n + 1 : i # 1 => i - 1 \in 1..n
      OBVIOUS
    <2> QED
      BY <1>1, <2>1
  <1>3. p[1] = c /\ \A i \in 1..n : p[i + 1] = q[i]
    OBVIOUS
  <1> HIDE DEF p
  <1>4. ASSUME NEW i \in 1..n
        PROVE  p[i + 1] \in Referred(p[i])
    <2>1. CASE i = 1
      BY <1>1, <1>3, <2>1
    <2>2. CASE i # 1
      <3>1. i - 1 \in 1..n - 1 /\ i - 1 \in 1..n /\ (i - 1) + 1 = i
        BY <2>2
      <3>2. p[i + 1] = q[i] /\ p[i] = q[i - 1] /\ q[i] \in Referred(q[i - 1])
        BY <1>1, <1>3, <3>1
      <3> QED
        BY <3>2
    <2> QED
      BY <2>1, <2>2
  <1>5. p \in Chains(c, n + 1)
    BY <1>2, <1>3, <1>4 DEF Chains
  <1> QED
    BY <1>3, <1>5

\* With no code left nothing is reached, and nothing is whole.
LEMMA NothingLeft ==
  ASSUME NEW c \in Code
  PROVE  Reached(c, 0) = {} /\ ~Whole(c, 0)
  <1>1. Reached(c, 0) = {}
    BY DEF Reached
  <1>2. Chains(c, 0 + 1) # {}
    BY ChainOfOne
  <1> QED
    BY <1>1, <1>2 DEF Whole

\* A code reaches itself, and what the codes it refers to reach with one code less.
LEMMA ReachedByOneMore ==
  ASSUME TableOK, NEW c \in Code, NEW n \in Nat
  PROVE  Reached(c, n + 1) = {c} \cup UNION {Reached(r, n) : r \in Referred(c)}
  <1>1. c \in Reached(c, n + 1)
    <2>1. 1 \in 1..n + 1 /\ [i \in 1..1 |-> c][1] = c
      OBVIOUS
    <2> QED
      BY <2>1, ChainOfOne DEF Reached
  <1>2. ASSUME NEW d \in Reached(c, n + 1), d # c
        PROVE  \E r \in Referred(c) : d \in Reached(r, n)
    <2>1. PICK k \in 1..n + 1 : \E p \in Chains(c, k) : p[k] = d
      BY <1>2 DEF Reached
    <2>2. PICK p \in Chains(c, k) : p[k] = d
      BY <2>1
    <2>3. k # 1
      BY <1>2, <2>2, ChainOfOne
    <2>4. k - 1 \in Nat \ {0} /\ k - 1 \in 1..n /\ (k - 1) + 1 = k
      BY <2>3
    <2> DEFINE j == k - 1
    <2>5. j \in Nat \ {0} /\ j \in 1..n /\ j + 1 = k
      BY <2>4
    <2> HIDE DEF j
    <2>6. PICK r \in Referred(c) : \E q \in Chains(r, j) : q[j] = d
      BY <2>2, <2>5, ChainTail
    <2> QED
      BY <1>2, <2>5, <2>6 DEF Reached
  <1>3. ASSUME NEW r \in Referred(c), NEW d \in Reached(r, n)
        PROVE  d \in Reached(c, n + 1)
    <2>1. PICK k \in 1..n : \E q \in Chains(r, k) : q[k] = d
      BY DEF Reached
    <2>2. PICK q \in Chains(r, k) : q[k] = d
      BY <2>1
    <2>3. \E p \in Chains(c, k + 1) : p[k + 1] = d
      BY <2>2, ChainCons
    <2>4. k + 1 \in 1..n + 1
      OBVIOUS
    <2> QED
      BY <2>3, <2>4 DEF Reached
  <1> QED
    BY <1>1, <1>2, <1>3

\* A code is whole if it is as it should be itself, and so is what it refers to.
LEMMA WholeByOneMore ==
  ASSUME TableOK, NEW c \in Code, NEW n \in Nat
  PROVE  Whole(c, n + 1) <=> /\ gauge_table[c].active /\ Outcome(c) = 0
                             /\ \A r \in Referred(c) : Whole(r, n)
  <1>1. Chains(c, (n + 1) + 1) = {} <=> \A r \in Referred(c) : Chains(r, n + 1) = {}
    <2>1. n + 1 \in Nat \ {0}
      OBVIOUS
    <2>2. ASSUME NEW p \in Chains(c, (n + 1) + 1)
          PROVE  \E r \in Referred(c) : Chains(r, n + 1) # {}
      BY <2>1, ChainTail
    <2>3. ASSUME NEW r \in Referred(c), NEW q \in Chains(r, n + 1)
          PROVE  Chains(c, (n + 1) + 1) # {}
      BY <2>1, ChainCons
    <2> QED
      BY <2>2, <2>3
  <1>2. (\A d \in Reached(c, n + 1) : gauge_table[d].active /\ Outcome(d) = 0)
        <=> /\ gauge_table[c].active /\ Outcome(c) = 0
            /\ \A r \in Referred(c) : \A d \in Reached(r, n) :
                 gauge_table[d].active /\ Outcome(d) = 0
    BY ReachedByOneMore
  <1> QED
    BY <1>1, <1>2 DEF Whole

-----------------------------------------------------------------------------
(* The invariant. *)

\* A call of gauge_exec_eval to come: its code and its depth.
Task  == Code \X (0..MaxChain)
Tasks == Items(pending) \cup {<<c, 0>> : c \in Items(slide)}

TaskWhole(t)   == Whole(t[1], MaxChain - t[2])
TaskReaches(t) == Reached(t[1], MaxChain - t[2])

\* The codes with a handler that the tasks of a set come to.
ToRun(tasks) ==
  {c \in Code : gauge_exec_handlers[c] # NoHandler /\ \E t \in tasks : c \in TaskReaches(t)}

GaugeTyped ==
  /\ TableOK
  /\ gauge_exec_handlers \in [Code -> Handler \cup {NoHandler}]
  /\ slide \in Seq(Code) /\ pending \in Seq(Task)
  /\ call # None => call \in {"invoke", "slide"} \X Code
  /\ Idle => slide = <<>> /\ pending = <<>>

\* During a walk, all is well exactly if the rest of the walk will find it so, and
\* what has been run and what will be is what is meant to be.
WalkInv ==
  ~Idle =>
    /\ call # None /\ pending # <<>>
    /\ call[1] = "slide" => Len(slide) < Len(SlideCodes)
    /\ AllWell <=> \A t \in Tasks : TaskWhole(t)
    /\ Meant = ran \cup ToRun(Tasks)

Inv == GaugeTyped /\ WalkInv /\ ReturnIsWhole

LEMMA Limits == MaxChain \in Nat /\ MaxChain >= 1 /\ GAUGE_EVAL_MAX = MaxChain - 1
  BY GaugeAssumption DEF MaxChain

LEMMA InitOK == GaugeInit => Inv
  <1>1. <<>> \in Seq(Code) /\ <<>> \in Seq(Task)
    OBVIOUS
  <1>2. GaugeInit => GaugeTyped
    BY <1>1, GaugeAssumption DEF GaugeInit, GaugeTyped, TableOK, Unhandled
  <1>3. GaugeInit => WalkInv /\ ReturnIsWhole
    BY DEF GaugeInit, WalkInv, ReturnIsWhole, Idle, Busy
  <1> QED
    BY <1>2, <1>3 DEF Inv

\* What the tables say does not change while they stay.
LEMMA Frame ==
  ASSUME UNCHANGED tables
  PROVE  /\ \A c : Referred(c)' = Referred(c) /\ Outcome(c)' = Outcome(c)
         /\ \A c, n : Reached(c, n)' = Reached(c, n) /\ Whole(c, n)' = Whole(c, n)
         /\ \A t : TaskWhole(t)' = TaskWhole(t)
         /\ \A S : ToRun(S)' = ToRun(S)
  <1>1. gauge_table' = gauge_table /\ gauge_exec_handlers' = gauge_exec_handlers
    BY DEF tables
  <1>2. \A c : Referred(c)' = Referred(c) /\ Outcome(c)' = Outcome(c)
    BY <1>1 DEF Referred, Outcome
  <1>3. \A c, n : Chains(c, n)' = Chains(c, n)
    BY <1>2 DEF Chains
  <1>4. \A c, n : Reached(c, n)' = Reached(c, n)
    BY <1>3 DEF Reached
  <1>5. \A c, n : Whole(c, n)' = Whole(c, n)
    BY <1>1, <1>2, <1>3, <1>4 DEF Whole
  <1>6. \A t : TaskWhole(t)' = TaskWhole(t) /\ TaskReaches(t)' = TaskReaches(t)
    BY <1>4, <1>5 DEF TaskWhole, TaskReaches
  <1>7. \A S : ToRun(S)' = ToRun(S)
    BY <1>1, <1>6 DEF ToRun
  <1> QED
    BY <1>2, <1>4, <1>5, <1>6, <1>7

\* A change leaves no call.
LEMMA ChangeStep ==
  ASSUME Inv, Change,
         gauge_table' \in [Code -> OmiGaugeEntry],
         gauge_exec_handlers' \in [Code -> Handler \cup {NoHandler}]
  PROVE  Inv'
  <1>1. Idle'
    BY DEF Change, Idle, Busy
  <1>2. slide = <<>> /\ pending = <<>> /\ slide' = slide /\ pending' = pending /\ call' = None
    BY DEF Change, Inv, GaugeTyped
  <1>3. GaugeTyped'
    BY <1>1, <1>2 DEF Inv, GaugeTyped, TableOK
  <1>4. WalkInv' /\ ReturnIsWhole'
    BY <1>1, <1>2 DEF WalkInv, ReturnIsWhole
  <1> QED
    BY <1>3, <1>4 DEF Inv

\* What is meant, for an invoked code without a handler and for a slide.
LEMMA InvokedMeans ==
  ASSUME NEW c \in Code, call' = <<"invoke", c>>, UNCHANGED tables,
         gauge_exec_handlers[c] = NoHandler
  PROVE  /\ AllWell' <=> gauge_table[c].active /\ Whole(c, MaxChain)
         /\ Meant' = {d \in Code : gauge_exec_handlers[d] # NoHandler /\ d \in Reached(c, MaxChain)}
  <1>1. gauge_table' = gauge_table /\ gauge_exec_handlers' = gauge_exec_handlers
    BY DEF tables
  <1>2. call'[1] = "invoke" /\ call'[2] = c
    OBVIOUS
  <1>3. ~Handled' /\ Roots' = {c}
    BY <1>1, <1>2 DEF Handled, Roots
  <1>4. \A x, n : Reached(x, n)' = Reached(x, n) /\ Whole(x, n)' = Whole(x, n)
    BY Frame
  <1>5. AllWell' <=> gauge_table[c].active /\ Whole(c, MaxChain)
    BY <1>1, <1>2, <1>3, <1>4 DEF AllWell
  <1>6. Meant' = {d \in Code : gauge_exec_handlers[d] # NoHandler /\ d \in Reached(c, MaxChain)}
    BY <1>1, <1>3, <1>4 DEF Meant
  <1> QED
    BY <1>5, <1>6

LEMMA SlideMeans ==
  ASSUME NEW c \in Code, call' = <<"slide", c>>, UNCHANGED tables
  PROVE  /\ AllWell' <=> gauge_table[c].active /\ \A x \in Items(SlideCodes) : Whole(x, MaxChain)
         /\ Meant' = {d \in Code : /\ gauge_exec_handlers[d] # NoHandler
                                   /\ \E x \in Items(SlideCodes) : d \in Reached(x, MaxChain)}
  <1>1. gauge_table' = gauge_table /\ gauge_exec_handlers' = gauge_exec_handlers
    BY DEF tables
  <1>2. call'[1] = "slide" /\ call'[2] = c
    OBVIOUS
  <1>3. DOMAIN SlideCodes = 1..Len(SlideCodes)
    BY GaugeAssumption
  <1>4. ~Handled' /\ Roots' = Items(SlideCodes)
    BY <1>2, <1>3 DEF Handled, Roots, Items
  <1>5. \A x, n : Reached(x, n)' = Reached(x, n) /\ Whole(x, n)' = Whole(x, n)
    BY Frame
  <1>6. AllWell' <=> gauge_table[c].active /\ \A x \in Items(SlideCodes) : Whole(x, MaxChain)
    BY <1>1, <1>2, <1>4, <1>5 DEF AllWell
  <1>7. Meant' = {d \in Code : /\ gauge_exec_handlers[d] # NoHandler
                              /\ \E x \in Items(SlideCodes) : d \in Reached(x, MaxChain)}
    BY <1>1, <1>4, <1>5 DEF Meant
  <1> QED
    BY <1>6, <1>7

LEMMA InvokeStep ==
  ASSUME Inv, NEW c \in Code, Invoke(c)
  PROVE  Inv'
  <1>1. /\ call' = <<"invoke", c>> /\ UNCHANGED tables
        /\ gauge_table' = gauge_table /\ gauge_exec_handlers' = gauge_exec_handlers
        /\ slide = <<>> /\ slide' = <<>> /\ call' # None
    BY DEF Invoke, tables, Return, Inv, GaugeTyped, None
  <1>2. <<>> \in Seq(Task) /\ <<>> \in Seq(Code)
    OBVIOUS
  <1>3. ASSUME pending' \in Seq(Task), Idle' => pending' = <<>>
        PROVE  GaugeTyped'
    BY <1>1, <1>2, <1>3 DEF Inv, GaugeTyped, TableOK
  <1>4. call'[1] = "invoke" /\ call'[2] = c
    BY <1>1
  <1>5. \A x : Outcome(x)' = Outcome(x)
    BY <1>1, Frame
  <1>6. Outcome(c) \in {0, -9} /\ (gauge_exec_handlers[c] = NoHandler => Outcome(c) = 0)
    BY DEF Outcome, Failure, NoHandler
  <1>7. CASE ~gauge_table[c].active
    <2>1. ran' = {} /\ result' = -3 /\ pending' = <<>>
      BY <1>7 DEF Invoke, Return
    <2>2. Idle' /\ ~AllWell'
      BY <1>1, <1>4, <1>7, <2>1 DEF Idle, Busy, AllWell
    <2> QED
      BY <1>2, <1>3, <2>1, <2>2 DEF Inv, WalkInv, ReturnIsWhole
  <1>8. CASE gauge_table[c].active /\ gauge_exec_handlers[c] # NoHandler
    <2>1. ran' = {c} /\ result' = Outcome(c) /\ pending' = <<>>
      BY <1>8 DEF Invoke, Return
    <2>2. Handled' /\ Roots' = {}
      BY <1>1, <1>4, <1>8 DEF Handled, Roots
    <2>3. AllWell' <=> Outcome(c) = 0
      BY <1>1, <1>4, <1>5, <1>8, <2>2 DEF AllWell
    <2>4. Meant' = {c}
      BY <1>1, <1>4, <1>8, <2>2 DEF Meant
    <2>5. Idle'
      BY <1>6, <2>1 DEF Idle, Busy
    <2> QED
      BY <1>2, <1>3, <2>1, <2>3, <2>4, <2>5 DEF Inv, WalkInv, ReturnIsWhole
  <1>9. CASE gauge_table[c].active /\ gauge_exec_handlers[c] = NoHandler /\ ~gauge_table[c].is_lambda
    <2>1. ran' = {} /\ result' = 0 /\ pending' = <<>>
      BY <1>9 DEF Invoke, Return
    <2>2. TableOK /\ Referred(c) = {}
      <3>1. References(gauge_table[c]) = <<>>
        BY <1>9 DEF References
      <3> QED
        BY <3>1 DEF Referred, Inv, GaugeTyped
    <2>3. GAUGE_EVAL_MAX \in Nat /\ MaxChain = GAUGE_EVAL_MAX + 1
      BY Limits DEF MaxChain
    <2>4. Whole(c, MaxChain) /\ Reached(c, MaxChain) = {c}
      BY <1>6, <1>9, <2>2, <2>3, WholeByOneMore, ReachedByOneMore
    <2>5. AllWell' /\ Meant' = {}
      BY <1>1, <1>9, <2>4, InvokedMeans
    <2>6. Idle'
      BY <2>1 DEF Idle, Busy
    <2> QED
      BY <1>2, <1>3, <2>1, <2>5, <2>6 DEF Inv, WalkInv, ReturnIsWhole
  <1>10. CASE gauge_table[c].active /\ gauge_exec_handlers[c] = NoHandler /\ gauge_table[c].is_lambda
    <2>1. ran' = {} /\ result' = Busy /\ pending' = <<<<c, 0>>>>
      BY <1>10 DEF Invoke
    <2>2. <<c, 0>> \in Task
      BY Limits DEF Task
    <2>3. pending' \in Seq(Task) /\ pending' # <<>> /\ Items(pending') = {<<c, 0>>}
      BY <2>1, <2>2, ItemsOfOne
    <2>4. Tasks' = {<<c, 0>>}
      BY <1>1, <2>3, ItemsOfNone DEF Tasks, Items
    <2>5. MaxChain - <<c, 0>>[2] = MaxChain /\ <<c, 0>>[1] = c
      BY Limits
    <2>6. AllWell' <=> TaskWhole(<<c, 0>>)
      BY <1>1, <1>10, <2>5, InvokedMeans DEF TaskWhole
    <2>7. Meant' = ToRun({<<c, 0>>})
      BY <1>1, <1>10, <2>5, InvokedMeans DEF ToRun, TaskReaches
    <2>8. WalkInv'
      <3>1. \A t : TaskWhole(t)' = TaskWhole(t)
        BY <1>1, Frame
      <3>2. ToRun({<<c, 0>>})' = ToRun({<<c, 0>>})
        BY <1>1, Frame
      <3>3. AllWell' <=> \A t \in Tasks' : TaskWhole(t)'
        BY <2>4, <2>6, <3>1
      <3>4. Meant' = ran' \cup ToRun(Tasks)'
        BY <2>1, <2>4, <2>7, <3>2
      <3> QED
        BY <1>1, <1>4, <2>3, <3>3, <3>4 DEF WalkInv
    <2>9. ReturnIsWhole'
      BY <2>1 DEF ReturnIsWhole, Idle, Busy
    <2>10. ~Idle'
      BY <2>1 DEF Idle
    <2> QED
      BY <1>3, <2>3, <2>8, <2>9, <2>10 DEF Inv
  <1> QED
    BY <1>7, <1>8, <1>9, <1>10

LEMMA SlideStep ==
  ASSUME Inv, NEW c \in Code, Slide(c)
  PROVE  Inv'
  <1>1. /\ call' = <<"slide", c>> /\ UNCHANGED tables /\ ran' = {}
        /\ gauge_table' = gauge_table /\ gauge_exec_handlers' = gauge_exec_handlers
        /\ call' # None
    BY DEF Slide, tables, None
  <1>2. call'[1] = "slide" /\ call'[2] = c
    BY <1>1
  <1>3. <<>> \in Seq(Task) /\ <<>> \in Seq(Code)
    OBVIOUS
  <1>4. ASSUME pending' \in Seq(Task), slide' \in Seq(Code),
               Idle' => slide' = <<>> /\ pending' = <<>>
        PROVE  GaugeTyped'
    BY <1>1, <1>4 DEF Inv, GaugeTyped, TableOK
  <1>5. CASE ~gauge_table[c].active
    <2>1. result' = -1 /\ pending' = <<>> /\ slide' = <<>>
      BY <1>5 DEF Slide, Return
    <2>2. Idle' /\ ~AllWell'
      BY <1>1, <1>2, <1>5, <2>1 DEF Idle, Busy, AllWell
    <2> QED
      BY <1>1, <1>3, <1>4, <2>1, <2>2 DEF Inv, WalkInv, ReturnIsWhole
  <1>6. CASE gauge_table[c].active
    <2>1. /\ result' = Busy /\ pending' = <<<<Head(SlideCodes), 0>>>>
          /\ slide' = Tail(SlideCodes)
      BY <1>6 DEF Slide
    <2>2. /\ Head(SlideCodes) \in Code /\ slide' \in Seq(Code)
          /\ Len(slide') = Len(SlideCodes) - 1 /\ Len(SlideCodes) \in Nat
          /\ Items(SlideCodes) = {Head(SlideCodes)} \cup Items(slide')
      BY <2>1, GaugeAssumption, ItemsOfTail
    <2>3. <<Head(SlideCodes), 0>> \in Task
      BY <2>2, Limits DEF Task
    <2>4. pending' \in Seq(Task) /\ pending' # <<>> /\ Items(pending') = {<<Head(SlideCodes), 0>>}
      BY <2>1, <2>3, ItemsOfOne
    <2> DEFINE begun == {<<x, 0>> : x \in Items(SlideCodes)}
    <2>5. Tasks' = begun
      BY <2>2, <2>4 DEF Tasks, Items
    <2>6. \A x : MaxChain - <<x, 0>>[2] = MaxChain /\ <<x, 0>>[1] = x
      BY Limits
    <2>7. AllWell' <=> \A t \in begun : TaskWhole(t)
      BY <1>1, <1>6, <2>6, SlideMeans DEF TaskWhole
    <2>8. Meant' = ToRun(begun)
      BY <1>1, <2>6, SlideMeans DEF ToRun, TaskReaches
    <2> HIDE DEF begun
    <2>9. WalkInv'
      <3>1. (\A t : TaskWhole(t)' = TaskWhole(t)) /\ (\A S : ToRun(S)' = ToRun(S))
        BY <1>1, Frame
      <3>2. AllWell' <=> \A t \in Tasks' : TaskWhole(t)'
        BY <2>5, <2>7, <3>1
      <3>3. Meant' = ran' \cup ToRun(Tasks)'
        <4>1. ToRun(Tasks)' = ToRun(begun)
          BY <1>1, <2>5, <3>1 DEF ToRun, TaskReaches
        <4> QED
          BY <1>1, <2>8, <4>1
      <3>4. Len(slide') < Len(SlideCodes)
        BY <2>2
      <3> QED
        BY <1>1, <2>4, <3>2, <3>3, <3>4 DEF WalkInv
    <2>10. ReturnIsWhole' /\ ~Idle'
      BY <1>1, <2>1 DEF ReturnIsWhole, Idle, Busy
    <2> QED
      BY <1>4, <2>2, <2>4, <2>9, <2>10 DEF Inv
  <1> QED
    BY <1>5, <1>6

-----------------------------------------------------------------------------
(* One call of gauge_exec_eval. *)

\* What the call finds decides about its task: a failure that the task cannot be
\* whole, a success that it is whole if what it refers to is.
LEMMA FailureMeans ==
  ASSUME TableOK, NEW c \in Code, NEW depth \in 0..MaxChain, EvalFailure(c, depth) # 0
  PROVE  ~TaskWhole(<<c, depth>>)
  <1>1. <<c, depth>>[1] = c /\ <<c, depth>>[2] = depth
    OBVIOUS
  <1>2. CASE depth > GAUGE_EVAL_MAX
    <2>1. MaxChain - depth = 0
      BY <1>2, Limits
    <2> QED
      BY <1>1, <2>1, NothingLeft DEF TaskWhole
  <1>3. CASE ~(depth > GAUGE_EVAL_MAX)
    <2> DEFINE n == GAUGE_EVAL_MAX - depth
    <2>1. n \in Nat /\ MaxChain - depth = n + 1
      BY <1>3, Limits
    <2>2. ~(gauge_table[c].active /\ Outcome(c) = 0)
      BY <1>3 DEF EvalFailure
    <2> HIDE DEF n
    <2> QED
      BY <1>1, <2>1, <2>2, WholeByOneMore DEF TaskWhole
  <1> QED
    BY <1>2, <1>3

LEMMA UnderneathItems ==
  ASSUME TableOK, NEW c \in Code, NEW depth \in 0..GAUGE_EVAL_MAX
  PROVE  /\ Underneath(c, depth) \in Seq(Task)
         /\ Items(Underneath(c, depth)) = {<<r, depth + 1>> : r \in Referred(c)}
  <1> DEFINE refs == References(gauge_table[c])
             under == Underneath(c, depth)
  <1>1. refs \in Seq(Code)
    BY ReferencesAreCodes DEF TableOK
  <1>2. DOMAIN refs = 1..Len(refs) /\ Len(refs) \in Nat /\ \A i \in 1..Len(refs) : refs[i] \in Code
    BY <1>1
  <1>3. Referred(c) = {refs[i] : i \in 1..Len(refs)}
    BY <1>2 DEF Referred
  <1>4. under = [i \in 1..Len(refs) |-> <<refs[i], depth + 1>>]
    BY <1>2 DEF Underneath
  <1> HIDE DEF refs, under
  <1>5. depth + 1 \in 0..MaxChain
    BY Limits
  <1>6. under \in [1..Len(refs) -> Task]
    BY <1>2, <1>4, <1>5 DEF Task
  <1>7. under \in Seq(Task) /\ Len(under) = Len(refs)
    <2>1. under \in Seq(Task)
      BY <1>2, <1>6, SeqDef
    <2>2. DOMAIN under = 1..Len(under) /\ Len(under) \in Nat
      BY <2>1, LenProperties
    <2> QED
      BY <1>2, <1>6, <2>1, <2>2
  <1>8. Items(under) = {<<refs[i], depth + 1>> : i \in 1..Len(refs)}
    BY <1>4, <1>7 DEF Items
  <1> QED
    BY <1>3, <1>7, <1>8 DEF under

LEMMA SuccessMeans ==
  ASSUME TableOK, NEW c \in Code, NEW depth \in 0..MaxChain, EvalFailure(c, depth) = 0
  PROVE  LET under == Items(Underneath(c, depth))
         IN  /\ Underneath(c, depth) \in Seq(Task)
             /\ TaskWhole(<<c, depth>>) <=> \A t \in under : TaskWhole(t)
             /\ TaskReaches(<<c, depth>>) = {c} \cup UNION {TaskReaches(t) : t \in under}
  <1> DEFINE under == Items(Underneath(c, depth))
             n == GAUGE_EVAL_MAX - depth
  <1>1. ~(depth > GAUGE_EVAL_MAX) /\ gauge_table[c].active /\ Outcome(c) = 0
    BY DEF EvalFailure
  <1>2. /\ depth \in 0..GAUGE_EVAL_MAX /\ n \in Nat
        /\ MaxChain - depth = n + 1 /\ MaxChain - (depth + 1) = n
    BY <1>1, Limits
  <1>3. Underneath(c, depth) \in Seq(Task) /\ under = {<<r, depth + 1>> : r \in Referred(c)}
    BY <1>2, UnderneathItems
  <1> HIDE DEF n, under
  <1>4. \A r \in Referred(c) : /\ TaskWhole(<<r, depth + 1>>) <=> Whole(r, n)
                              /\ TaskReaches(<<r, depth + 1>>) = Reached(r, n)
    BY <1>2 DEF TaskWhole, TaskReaches
  <1>5. /\ TaskWhole(<<c, depth>>) <=> Whole(c, n + 1)
        /\ TaskReaches(<<c, depth>>) = Reached(c, n + 1)
    BY <1>2 DEF TaskWhole, TaskReaches
  <1>6. TaskWhole(<<c, depth>>) <=> \A t \in under : TaskWhole(t)
    BY <1>1, <1>2, <1>3, <1>4, <1>5, WholeByOneMore
  <1>7. TaskReaches(<<c, depth>>) = {c} \cup UNION {TaskReaches(t) : t \in under}
    <2>1. UNION {TaskReaches(t) : t \in under} = UNION {Reached(r, n) : r \in Referred(c)}
      BY <1>3, <1>4
    <2> QED
      BY <1>2, <1>5, <2>1, ReachedByOneMore
  <1> QED
    BY <1>3, <1>6, <1>7 DEF under

\* The parts of a walk that Eval leaves alone.
LEMMA EvalFrame ==
  ASSUME Inv, Eval
  PROVE  /\ UNCHANGED tables /\ UNCHANGED call /\ call # None
         /\ (AllWell' <=> AllWell) /\ Meant' = Meant
  <1>1. UNCHANGED tables /\ UNCHANGED call /\ ~Idle
    BY DEF Eval
  <1>2. gauge_table' = gauge_table /\ gauge_exec_handlers' = gauge_exec_handlers
    BY <1>1 DEF tables
  <1>3. /\ \A x : Outcome(x)' = Outcome(x)
        /\ \A x, n : Reached(x, n)' = Reached(x, n) /\ Whole(x, n)' = Whole(x, n)
    BY <1>1, Frame
  <1>4. (Handled' <=> Handled) /\ Roots' = Roots
    BY <1>1, <1>2 DEF Handled, Roots
  <1>5. AllWell' <=> AllWell
    BY <1>1, <1>2, <1>3, <1>4 DEF AllWell
  <1>6. Meant' = Meant
    BY <1>1, <1>2, <1>3, <1>4 DEF Meant
  <1> QED
    BY <1>1, <1>5, <1>6 DEF Inv, WalkInv

LEMMA EvalFailsStep ==
  ASSUME Inv, Eval, EvalFails(Head(pending)[1], Head(pending)[2])
  PROVE  Inv'
  <1> DEFINE c == Head(pending)[1]
             depth == Head(pending)[2]
  <1>1. /\ ~Idle /\ TableOK /\ pending \in Seq(Task) /\ pending # <<>>
        /\ gauge_exec_handlers \in [Code -> Handler \cup {NoHandler}]
        /\ call[1] = "slide" => Len(slide) < Len(SlideCodes)
        /\ slide \in Seq(Code)
    BY DEF Eval, Inv, GaugeTyped, WalkInv
  <1>2. Head(pending) \in Task /\ Head(pending) \in Items(pending)
    BY <1>1, ItemsOfTail
  <1>3. c \in Code /\ depth \in 0..MaxChain /\ Head(pending) = <<c, depth>>
    BY <1>2 DEF Task
  <1> HIDE DEF c, depth
  <1>4. EvalFailure(c, depth) # 0 /\ EvalFailure(c, depth) \in {-9, -4, -3}
    BY DEF EvalFails, EvalFailure, Outcome, Failure, c, depth
  <1>5. ~AllWell /\ Meant = ran \cup ToRun(Tasks) /\ <<c, depth>> \in Tasks
    BY <1>1, <1>2, <1>3, <1>4, FailureMeans DEF Inv, WalkInv, Tasks
  <1>6. result' # 0 /\ Idle' /\ pending' = <<>> /\ slide' = <<>>
    <2>1. /\ pending' = <<>> /\ slide' = <<>>
          /\ result' = IF call[1] = "slide" THEN Len(slide) - Len(SlideCodes)
                       ELSE EvalFailure(c, depth)
      BY DEF EvalFails, Return, c, depth
    <2>2. Len(slide) \in Nat /\ Len(SlideCodes) \in Nat
      BY <1>1, GaugeAssumption
    <2> QED
      BY <1>1, <1>4, <2>1, <2>2 DEF Idle, Busy
  <1>7. ran' \subseteq Meant
    <2>1. CASE EvalFailure(c, depth) \in {-3, -4}
      BY <1>5, <2>1 DEF Eval, c, depth
    <2>2. CASE EvalFailure(c, depth) \notin {-3, -4}
      <3>1. ran' = IF gauge_exec_handlers[c] = NoHandler THEN ran ELSE ran \cup {c}
        BY <2>2 DEF Eval, RunHandler, c, depth
      <3>2. ~(depth > GAUGE_EVAL_MAX)
        BY <2>2 DEF EvalFailure
      <3> DEFINE n == GAUGE_EVAL_MAX - depth
      <3>3. n \in Nat /\ MaxChain - depth = n + 1
        BY <1>3, <3>2, Limits
      <3> HIDE DEF n
      <3>4. c \in TaskReaches(<<c, depth>>)
        BY <1>1, <1>3, <3>3, ReachedByOneMore DEF TaskReaches
      <3>5. gauge_exec_handlers[c] # NoHandler => c \in ToRun(Tasks)
        BY <1>3, <1>5, <3>4 DEF ToRun
      <3> QED
        BY <1>5, <3>1, <3>5
    <2> QED
      BY <2>1, <2>2
  <1>8. <<>> \in Seq(Task) /\ <<>> \in Seq(Code)
    OBVIOUS
  <1>9. GaugeTyped'
    BY <1>6, <1>8, EvalFrame DEF Inv, GaugeTyped, TableOK, tables
  <1>10. WalkInv' /\ ReturnIsWhole'
    BY <1>5, <1>6, <1>7, EvalFrame DEF WalkInv, ReturnIsWhole
  <1> QED
    BY <1>9, <1>10 DEF Inv

LEMMA EvalSucceedsStep ==
  ASSUME Inv, Eval, EvalSucceeds(Head(pending)[1], Head(pending)[2])
  PROVE  Inv'
  <1> DEFINE c == Head(pending)[1]
             depth == Head(pending)[2]
             rest == Underneath(c, depth) \o Tail(pending)
             slid == {<<x, 0>> : x \in Items(slide)}
             left == Items(rest) \cup slid
  <1>1. /\ ~Idle /\ TableOK /\ pending \in Seq(Task) /\ pending # <<>>
        /\ gauge_exec_handlers \in [Code -> Handler \cup {NoHandler}]
        /\ call[1] = "slide" => Len(slide) < Len(SlideCodes)
        /\ slide \in Seq(Code)
        /\ AllWell <=> \A t \in Tasks : TaskWhole(t)
        /\ Meant = ran \cup ToRun(Tasks)
    BY DEF Eval, Inv, GaugeTyped, WalkInv
  <1>2. /\ Head(pending) \in Task /\ Tail(pending) \in Seq(Task)
        /\ Items(pending) = {Head(pending)} \cup Items(Tail(pending))
    BY <1>1, ItemsOfTail
  <1>3. c \in Code /\ depth \in 0..MaxChain /\ Head(pending) = <<c, depth>>
    BY <1>2 DEF Task
  <1>4. EvalFailure(c, depth) = 0
    BY DEF EvalSucceeds
  <1>5. ran' = IF gauge_exec_handlers[c] = NoHandler THEN ran ELSE ran \cup {c}
    BY <1>4 DEF Eval, RunHandler
  <1>6. \/ rest # <<>> /\ pending' = rest /\ UNCHANGED <<noted, result, slide>>
        \/ /\ rest = <<>> /\ slide # <<>>
           /\ pending' = <<<<Head(slide), 0>>>> /\ slide' = Tail(slide)
           /\ UNCHANGED <<noted, result>>
        \/ rest = <<>> /\ slide = <<>> /\ Return(0)
    BY DEF EvalSucceeds
  <1> HIDE DEF c, depth
  <1> DEFINE under == Items(Underneath(c, depth))
  <1>7. /\ Underneath(c, depth) \in Seq(Task)
        /\ TaskWhole(<<c, depth>>) <=> \A t \in under : TaskWhole(t)
        /\ TaskReaches(<<c, depth>>) = {c} \cup UNION {TaskReaches(t) : t \in under}
    BY <1>1, <1>3, <1>4, SuccessMeans
  <1>8. rest \in Seq(Task) /\ Items(rest) = under \cup Items(Tail(pending))
    <2> DEFINE u == Underneath(c, depth)
               v == Tail(pending)
    <2>1. u \in Seq(Task) /\ v \in Seq(Task)
      BY <1>2, <1>7
    <2> HIDE DEF u, v
    <2>2. u \o v \in Seq(Task) /\ Items(u \o v) = Items(u) \cup Items(v)
      BY <2>1, ItemsOfConcat
    <2> QED
      BY <2>2 DEF u, v
  <1> HIDE DEF rest, under
  <1>9. /\ Tasks = {<<c, depth>>} \cup Items(Tail(pending)) \cup slid
        /\ left = under \cup Items(Tail(pending)) \cup slid
    BY <1>2, <1>3, <1>8 DEF Tasks
  <1> HIDE DEF left, slid
  <1>10. AllWell <=> \A t \in left : TaskWhole(t)
    BY <1>1, <1>7, <1>9
  <1>11. Meant = ran' \cup ToRun(left)
    <2>1. ASSUME NEW x \in ToRun(Tasks)
          PROVE  x \in ran' \cup ToRun(left)
      <3>1. x \in Code /\ gauge_exec_handlers[x] # NoHandler
        BY DEF ToRun
      <3>2. PICK t \in Tasks : x \in TaskReaches(t)
        BY DEF ToRun
      <3>3. CASE x = c
        BY <1>5, <3>1, <3>3
      <3>4. CASE x # c
        <4>1. \E u \in left : x \in TaskReaches(u)
          BY <1>7, <1>9, <3>2, <3>4
        <4> QED
          BY <3>1, <4>1 DEF ToRun
      <3> QED
        BY <3>3, <3>4
    <2>2. ASSUME NEW x \in ToRun(left)
          PROVE  x \in ToRun(Tasks)
      <3>1. x \in Code /\ gauge_exec_handlers[x] # NoHandler
        BY DEF ToRun
      <3>2. PICK t \in left : x \in TaskReaches(t)
        BY DEF ToRun
      <3>3. \E u \in Tasks : x \in TaskReaches(u)
        BY <1>7, <1>9, <3>2
      <3> QED
        BY <3>1, <3>3 DEF ToRun
    <2>3. gauge_exec_handlers[c] # NoHandler => c \in ToRun(Tasks)
      BY <1>3, <1>7, <1>9 DEF ToRun
    <2> QED
      BY <1>1, <1>5, <2>1, <2>2, <2>3
  <1>12. /\ UNCHANGED tables /\ UNCHANGED call /\ call # None
         /\ (AllWell' <=> AllWell) /\ Meant' = Meant
    BY EvalFrame
  <1>13. /\ \A t : TaskWhole(t)' = TaskWhole(t)
         /\ gauge_exec_handlers' = gauge_exec_handlers
         /\ \A t : TaskReaches(t)' = TaskReaches(t)
    BY <1>12, Frame DEF tables, TaskReaches
  <1>14. ASSUME Tasks' = left, ~Idle', pending' \in Seq(Task), pending' # <<>>, slide' \in Seq(Code),
                call[1] = "slide" => Len(slide') < Len(SlideCodes)
         PROVE  Inv'
    <2>1. GaugeTyped'
      BY <1>12, <1>14 DEF Inv, GaugeTyped, TableOK, tables
    <2>2. ToRun(Tasks)' = ToRun(left)
      BY <1>13, <1>14 DEF ToRun
    <2>3. AllWell' <=> \A t \in Tasks' : TaskWhole(t)'
      BY <1>10, <1>12, <1>13, <1>14
    <2>4. WalkInv'
      BY <1>11, <1>12, <1>14, <2>2, <2>3 DEF WalkInv
    <2>5. ran' \subseteq Meant' /\ result' = Busy
      BY <1>11, <1>12, <1>14 DEF Idle
    <2>6. ReturnIsWhole'
      BY <1>14, <2>5 DEF ReturnIsWhole, Idle, Busy
    <2> QED
      BY <2>1, <2>4, <2>6 DEF Inv
  <1>15. CASE rest # <<>> /\ pending' = rest /\ UNCHANGED <<noted, result, slide>>
    <2>1. Tasks' = left
      BY <1>15 DEF Tasks, left, slid, Items
    <2> QED
      BY <1>1, <1>8, <1>14, <1>15, <2>1 DEF Idle
  <1>16. CASE /\ rest = <<>> /\ slide # <<>>
              /\ pending' = <<<<Head(slide), 0>>>> /\ slide' = Tail(slide)
              /\ UNCHANGED <<noted, result>>
    <2>1. /\ Head(slide) \in Code /\ Tail(slide) \in Seq(Code) /\ Len(Tail(slide)) = Len(slide) - 1
          /\ Items(slide) = {Head(slide)} \cup Items(Tail(slide))
      BY <1>1, <1>16, ItemsOfTail
    <2>2. <<Head(slide), 0>> \in Task
      BY <2>1, Limits DEF Task
    <2>3. pending' \in Seq(Task) /\ pending' # <<>> /\ Items(pending') = {<<Head(slide), 0>>}
      BY <1>16, <2>2, ItemsOfOne
    <2>4. left = slid
      BY <1>16, ItemsOfNone DEF left
    <2>5. Tasks' = Items(pending') \cup {<<x, 0>> : x \in Items(Tail(slide))}
      BY <1>16 DEF Tasks, Items
    <2>6. Tasks' = left
      BY <2>1, <2>3, <2>4, <2>5 DEF slid
    <2>7. Len(slide) \in Nat /\ Len(SlideCodes) \in Nat
      BY <1>1, GaugeAssumption
    <2> QED
      BY <1>1, <1>14, <1>16, <2>1, <2>3, <2>6, <2>7 DEF Idle
  <1>17. CASE rest = <<>> /\ slide = <<>> /\ Return(0)
    <2>1. left = {}
      BY <1>17, ItemsOfNone DEF left, slid
    <2>2. AllWell /\ Meant = ran'
      BY <1>10, <1>11, <2>1 DEF ToRun
    <2>3. result' = 0 /\ pending' = <<>> /\ slide' = <<>> /\ Idle'
      BY <1>17 DEF Return, Idle, Busy
    <2>4. <<>> \in Seq(Task) /\ <<>> \in Seq(Code)
      OBVIOUS
    <2>5. GaugeTyped'
      BY <1>12, <2>3, <2>4 DEF Inv, GaugeTyped, TableOK, tables
    <2>6. WalkInv' /\ ReturnIsWhole'
      BY <1>12, <2>2, <2>3 DEF WalkInv, ReturnIsWhole
    <2> QED
      BY <2>5, <2>6 DEF Inv
  <1> QED
    BY <1>6, <1>15, <1>16, <1>17

-----------------------------------------------------------------------------
LEMMA Step ==
  ASSUME Inv, GaugeNext
  PROVE  Inv'
  <1>1. /\ gauge_table \in [Code -> OmiGaugeEntry]
        /\ gauge_exec_handlers \in [Code -> Handler \cup {NoHandler}]
    BY DEF Inv, GaugeTyped, TableOK
  <1>2. ASSUME NEW c \in Code, NEW handler \in Handler \cup {NoHandler}, Bind(c, handler)
        PROVE  Inv'
    <2>1. Change /\ gauge_table' = gauge_table
          /\ gauge_exec_handlers' = [gauge_exec_handlers EXCEPT ![c] = handler]
      BY <1>2 DEF Bind
    <2> QED
      BY <1>1, <2>1, ChangeStep
  <1>3. ASSUME NEW c \in Code, GaugeBind(c)
        PROVE  Inv'
    BY <1>2, <1>3 DEF GaugeBind
  <1>4. ASSUME NEW c \in Code, Unbind(c)
        PROVE  Inv'
    <2>1. Change /\ gauge_table' = gauge_table
          /\ gauge_exec_handlers' = [gauge_exec_handlers EXCEPT ![c] = NoHandler]
      BY <1>4 DEF Unbind
    <2> QED
      BY <1>1, <2>1, ChangeStep
  <1>5. ASSUME NEW c \in Code, NEW entry \in Entries, SetSemantics(c, entry)
        PROVE  Inv'
    <2>1. Change /\ gauge_table' = [gauge_table EXCEPT ![c] = entry]
          /\ gauge_exec_handlers' = gauge_exec_handlers /\ entry \in OmiGaugeEntry
      BY <1>5, GaugeAssumption DEF SetSemantics
    <2> QED
      BY <1>1, <2>1, ChangeStep
  <1>6. CASE InitHandlers
    <2>1. Change /\ gauge_table' = gauge_table
          /\ gauge_exec_handlers' \in [Code -> Handler \cup {NoHandler}]
      BY <1>6 DEF InitHandlers, Unhandled
    <2> QED
      BY <1>1, <2>1, ChangeStep
  <1>7. CASE Eval
    <2>1. \/ EvalFails(Head(pending)[1], Head(pending)[2])
          \/ EvalSucceeds(Head(pending)[1], Head(pending)[2])
      BY <1>7 DEF Eval
    <2> QED
      BY <1>7, <2>1, EvalFailsStep, EvalSucceedsStep
  <1> QED
    BY <1>2, <1>3, <1>4, <1>5, <1>6, <1>7, InvokeStep, SlideStep DEF GaugeNext

LEMMA Stutter == Inv /\ UNCHANGED gaugeVars => Inv'
  <1> SUFFICES ASSUME Inv, UNCHANGED gaugeVars PROVE Inv'
    OBVIOUS
  <1>1. UNCHANGED <<tables, pending, slide, call, result, ran>>
    BY DEF gaugeVars, tables
  <1> USE DEF tables
  <1>2. GaugeTyped'
    BY <1>1 DEF Inv, GaugeTyped, TableOK, Idle
  <1>3. (\A x : Outcome(x)' = Outcome(x)) /\ (\A x, n : Reached(x, n)' = Reached(x, n) /\ Whole(x, n)' = Whole(x, n))
    BY <1>1, Frame
  <1>4. Handled' = Handled /\ Roots' = Roots
    BY <1>1 DEF Handled, Roots
  <1>5. AllWell' = AllWell /\ Meant' = Meant
    BY <1>1, <1>3, <1>4 DEF AllWell, Meant
  <1>6. Tasks' = Tasks
    BY <1>1 DEF Tasks, Items
  <1>7. (\A t : TaskWhole(t)' = TaskWhole(t)) /\ (\A S : ToRun(S)' = ToRun(S))
    BY <1>1, Frame
  <1>8. ToRun(Tasks)' = ToRun(Tasks)
    BY <1>1, <1>3, <1>6 DEF ToRun, TaskReaches
  <1> QED
    BY <1>1, <1>2, <1>5, <1>6, <1>7, <1>8 DEF Inv, WalkInv, ReturnIsWhole, Idle

LEMMA InvAlways == GaugeSpec => []Inv
  <1>1. Inv /\ [GaugeNext]_gaugeVars => Inv'
    BY Step, Stutter
  <1> QED
    BY InitOK, <1>1, PTL DEF GaugeSpec

\* For any table, with loops, shared entries and dangling ones, any handlers, any
\* limit and any codes to slide over: a call returns 0 exactly if everything it
\* refers to is active, succeeds and is near enough, and has then run exactly
\* the handlers on the way.
THEOREM ReturnsAreWhole == GaugeSpec => []ReturnIsWhole
  <1>1. Inv => ReturnIsWhole
    BY DEF Inv
  <1> QED
    BY <1>1, InvAlways, PTL

-----------------------------------------------------------------------------
(* A walk ends.  An evaluation takes one call away and puts calls one level *)
(* deeper in its place: the number of calls of that depth falls, and those  *)
(* of the smaller depths stay; there are MaxChain + 1 depths.               *)

\* The places of the calls in s that are made at depth d.
AtDepth(s, d) == {i \in 1..Len(s) : s[i][2] = d}

FewerAt(d) == Cardinality(AtDepth(pending', d)) < Cardinality(AtDepth(pending, d))
SameAt(d)  == Cardinality(AtDepth(pending', d)) = Cardinality(AtDepth(pending, d))

\* A call that is under way has another evaluation to make, and each one ends the
\* call, goes on to the next code of the slide, or lowers the numbers of calls at
\* the depths, in lexicographic order.
WalkProgress ==
  ~Idle =>
    /\ pending # <<>>
    /\ \/ Idle'
       \/ Len(slide') < Len(slide)
       \/ slide' = slide /\ \E d \in 0..MaxChain : FewerAt(d) /\ \A k \in 0..d - 1 : SameAt(k)

\* As many places further on.
LEMMA Shifted ==
  ASSUME NEW A, IsFiniteSet(A), A \subseteq Int, NEW B, B \subseteq Int, NEW m \in Int,
         \A i \in A : i + m \in B, \A j \in B : j - m \in A
  PROVE  Cardinality(B) = Cardinality(A)
  <1> DEFINE f == [i \in A |-> i + m]
  <1>1. f \in [A -> B]
    OBVIOUS
  <1>2. \A i, j \in A : f[i] = f[j] => i = j
    <2> SUFFICES ASSUME NEW i \in A, NEW j \in A, f[i] = f[j] PROVE i = j
      OBVIOUS
    <2>1. i \in Int /\ j \in Int /\ i + m = j + m
      OBVIOUS
    <2> QED
      BY <2>1
  <1>3. \A j \in B : \E i \in A : f[i] = j
    <2> SUFFICES ASSUME NEW j \in B PROVE \E i \in A : f[i] = j
      OBVIOUS
    <2>1. j - m \in A /\ f[j - m] = (j - m) + m
      OBVIOUS
    <2>2. (j - m) + m = j
      <3>1. j \in Int
        OBVIOUS
      <3> HIDE DEF f
      <3> QED
        BY <3>1
    <2> QED
      BY <2>1, <2>2
  <1> HIDE DEF f
  <1>4. f \in Bijection(A, B)
    BY <1>1, <1>2, <1>3 DEF Bijection, Injection, IsInjective, Surjection
  <1> QED
    BY <1>4, FS_Bijection DEF ExistsBijection

LEMMA AtDepthFinite ==
  ASSUME NEW s \in Seq(Task), NEW d
  PROVE  /\ IsFiniteSet(AtDepth(s, d)) /\ AtDepth(s, d) \subseteq Int
         /\ Cardinality(AtDepth(s, d)) \in Nat
  <1>1. IsFiniteSet(1..Len(s))
    BY LenProperties, FS_Interval
  <1>2. AtDepth(s, d) \in SUBSET (1..Len(s)) /\ AtDepth(s, d) \subseteq Int
    BY DEF AtDepth
  <1> QED
    BY <1>1, <1>2, FS_Subset, FS_CardinalityType

\* Without its first call, a sequence has one less at the depth of that.
LEMMA AtDepthOfTail ==
  ASSUME NEW s \in Seq(Task), s # <<>>, NEW d
  PROVE  Cardinality(AtDepth(Tail(s), d)) =
           Cardinality(AtDepth(s, d)) - (IF Head(s)[2] = d THEN 1 ELSE 0)
  <1> DEFINE t == Tail(s)
             A == AtDepth(t, d)
             S == AtDepth(s, d)
  <1>1. /\ t \in Seq(Task) /\ Len(t) = Len(s) - 1 /\ Len(s) \in Nat \ {0}
        /\ \A i \in 1..Len(t) : t[i] = s[i + 1]
        /\ Head(s) = s[1]
    OBVIOUS
  <1>2. /\ IsFiniteSet(A) /\ A \subseteq Int /\ Cardinality(A) \in Nat
        /\ IsFiniteSet(S) /\ Cardinality(S) \in Nat
    BY <1>1, AtDepthFinite
  <1>3. /\ \A i \in A : i + 1 \in S \ {1}
        /\ \A j \in S \ {1} : j - 1 \in A /\ j = (j - 1) + 1
    <2>1. ASSUME NEW i \in A PROVE i + 1 \in S \ {1}
      <3>1. i \in 1..Len(t) /\ t[i][2] = d
        BY DEF AtDepth
      <3>2. i + 1 \in 1..Len(s) /\ i + 1 # 1 /\ s[i + 1][2] = d
        BY <3>1, <1>1
      <3> QED
        BY <3>2 DEF AtDepth
    <2>2. ASSUME NEW j \in S \ {1} PROVE j - 1 \in A /\ j = (j - 1) + 1
      <3>1. j \in 1..Len(s) /\ j # 1 /\ s[j][2] = d
        BY DEF AtDepth
      <3>2. j - 1 \in 1..Len(t) /\ j = (j - 1) + 1
        BY <3>1, <1>1
      <3>3. t[j - 1] = s[j]
        BY <3>2, <1>1
      <3> QED
        BY <3>1, <3>2, <3>3 DEF AtDepth
    <2> HIDE DEF A, S
    <2> QED
      BY <2>1, <2>2
  <1>4. 1 \in S <=> Head(s)[2] = d
    BY <1>1 DEF AtDepth
  <1> HIDE DEF A, S
  <1>5. Cardinality(S \ {1}) = Cardinality(A)
    <2> DEFINE B == S \ {1}
    <2>1. B \subseteq Int
      BY AtDepthFinite DEF S
    <2>2. (\A i \in A : i + 1 \in B) /\ (\A j \in B : j - 1 \in A) /\ 1 \in Int
      BY <1>3
    <2> HIDE DEF B
    <2>3. Cardinality(B) = Cardinality(A)
      BY <1>2, <2>1, <2>2, Shifted
    <2> QED
      BY <2>3 DEF B
  <1>6. Cardinality(S \ {1}) = IF 1 \in S THEN Cardinality(S) - 1 ELSE Cardinality(S)
    BY <1>2, FS_RemoveElement
  <1>7. CASE 1 \in S
    <2>1. Cardinality(A) = Cardinality(S) - 1
      BY <1>5, <1>6, <1>7
    <2> QED
      BY <1>4, <1>7, <2>1 DEF A, S
  <1>8. CASE 1 \notin S
    <2>1. Cardinality(A) = Cardinality(S) - 0
      BY <1>2, <1>5, <1>6, <1>8
    <2> QED
      BY <1>4, <1>8, <2>1 DEF A, S
  <1> QED
    BY <1>7, <1>8

\* Calls at another depth put in front do not count.
LEMMA AtDepthOfMore ==
  ASSUME NEW u \in Seq(Task), NEW t \in Seq(Task), NEW d, \A x \in Items(u) : x[2] # d
  PROVE  Cardinality(AtDepth(u \o t, d)) = Cardinality(AtDepth(t, d))
  <1> DEFINE s == u \o t
             A == AtDepth(t, d)
  <1>1. /\ Len(u) \in Nat /\ Len(t) \in Nat /\ Len(s) = Len(u) + Len(t)
        /\ \A i \in 1..Len(u) + Len(t) : s[i] = IF i <= Len(u) THEN u[i] ELSE t[i - Len(u)]
    BY ConcatProperties, LenProperties
  <1> HIDE DEF s
  <1>2. IsFiniteSet(A) /\ A \subseteq Int
    BY AtDepthFinite
  <1>3. /\ \A i \in A : i + Len(u) \in AtDepth(s, d)
        /\ \A j \in AtDepth(s, d) : j - Len(u) \in A /\ j = (j - Len(u)) + Len(u)
    <2>1. ASSUME NEW i \in A PROVE i + Len(u) \in AtDepth(s, d)
      <3>1. i \in 1..Len(t) /\ t[i][2] = d
        BY DEF AtDepth
      <3>2. i + Len(u) \in 1..Len(u) + Len(t) /\ ~(i + Len(u) <= Len(u)) /\ (i + Len(u)) - Len(u) = i
        BY <3>1, <1>1
      <3>3. s[i + Len(u)] = t[i]
        BY <3>2, <1>1
      <3> QED
        BY <3>1, <3>2, <3>3, <1>1 DEF AtDepth
    <2>2. ASSUME NEW j \in AtDepth(s, d) PROVE j - Len(u) \in A /\ j = (j - Len(u)) + Len(u)
      <3>1. j \in 1..Len(u) + Len(t) /\ s[j][2] = d
        BY <1>1 DEF AtDepth
      <3>2. ~(j <= Len(u))
        <4> SUFFICES ASSUME j <= Len(u) PROVE FALSE
          OBVIOUS
        <4>1. j \in 1..Len(u) /\ s[j] = u[j]
          BY <1>1, <3>1
        <4> QED
          BY <3>1, <4>1 DEF Items
      <3>3. j - Len(u) \in 1..Len(t) /\ j = (j - Len(u)) + Len(u)
        BY <1>1, <3>1, <3>2
      <3>4. s[j] = t[j - Len(u)]
        BY <1>1, <3>1, <3>2
      <3> QED
        BY <3>1, <3>3, <3>4 DEF AtDepth
    <2> HIDE DEF A
    <2> QED
      BY <2>1, <2>2
  <1> HIDE DEF A
  <1>4. Cardinality(AtDepth(s, d)) = Cardinality(A)
    <2> DEFINE B == AtDepth(s, d)
               m == Len(u)
    <2>1. B \subseteq Int /\ m \in Int
      BY <1>1 DEF AtDepth
    <2>2. (\A i \in A : i + m \in B) /\ (\A j \in B : j - m \in A)
      BY <1>3
    <2> HIDE DEF B, m
    <2>3. Cardinality(B) = Cardinality(A)
      BY <1>2, <2>1, <2>2, Shifted
    <2> QED
      BY <2>3 DEF B
  <1> QED
    BY <1>4 DEF s, A

LEMMA WalkStep == Inv /\ GaugeNext => WalkProgress
  <1> SUFFICES ASSUME Inv, GaugeNext, ~Idle PROVE WalkProgress
    BY DEF WalkProgress
  <1>1. Eval
    BY DEF GaugeNext, Bind, GaugeBind, Unbind, SetSemantics, InitHandlers, Change, Invoke, Slide
  <1>2. /\ TableOK /\ pending \in Seq(Task) /\ pending # <<>> /\ slide \in Seq(Code)
    BY DEF Inv, GaugeTyped, WalkInv
  <1> DEFINE c == Head(pending)[1]
             depth == Head(pending)[2]
             under == Underneath(c, depth)
             rest == under \o Tail(pending)
  <1>3. Head(pending) \in Task /\ Tail(pending) \in Seq(Task)
    BY <1>2, ItemsOfTail
  <1>4. c \in Code /\ depth \in 0..MaxChain
    BY <1>3 DEF Task
  <1>5. CASE EvalFails(c, depth)
    <2>1. Idle'
      <3>1. result' = IF call[1] = "slide" THEN Len(slide) - Len(SlideCodes)
                      ELSE EvalFailure(c, depth)
        BY <1>5 DEF EvalFails, Return
      <3>2. Len(slide) \in Nat /\ Len(SlideCodes) \in Nat
        BY <1>2, GaugeAssumption
      <3>3. call[1] = "slide" => Len(slide) < Len(SlideCodes)
        BY DEF Inv, WalkInv
      <3>4. EvalFailure(c, depth) # 1
        BY DEF EvalFailure, Outcome, Failure
      <3> HIDE DEF c, depth
      <3> QED
        BY <3>1, <3>2, <3>3, <3>4 DEF Idle, Busy
    <2> QED
      BY <1>2, <2>1 DEF WalkProgress
  <1>6. CASE EvalSucceeds(c, depth)
    <2>1. \/ rest # <<>> /\ pending' = rest /\ slide' = slide
          \/ slide # <<>> /\ slide' = Tail(slide)
          \/ result' = 0
      BY <1>6 DEF EvalSucceeds, Return
    <2>2. EvalFailure(c, depth) = 0
      BY <1>6 DEF EvalSucceeds
    <2>3. depth \in 0..GAUGE_EVAL_MAX
      BY <1>4, <2>2, Limits DEF EvalFailure
    <2>4. under \in Seq(Task) /\ Items(under) = {<<r, depth + 1>> : r \in Referred(c)}
      BY <1>2, <1>4, <2>3, UnderneathItems
    <2>5. CASE result' = 0
      BY <1>2, <2>5 DEF WalkProgress, Idle, Busy
    <2>6. CASE slide # <<>> /\ slide' = Tail(slide)
      <3>1. Len(slide') = Len(slide) - 1 /\ Len(slide) \in Nat
        BY <1>2, <2>6
      <3>2. Len(slide') < Len(slide)
        BY <3>1
      <3> QED
        BY <1>2, <3>2 DEF WalkProgress
    <2>7. CASE pending' = rest /\ slide' = slide
      <3> HIDE DEF c, under
      <3>1. ASSUME NEW k \in 0..depth
            PROVE  /\ Cardinality(AtDepth(rest, k)) = Cardinality(AtDepth(Tail(pending), k))
                   /\ Cardinality(AtDepth(pending, k)) \in Nat
                   /\ Cardinality(AtDepth(Tail(pending), k)) =
                        Cardinality(AtDepth(pending, k)) - (IF depth = k THEN 1 ELSE 0)
        <4>1. \A x \in Items(under) : x[2] # k
          <5>1. depth + 1 # k
            BY <2>3, <3>1
          <5> QED
            BY <2>4, <5>1
        <4> QED
          BY <1>2, <1>3, <2>4, <4>1, AtDepthOfMore, AtDepthOfTail, AtDepthFinite
      <3> HIDE DEF rest
      <3>2. depth \in 0..depth /\ depth \in Nat /\ \A k \in 0..depth - 1 : k \in 0..depth /\ k # depth
        BY <2>3
      <3> HIDE DEF depth
      <3>3. FewerAt(depth)
        BY <2>7, <3>1, <3>2 DEF FewerAt
      <3>4. \A k \in 0..depth - 1 : SameAt(k)
        <4> SUFFICES ASSUME NEW k \in 0..depth - 1 PROVE SameAt(k)
          OBVIOUS
        <4>1. k \in 0..depth /\ k # depth
          BY <3>2
        <4> QED
          BY <2>7, <3>1, <4>1 DEF SameAt
      <3> QED
        BY <1>2, <1>4, <2>7, <3>3, <3>4 DEF WalkProgress
    <2> QED
      BY <2>1, <2>5, <2>6, <2>7
  <1> QED
    BY <1>1, <1>5, <1>6 DEF Eval

\* Whatever the table refers to, itself included, a call of gauge_exec_eval or of
\* omicron_slide comes to an end: the walk is never without a next evaluation
\* while it is under way, and evaluations lower a measure that cannot fall for ever.
THEOREM WalksEnd == GaugeSpec => [][WalkProgress]_gaugeVars
  <1>1. Inv /\ [GaugeNext]_gaugeVars => [WalkProgress]_gaugeVars
    BY WalkStep
  <1> QED
    BY <1>1, InvAlways, PTL DEF GaugeSpec

=============================================================================
