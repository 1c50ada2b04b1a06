-------------------------- MODULE RuleEngineProofs --------------------------
(***************************************************************************)
(* What RuleEngine's sealed run says, for any packs whatever: every rule   *)
(* is traced once, after its operands, and the states run in order; and    *)
(* whether a run is sealed, and why one is refused, is decided by what the  *)
(* packs say.                                                              *)
(***************************************************************************)
EXTENDS RuleEngine, SequenceTheorems, WellFoundedInduction, TLAPS

(* The calls under way belong to the active pack, are of different rules,
   none of which has a result yet, and every operand a call no longer waits
   for has one. *)
CallsInv ==
  /\ \A k \in 1..Len(calls) :
       /\ calls[k].rule \in RulesOf(pack)
       /\ calls[k].rule \notin Resolved
       /\ operands[calls[k].rule] \subseteq calls[k].todo \cup Resolved
  /\ \A k, l \in 1..Len(calls) : calls[k].rule = calls[l].rule => k = l

TracesInv == TracedOnce /\ OperandsFirst

(* The packs begun come before those not begun, and the active one after
   those that have finished. *)
Begun == finished \cup {pack}

PacksInv ==
  /\ \A k \in 1..Len(traces) : PackOf[traces[k]] \in Begun
  /\ \A p \in Begun, q \in Packs \ Begun : PackBefore(p, q)
  /\ \A p \in finished \ {pack} : PackBefore(p, pack)
  /\ Federal \in Begun
  /\ (pack = residence /\ pack # Federal) => States \ {pack} \subseteq finished
  /\ calls # <<>> => pack \notin finished

OrderInv ==
  \A k, l \in 1..Len(traces) :
    k < l => \/ PackOf[traces[k]] = PackOf[traces[l]]
             \/ PackBefore(PackOf[traces[k]], PackOf[traces[l]])

EngineInv == TypeOK /\ CallsInv /\ TracesInv /\ PacksInv /\ OrderInv

-----------------------------------------------------------------------------
(* The two shapes of step the proofs are about: a call begins, a call ends
   with a result. *)

(* A call pushed on the stack is the last one; the others stay. *)
LEMMA PushCall ==
  ASSUME NEW r \in Rules, calls \in Seq(Call), operands \in [Rules -> SUBSET Rules],
         calls' = Append(calls, [rule |-> r, todo |-> operands[r]])
  PROVE  /\ calls' \in Seq(Call)
         /\ Len(calls') = Len(calls) + 1
         /\ \A k \in 1..Len(calls) : calls'[k] = calls[k]
         /\ calls'[Len(calls) + 1].rule = r
         /\ calls'[Len(calls) + 1].todo = operands[r]
<1>1. [rule |-> r, todo |-> operands[r]] \in Call
  BY DEF Call
<1> QED
  BY <1>1

(* A result adds its rule to the resolved ones, behind the others, and its
   call was the last. *)
LEMMA FinishEffect ==
  ASSUME TypeOK, Finish
  PROVE  /\ Len(calls) \in Nat \ {0}
         /\ Top \in Call /\ Top.todo = {}
         /\ traces' \in Seq(Rules) /\ Len(traces') = Len(traces) + 1
         /\ \A k \in 1..Len(traces) : traces'[k] = traces[k]
         /\ traces'[Len(traces) + 1] = Top.rule
         /\ Resolved' = Resolved \cup {Top.rule}
         /\ calls' \in Seq(Call) /\ Len(calls') = Len(calls) - 1
         /\ \A k \in 1..Len(calls') : calls'[k] = calls[k]
<1>1. /\ calls \in Seq(Call) /\ calls # <<>> /\ traces \in Seq(Rules)
      /\ traces' = Append(traces, Top.rule)
      /\ calls' = SubSeq(calls, 1, Len(calls) - 1)
      /\ Top.todo = {}
  BY DEF TypeOK, Finish
<1>2. Len(calls) \in Nat \ {0} /\ Top \in Call
  BY <1>1 DEF Top
<1>3. Top.rule \in Rules
  BY <1>2 DEF Call
<1>4. /\ traces' \in Seq(Rules) /\ Len(traces') = Len(traces) + 1
      /\ \A k \in 1..Len(traces) : traces'[k] = traces[k]
      /\ traces'[Len(traces) + 1] = Top.rule
  BY <1>1, <1>3
<1>5. Resolved' = Resolved \cup {Top.rule}
  <2> DEFINE n == Len(traces)
  <2>1. n \in Nat /\ Len(traces') = n + 1
    BY <1>1, <1>4
  <2>2. \A k \in 1..Len(traces') : k \in 1..n \/ k = n + 1
    BY <2>1
  <2>3. 1..n \subseteq 1..Len(traces') /\ n + 1 \in 1..Len(traces')
    BY <2>1
  <2> QED
    BY <1>4, <2>2, <2>3, Zenon DEF Resolved
<1>6. /\ calls' \in Seq(Call) /\ Len(calls') = Len(calls) - 1
      /\ \A k \in 1..Len(calls') : calls'[k] = calls[k]
  <2> DEFINE n == Len(calls) - 1
  <2>1. 1 \in Int /\ n \in Nat /\ \A k \in 1..n : calls[k] \in Call
    BY <1>1, <1>2
  <2>2. /\ calls' \in Seq(Call)
        /\ Len(calls') = IF 1 <= n THEN n - 1 + 1 ELSE 0
        /\ \A k \in 1..(n - 1 + 1) : calls'[k] = calls[1 + k - 1]
    <3> HIDE DEF n
    <3> QED
      BY <1>1, <2>1, SubSeqProperties DEF n
  <2>3. Len(calls') = n /\ \A k \in 1..n : k \in 1..(n - 1 + 1)
    <3> HIDE DEF n
    <3> QED
      BY <2>1, <2>2
  <2>4. \A k \in 1..n : calls'[k] = calls[k]
    <3> HIDE DEF n
    <3>1. \A k \in 1..n : 1 + k - 1 = k
      BY <2>1
    <3> QED
      BY <2>2, <2>3, <3>1
  <2> QED
    BY <2>2, <2>3, <2>4
<1> QED
  BY <1>1, <1>2, <1>4, <1>5, <1>6

(* An operand struck off the innermost call leaves the calls' rules alone. *)
LEMMA StrikeOffEffect ==
  ASSUME NEW o \in Rules, calls \in Seq(Call), calls # <<>>,
         calls' = StrikeOff(o)
  PROVE  /\ calls' \in Seq(Call) /\ Len(calls') = Len(calls)
         /\ \A k \in 1..Len(calls) :
              /\ calls'[k].rule = calls[k].rule
              /\ calls[k].todo \subseteq calls'[k].todo \cup {o}
              /\ calls'[k].todo \subseteq calls[k].todo
<1>1. Len(calls) \in Nat \ {0} /\ \A k \in 1..Len(calls) : calls[k] \in Call
  OBVIOUS
<1> DEFINE c == [rule |-> Top.rule, todo |-> Top.todo \ {o}]
<1>2. c \in Call /\ calls' = [calls EXCEPT ![Len(calls)] = c]
  BY <1>1 DEF Call, Top, StrikeOff
<1>3. calls' \in Seq(Call) /\ Len(calls') = Len(calls)
  BY <1>1, <1>2
<1>4. \A k \in 1..Len(calls) :
        /\ calls'[k].rule = calls[k].rule
        /\ calls[k].todo \subseteq calls'[k].todo \cup {o}
        /\ calls'[k].todo \subseteq calls[k].todo
  BY <1>1, <1>2 DEF Top
<1> QED
  BY <1>3, <1>4

-----------------------------------------------------------------------------
LEMMA TypeStep == TypeOK /\ [Next]_vars => TypeOK'
<1> SUFFICES ASSUME TypeOK, [Next]_vars PROVE TypeOK'
  OBVIOUS
<1> USE DEF TypeOK, input
<1>1. ASSUME NEW r \in Rules, TakeRule(r) PROVE TypeOK'
  <2>1. calls' \in Seq(Call)
    BY <1>1, PushCall DEF TakeRule, EvaluateRule
  <2> QED
    BY <1>1, <2>1 DEF TakeRule, RulesOf
<1>2. ASSUME NEW o \in Rules, OperandKnown(o) PROVE TypeOK'
  BY <1>2, StrikeOffEffect DEF OperandKnown, Asks
<1>3. ASSUME NEW o \in Rules, OperandOnDemand(o) PROVE TypeOK'
  <2>1. calls' \in Seq(Call)
    BY <1>3, PushCall DEF OperandOnDemand, EvaluateRule
  <2> QED
    BY <1>3, <2>1 DEF OperandOnDemand
<1>4. ASSUME NEW o \in Rules, OperandUnderWay(o) \/ OperandMissing(o) PROVE TypeOK'
  BY <1>4 DEF OperandUnderWay, OperandMissing, Refuse, Causes
<1>5. CASE Finish
  BY <1>5, FinishEffect DEF Finish
<1>6. CASE EvaluatorFails
  BY <1>6 DEF EvaluatorFails, Refuse, Causes
<1>7. CASE EndPack
  BY <1>7 DEF EndPack, Refuse, Causes
<1>8. ASSUME NEW s \in States, BeginState(s) PROVE TypeOK'
  BY <1>8 DEF BeginState, Refuse, Causes, Packs
<1>9. CASE Seal
  BY <1>9 DEF Seal
<1>10. CASE UNCHANGED vars
  BY <1>10 DEF vars
<1> QED
  BY <1>1, <1>2, <1>3, <1>4, <1>5, <1>6, <1>7, <1>8, <1>9, <1>10 DEF Next, Operand

(* The steps that leave the packs, the calls and the results alone. *)
Quiet == UNCHANGED <<input, pack, taken, calls, traces, finished>>

LEMMA QuietSteps ==
  ASSUME EvaluatorFails \/ Seal \/ UNCHANGED vars
         \/ \E o \in Rules : OperandUnderWay(o) \/ OperandMissing(o)
  PROVE  Quiet
BY DEF Quiet, EvaluatorFails, Seal, OperandUnderWay, OperandMissing, Refuse, vars, input

(* The other steps. *)
LEMMA LoudSteps ==
  ASSUME [Next]_vars, ~ Quiet
  PROVE  \/ \E r \in Rules : TakeRule(r) \/ OperandKnown(r) \/ OperandOnDemand(r)
         \/ Finish
         \/ EndPack
         \/ \E s \in States : BeginState(s)
BY QuietSteps DEF Next, Operand

-----------------------------------------------------------------------------
(* A rule that is neither resolved nor under way may be called. *)
LEMMA PushKeepsCalls ==
  ASSUME TypeOK, CallsInv, UNCHANGED <<input, pack, traces>>,
         NEW r \in Rules, r \in RulesOf(pack), r \notin Resolved,
         \A k \in 1..Len(calls) : calls[k].rule # r,
         calls' = Append(calls, [rule |-> r, todo |-> operands[r]])
  PROVE  CallsInv'
<1>1. /\ Len(calls') = Len(calls) + 1 /\ Len(calls) \in Nat
      /\ \A k \in 1..Len(calls) : calls'[k] = calls[k]
      /\ calls'[Len(calls) + 1].rule = r
      /\ calls'[Len(calls) + 1].todo = operands[r]
  BY PushCall DEF TypeOK
<1>2. /\ Resolved' = Resolved /\ operands' = operands
      /\ RulesOf(pack)' = RulesOf(pack)
  BY DEF Resolved, RulesOf, input
<1>3. \A k \in 1..Len(calls') : k \in 1..Len(calls) \/ k = Len(calls) + 1
  BY <1>1
<1> QED
  BY <1>1, <1>2, <1>3 DEF CallsInv

LEMMA CallsStep == TypeOK /\ CallsInv /\ PacksInv /\ [Next]_vars => CallsInv'
<1> SUFFICES ASSUME TypeOK, CallsInv, PacksInv, [Next]_vars PROVE CallsInv'
  OBVIOUS
<1>1. CASE Quiet
  BY <1>1 DEF Quiet, input, CallsInv, Resolved, RulesOf
<1>2. ASSUME NEW r \in Rules, TakeRule(r) PROVE CallsInv'
  <2>1. /\ calls = <<>> /\ r \in RulesOf(pack) /\ EvaluateRule(r)
        /\ UNCHANGED <<input, pack, traces>>
    BY <1>2 DEF TakeRule
  <2>2. CASE r \in Resolved
    BY <2>1, <2>2 DEF EvaluateRule, CallsInv
  <2>3. CASE r \notin Resolved
    BY <2>1, <2>3, PushKeepsCalls DEF EvaluateRule
  <2> QED
    BY <2>2, <2>3
<1>3. ASSUME NEW o \in Rules, OperandKnown(o) PROVE CallsInv'
  <2>1. /\ o \in Resolved /\ Len(calls') = Len(calls)
        /\ \A k \in 1..Len(calls) :
             /\ calls'[k].rule = calls[k].rule
             /\ calls[k].todo \subseteq calls'[k].todo \cup {o}
    BY <1>3, StrikeOffEffect DEF OperandKnown, Asks, TypeOK
  <2>2. /\ Resolved' = Resolved /\ operands' = operands
        /\ RulesOf(pack)' = RulesOf(pack)
    BY <1>3 DEF OperandKnown, Resolved, RulesOf, input
  <2> QED
    BY <2>1, <2>2 DEF CallsInv
<1>4. ASSUME NEW o \in Rules, OperandOnDemand(o) PROVE CallsInv'
  <2>1. /\ o \in RulesOf(pack) /\ o \notin Resolved /\ EvaluateRule(o)
        /\ \A k \in 1..Len(calls) : calls[k].rule # o
        /\ UNCHANGED <<input, pack, traces>>
    BY <1>4 DEF OperandOnDemand, Evaluating
  <2> QED
    BY <2>1, PushKeepsCalls DEF EvaluateRule
<1>5. CASE Finish
  <2>1. /\ Len(calls') = Len(calls) - 1 /\ Len(calls) \in Nat \ {0}
        /\ \A k \in 1..Len(calls') : calls'[k] = calls[k]
        /\ Resolved' = Resolved \cup {calls[Len(calls)].rule}
    BY <1>5, FinishEffect DEF Top
  <2>2. /\ operands' = operands /\ RulesOf(pack)' = RulesOf(pack)
    BY <1>5 DEF Finish, RulesOf, input
  <2>3. \A k \in 1..Len(calls') : k \in 1..Len(calls) /\ k # Len(calls)
    BY <2>1
  <2>4. \A k \in 1..Len(calls') : calls[k].rule # calls[Len(calls)].rule
    BY <2>1, <2>3 DEF CallsInv
  <2>5. \A k \in 1..Len(calls') :
          /\ calls'[k].rule = calls[k].rule /\ calls'[k].todo = calls[k].todo
          /\ calls[k].rule \in RulesOf(pack)
          /\ calls[k].rule \notin Resolved
          /\ operands[calls[k].rule] \subseteq calls[k].todo \cup Resolved
    BY <2>1, <2>3 DEF CallsInv
  <2>6. \A k, l \in 1..Len(calls') : calls[k].rule = calls[l].rule => k = l
    BY <2>3 DEF CallsInv
  <2> QED
    BY <2>1, <2>2, <2>4, <2>5, <2>6 DEF CallsInv
<1>6. CASE EndPack
  BY <1>6 DEF EndPack, Refuse, CallsInv, Resolved, RulesOf, input
<1>7. ASSUME NEW s \in States, BeginState(s) PROVE CallsInv'
  <2>1. calls' = <<>>
    BY <1>7 DEF BeginState, Refuse, PacksInv
  <2> QED
    BY <2>1 DEF CallsInv
<1> QED
  BY <1>1, <1>2, <1>3, <1>4, <1>5, <1>6, <1>7, LoudSteps

-----------------------------------------------------------------------------
(* A result is written once, and behind those it was computed from. *)
LEMMA TracesStep == TypeOK /\ CallsInv /\ TracesInv /\ [Next]_vars => TracesInv'
<1> SUFFICES ASSUME TypeOK, CallsInv, TracesInv, [Next]_vars PROVE TracesInv'
  OBVIOUS
<1> USE DEF TracesInv, TracedOnce, OperandsFirst
<1>1. CASE UNCHANGED <<operands, traces>>
  BY <1>1
<1>2. CASE Finish
  <2> DEFINE n == Len(traces)
  <2>1. /\ n \in Nat /\ Len(traces') = n + 1
        /\ \A k \in 1..n : traces'[k] = traces[k]
        /\ traces'[n + 1] = Top.rule
        /\ Top.todo = {}
        /\ Top = calls[Len(calls)] /\ Len(calls) \in 1..Len(calls)
    BY <1>2, FinishEffect DEF TypeOK, Top
  <2>2. operands' = operands
    BY <1>2 DEF Finish, input
  <2>3. Top.rule \notin Resolved /\ operands[Top.rule] \subseteq Resolved
    BY <2>1 DEF CallsInv
  <2>4. \A k \in 1..n : traces[k] # Top.rule
    BY <2>3 DEF Resolved
  <2>5. \A o \in operands[Top.rule] : \E k \in 1..n : traces[k] = o
    BY <2>3 DEF Resolved
  <2>6. \A k \in 1..(n + 1) : k \in 1..n \/ k = n + 1
    BY <2>1
  <2>7. TracedOnce'
    <3> SUFFICES ASSUME NEW k \in 1..(n + 1), NEW l \in 1..(n + 1),
                        traces'[k] = traces'[l]
                 PROVE  k = l
      BY <2>1
    <3>1. CASE k \in 1..n /\ l \in 1..n
      BY <2>1, <3>1
    <3>2. CASE k = n + 1 \/ l = n + 1
      BY <2>1, <2>4, <2>6, <3>2
    <3> QED
      BY <2>6, <3>1, <3>2
  <2>8. OperandsFirst'
    <3> SUFFICES ASSUME NEW l \in 1..(n + 1), NEW o \in operands[traces'[l]]
                 PROVE  \E k \in 1..(l - 1) : traces'[k] = o
      BY <2>1, <2>2
    <3>1. CASE l \in 1..n
      <4>1. PICK k \in 1..(l - 1) : traces[k] = o
        BY <2>1, <3>1
      <4>2. k \in 1..n
        BY <2>1, <3>1
      <4> QED
        BY <2>1, <4>1, <4>2
    <3>2. CASE l = n + 1
      <4>1. PICK k \in 1..n : traces[k] = o
        BY <2>1, <2>5, <3>2
      <4>2. k \in 1..(l - 1)
        BY <2>1, <3>2
      <4> QED
        BY <2>1, <4>1, <4>2
    <3> QED
      BY <2>6, <3>1, <3>2
  <2> QED
    BY <2>7, <2>8
<1>3. ASSUME ~ Finish PROVE UNCHANGED <<operands, traces>>
  <2>1. CASE Quiet
    BY <2>1 DEF Quiet, input
  <2>2. ASSUME NEW r \in Rules, TakeRule(r) \/ OperandKnown(r) \/ OperandOnDemand(r)
        PROVE  UNCHANGED <<operands, traces>>
    BY <2>2 DEF TakeRule, OperandKnown, OperandOnDemand, input
  <2>3. ASSUME EndPack \/ \E s \in States : BeginState(s)
        PROVE  UNCHANGED <<operands, traces>>
    BY <2>3 DEF EndPack, BeginState, Refuse, input
  <2> QED
    BY <1>3, <2>1, <2>2, <2>3, LoudSteps
<1> QED
  BY <1>1, <1>2, <1>3

-----------------------------------------------------------------------------
(* The packs run in their order, and only the active one writes results. *)
LEMMA PacksStep == TypeOK /\ CallsInv /\ PacksInv /\ [Next]_vars => PacksInv'
<1> SUFFICES ASSUME TypeOK, CallsInv, PacksInv, [Next]_vars PROVE PacksInv'
  OBVIOUS
<1> USE DEF PackBefore
<1>1. CASE Quiet
  BY <1>1 DEF Quiet, input, PacksInv, Begun
<1>2. ASSUME NEW r \in Rules, TakeRule(r) PROVE PacksInv'
  BY <1>2 DEF TakeRule, input, PacksInv, Begun
<1>3. ASSUME NEW o \in Rules, OperandKnown(o) \/ OperandOnDemand(o) PROVE PacksInv'
  BY <1>3 DEF OperandKnown, OperandOnDemand, Asks, input, PacksInv, Begun
<1>4. CASE Finish
  <2>1. /\ Len(traces') = Len(traces) + 1 /\ Len(traces) \in Nat
        /\ \A k \in 1..Len(traces) : traces'[k] = traces[k]
        /\ traces'[Len(traces) + 1] = calls[Len(calls)].rule
        /\ Len(calls) \in 1..Len(calls)
    BY <1>4, FinishEffect DEF TypeOK, Top
  <2>2. PackOf[calls[Len(calls)].rule] = pack
    BY <2>1 DEF CallsInv, RulesOf
  <2>3. \A k \in 1..Len(traces') : k \in 1..Len(traces) \/ k = Len(traces) + 1
    BY <2>1
  <2>4. UNCHANGED <<pack, finished, residence>> /\ calls # <<>>
    BY <1>4 DEF Finish, input
  <2>5. \A k \in 1..Len(traces') : PackOf[traces'[k]] \in Begun'
    BY <2>1, <2>2, <2>3, <2>4 DEF PacksInv, Begun
  <2> QED
    BY <2>4, <2>5 DEF PacksInv, Begun
<1>5. CASE EndPack
  BY <1>5 DEF EndPack, Refuse, input, PacksInv, Begun
<1>6. ASSUME NEW s \in States, BeginState(s) PROVE PacksInv'
  <2>1. CASE s \in foreign
    BY <1>6, <2>1 DEF BeginState, Refuse, input, PacksInv, Begun
  <2>2. CASE s \notin foreign
    <3>1. /\ pack \in finished /\ s \notin finished /\ pack' = s
          /\ \A t \in States \ finished : t = s \/ RunsBefore(s, t)
          /\ UNCHANGED <<residence, traces, finished, calls>>
      BY <1>6, <2>2 DEF BeginState, input
    <3>2. Begun = finished /\ Begun' = finished \cup {s}
      BY <3>1 DEF Begun
    <3>3. calls = <<>>
      BY <3>1 DEF PacksInv
    <3>4. s \in Packs /\ s # Federal /\ s \in Int
      BY PackAssumption DEF Packs, States, Federal
    <3>5. \A q \in Packs \ Begun' : q \in States \ finished /\ q # s
      BY <3>1, <3>2 DEF PacksInv, Packs
    <3>6. \A q \in Packs \ Begun' : PackBefore(s, q)
      BY <3>1, <3>4, <3>5 DEF RunsBefore, States, Federal
    <3>7. \A p \in finished : PackBefore(p, s)
      BY <3>1, <3>2, <3>4 DEF PacksInv
    <3>8. s = residence => States \ {s} \subseteq finished
      BY <3>1 DEF RunsBefore
    <3>9. \A p \in Packs, q \in Packs : PackBefore(p, q)' <=> PackBefore(p, q)
      BY <3>1
    <3>10. Begun \subseteq Packs /\ Begun' \subseteq Packs
      BY <3>2, <3>4 DEF TypeOK
    <3>11. \A p \in Begun', q \in Packs \ Begun' : PackBefore(p, q)
      BY <3>2, <3>6 DEF PacksInv
    <3> QED
      BY <3>1, <3>2, <3>3, <3>7, <3>8, <3>9, <3>10, <3>11 DEF PacksInv
  <2> QED
    BY <2>1, <2>2
<1> QED
  BY <1>1, <1>2, <1>3, <1>4, <1>5, <1>6, LoudSteps

(* A new result is one of the active pack, and every earlier one is too, or
   is one of a pack that has finished. *)
LEMMA OrderStep == TypeOK /\ CallsInv /\ PacksInv /\ OrderInv /\ [Next]_vars => OrderInv'
<1> SUFFICES ASSUME TypeOK, CallsInv, PacksInv, OrderInv, [Next]_vars PROVE OrderInv'
  OBVIOUS
<1>1. CASE UNCHANGED <<residence, traces>>
  BY <1>1 DEF OrderInv, PackBefore
<1>2. CASE Finish
  <2> DEFINE n == Len(traces)
  <2>1. /\ n \in Nat /\ Len(traces') = n + 1
        /\ \A k \in 1..n : traces'[k] = traces[k]
        /\ traces'[n + 1] = calls[Len(calls)].rule
        /\ Len(calls) \in 1..Len(calls)
    BY <1>2, FinishEffect DEF TypeOK, Top
  <2>2. PackOf[traces'[n + 1]] = pack
    BY <2>1 DEF CallsInv, RulesOf
  <2>3. \A k \in 1..n : PackOf[traces[k]] = pack \/ PackBefore(PackOf[traces[k]], pack)
    BY DEF PacksInv, Begun
  <2>4. \A k, l \in 1..(n + 1) :
          k < l => k \in 1..n /\ (l \in 1..n \/ l = n + 1)
    BY <2>1
  <2>5. residence' = residence
    BY <1>2 DEF Finish, input
  <2>6. \A p, q : PackBefore(p, q)' <=> PackBefore(p, q)
    BY <2>5 DEF PackBefore
  <2>7. ASSUME NEW k \in 1..(n + 1), NEW l \in 1..(n + 1), k < l
        PROVE  \/ PackOf[traces'[k]] = PackOf[traces'[l]]
               \/ PackBefore(PackOf[traces'[k]], PackOf[traces'[l]])
    <3>1. CASE l \in 1..n
      BY <2>1, <2>4, <2>7, <3>1 DEF OrderInv
    <3>2. CASE l = n + 1
      BY <2>1, <2>2, <2>3, <2>4, <2>7, <3>2
    <3> QED
      BY <2>4, <2>7, <3>1, <3>2
  <2> QED
    BY <2>1, <2>5, <2>7 DEF OrderInv, PackBefore
<1>3. ASSUME ~ Finish PROVE UNCHANGED <<residence, traces>>
  <2>1. CASE Quiet
    BY <2>1 DEF Quiet, input
  <2>2. ASSUME NEW r \in Rules, TakeRule(r) \/ OperandKnown(r) \/ OperandOnDemand(r)
        PROVE  UNCHANGED <<residence, traces>>
    BY <2>2 DEF TakeRule, OperandKnown, OperandOnDemand, input
  <2>3. ASSUME EndPack \/ \E s \in States : BeginState(s)
        PROVE  UNCHANGED <<residence, traces>>
    BY <2>3 DEF EndPack, BeginState, Refuse, input
  <2> QED
    BY <1>3, <2>1, <2>2, <2>3, LoudSteps
<1> QED
  BY <1>1, <1>2, <1>3

-----------------------------------------------------------------------------
LEMMA EngineInit == Init => EngineInv
<1> SUFFICES ASSUME Init PROVE EngineInv
  OBVIOUS
<1>1. calls = <<>> /\ traces = <<>> /\ finished = {} /\ pack = Federal
  BY DEF Init
<1>2. TypeOK
  <2>1. \A E : Operands(E) \in [Rules -> SUBSET Rules]
    BY DEF Operands
  <2> QED
    BY <1>1, <2>1 DEF Init, TypeOK, Packs
<1>3. CallsInv /\ TracesInv /\ OrderInv
  BY <1>1 DEF CallsInv, TracesInv, TracedOnce, OperandsFirst, OrderInv
<1>4. PacksInv
  BY <1>1 DEF PacksInv, Begun, PackBefore
<1> QED
  BY <1>2, <1>3, <1>4 DEF EngineInv

LEMMA EngineStep == EngineInv /\ [Next]_vars => EngineInv'
BY TypeStep, CallsStep, TracesStep, PacksStep, OrderStep DEF EngineInv

(* The engine's invariant: what the calls under way still wait for, which
   packs have begun, and what the results written so far look like
   (CalculationEngine._evaluate_rule and _run_states). *)
THEOREM EngineInvariant == Spec => []EngineInv
BY EngineInit, EngineStep, PTL DEF Spec

(* Every reachable state of the engine is well typed. *)
THEOREM TypeCorrect == Spec => []TypeOK
<1>1. EngineInv => TypeOK
  BY DEF EngineInv
<1> QED
  BY <1>1, EngineInvariant, PTL

(* No rule of any packs is traced twice in a run (calculator.py:469-474). *)
THEOREM EachRuleTracedOnce == Spec => []TracedOnce
<1>1. EngineInv => TracedOnce
  BY DEF EngineInv, TracesInv
<1> QED
  BY <1>1, EngineInvariant, PTL

(* Every result comes after the results it is computed from
   (_resolve_ref, calculator.py:505-515). *)
THEOREM OperandsComeFirst == Spec => []OperandsFirst
<1>1. EngineInv => OperandsFirst
  BY DEF EngineInv, TracesInv
<1> QED
  BY <1>1, EngineInvariant, PTL

(* The packs run in the documented order, the state of residence when all
   others have finished (_run_states, calculator.py:269-313). *)
THEOREM ResidenceRunsLast == Spec => []ResidenceLast
<1>1. EngineInv => ResidenceLast
  BY DEF EngineInv, OrderInv, PacksInv, ResidenceLast
<1> QED
  BY <1>1, EngineInvariant, PTL

-----------------------------------------------------------------------------
(* The verdict. *)

(* Each call under way waits for the next one.  Every rule the loop has come
   to has a result or is under way, and a pack that has finished has all its
   results. *)
ProgressInv ==
  /\ \A k \in 1..Len(calls) : calls[k].todo \subseteq operands[calls[k].rule]
  /\ \A k \in 1..(Len(calls) - 1) :
       calls[k + 1].rule \in operands[calls[k].rule]
  /\ taken \subseteq Resolved \cup Evaluating
  /\ Resolved \subseteq defined
  /\ \A p \in finished : RulesOf(p) \subseteq Resolved

(* What was checked on the way: headlines when the federal pack finished,
   the jurisdiction of a state's pack before it began. *)
ChecksInv ==
  /\ Federal \in finished => Headlines \subseteq Resolved
  /\ foreign \cap Begun = {}
  /\ \A r \in Rules \ defined : operands[r] = {}

KnownInv == EngineInv /\ ProgressInv /\ ChecksInv
VerdictInv == KnownInv /\ VerdictIsRight

-----------------------------------------------------------------------------
(* A nonempty set of natural numbers has a least one. *)
LEMMA LeastNat ==
  ASSUME NEW T \in SUBSET Nat, T # {}
  PROVE  \E x \in T : \A y \in T : x <= y
<1> DEFINE R == OpToRel(<, Nat)
<1>1. IsWellFoundedOn(R, Nat)
  BY NatLessThanWellFounded
<1>2. PICK x \in T : \A y \in T : <<y, x>> \notin R
  <2> HIDE DEF R
  <2> QED
    BY <1>1, WFMin, Zenon
<1>3. \A y \in T : y < x => <<y, x>> \in R
  BY DEF OpToRel
<1> HIDE DEF R
<1>4. \A y \in T : ~ (y < x)
  BY <1>2, <1>3
<1>5. \A y \in T : x <= y
  BY <1>4
<1> QED
  BY <1>5

(* Packs that do not come one before the other are the same. *)
LEMMA PackBeforeTotal ==
  ASSUME residence \in Packs, NEW p \in Packs, NEW q \in Packs
  PROVE  /\ p # q => PackBefore(p, q) \/ PackBefore(q, p)
         /\ ~ (PackBefore(p, q) /\ PackBefore(q, p))
BY PackAssumption DEF PackBefore, Packs, States, Federal

-----------------------------------------------------------------------------
(* Pushing a rule on the calls keeps them a chain of operands. *)
LEMMA PushKeepsProgress ==
  ASSUME TypeOK, ProgressInv, NEW r \in Rules,
         UNCHANGED <<input, traces, finished>>, taken' \subseteq taken \cup {r},
         calls = <<>> \/ r \in Top.todo,
         calls' = Append(calls, [rule |-> r, todo |-> operands[r]])
  PROVE  ProgressInv'
<1> DEFINE n == Len(calls)
<1>1. /\ Len(calls') = n + 1 /\ n \in Nat
      /\ \A k \in 1..n : calls'[k] = calls[k]
      /\ calls'[n + 1].rule = r
      /\ calls'[n + 1].todo = operands[r]
  BY PushCall DEF TypeOK
<1>2. /\ Resolved' = Resolved /\ UNCHANGED <<operands, defined, finished>>
      /\ \A p : RulesOf(p)' = RulesOf(p)
  BY DEF Resolved, RulesOf, input
<1>3. \A k \in 1..(n + 1) : k \in 1..n \/ k = n + 1
  BY <1>1
<1>4. \A k \in 1..n : k \in 1..(n - 1) \/ k = n
  BY <1>1
<1>5. n \in 1..n => r \in calls[n].todo
  BY <1>1 DEF Top
<1>6. Evaluating' = Evaluating \cup {r}
  <2>1. 1..n \subseteq 1..(n + 1) /\ n + 1 \in 1..(n + 1)
    BY <1>1
  <2> HIDE DEF n
  <2> QED
    BY <1>1, <1>3, <2>1, Zenon DEF Evaluating, n
<1>7. \A k \in 1..(n + 1) : calls'[k].todo \subseteq operands[calls'[k].rule]
  BY <1>1, <1>3 DEF ProgressInv
<1>8. \A k \in 1..n : calls'[k + 1].rule \in operands[calls'[k].rule]
  <2>1. ASSUME NEW k \in 1..(n - 1) PROVE calls'[k + 1].rule \in operands[calls'[k].rule]
    <3>1. k \in 1..n /\ k + 1 \in 1..n
      BY <1>1
    <3> QED
      BY <1>1, <3>1 DEF ProgressInv
  <2>2. n \in 1..n => calls'[n + 1].rule \in operands[calls'[n].rule]
    BY <1>1, <1>5 DEF ProgressInv
  <2> QED
    BY <1>4, <2>1, <2>2
<1>9. Len(calls') - 1 = n
  BY <1>1
<1> QED
  BY <1>1, <1>2, <1>6, <1>7, <1>8, <1>9 DEF ProgressInv

LEMMA ProgressStep == EngineInv /\ ProgressInv /\ [Next]_vars => ProgressInv'
<1> SUFFICES ASSUME EngineInv, ProgressInv, [Next]_vars PROVE ProgressInv'
  OBVIOUS
<1> USE DEF EngineInv
<1>1. CASE Quiet
  BY <1>1 DEF Quiet, input, ProgressInv, Resolved, RulesOf, Evaluating
<1>2. ASSUME NEW r \in Rules, TakeRule(r) PROVE ProgressInv'
  <2>1. /\ calls = <<>> /\ EvaluateRule(r) /\ taken' = taken \cup {r}
        /\ UNCHANGED <<input, traces, finished>>
    BY <1>2 DEF TakeRule
  <2>2. CASE r \in Resolved
    BY <2>1, <2>2 DEF EvaluateRule, input, ProgressInv, Resolved, RulesOf, Evaluating
  <2>3. CASE r \notin Resolved
    BY <2>1, <2>3, PushKeepsProgress DEF EvaluateRule
  <2> QED
    BY <2>2, <2>3
<1>3. ASSUME NEW o \in Rules, OperandKnown(o) PROVE ProgressInv'
  <2>1. /\ Len(calls') = Len(calls) /\ Len(calls) \in Nat
        /\ \A k \in 1..Len(calls) : /\ calls'[k].rule = calls[k].rule
                                    /\ calls'[k].todo \subseteq calls[k].todo
    BY <1>3, StrikeOffEffect DEF OperandKnown, Asks, TypeOK
  <2>2. UNCHANGED <<input, taken, traces, finished>>
    BY <1>3 DEF OperandKnown
  <2>3. \A k \in 1..(Len(calls) - 1) : k \in 1..Len(calls) /\ k + 1 \in 1..Len(calls)
    BY <2>1
  <2>4. Evaluating' = Evaluating
    BY <2>1 DEF Evaluating
  <2>5. \A k \in 1..Len(calls') : calls'[k].todo \subseteq operands[calls'[k].rule]
    BY <2>1 DEF ProgressInv
  <2>6. \A k \in 1..(Len(calls') - 1) : calls'[k + 1].rule \in operands[calls'[k].rule]
    BY <2>1, <2>3 DEF ProgressInv
  <2>7. Resolved' = Resolved /\ \A p : RulesOf(p)' = RulesOf(p)
    BY <2>2 DEF Resolved, RulesOf, input
  <2> QED
    BY <2>2, <2>4, <2>5, <2>6, <2>7 DEF input, ProgressInv
<1>4. ASSUME NEW o \in Rules, OperandOnDemand(o) PROVE ProgressInv'
  <2>1. /\ o \notin Resolved /\ EvaluateRule(o) /\ o \in Top.todo
        /\ UNCHANGED <<input, taken, traces, finished>>
    BY <1>4 DEF OperandOnDemand, Asks
  <2> QED
    BY <2>1, PushKeepsProgress DEF EvaluateRule
<1>5. CASE Finish
  <2> DEFINE n == Len(calls)
  <2>1. /\ n \in Nat \ {0} /\ Len(calls') = n - 1
        /\ \A k \in 1..Len(calls') : calls'[k] = calls[k]
        /\ Resolved' = Resolved \cup {calls[n].rule}
    BY <1>5, FinishEffect DEF Top
  <2>2. UNCHANGED <<operands, defined, taken, finished>> /\ \A p : RulesOf(p)' = RulesOf(p)
    BY <1>5 DEF Finish, input, RulesOf
  <2>3. \A k \in 1..n : k \in 1..(n - 1) \/ k = n
    BY <2>1
  <2>4. Evaluating \subseteq Evaluating' \cup {calls[n].rule}
    BY <2>1, <2>3 DEF Evaluating
  <2>5. calls[n].rule \in defined
    <3>1. n \in 1..n
      BY <2>1
    <3> QED
      BY <3>1 DEF CallsInv, RulesOf
  <2>6. \A k \in 1..(n - 1) : k \in 1..n
    BY <2>1
  <2>7. \A k \in 1..((n - 1) - 1) : k \in 1..(n - 1) /\ k + 1 \in 1..(n - 1)
    BY <2>1
  <2>8. \A k \in 1..(n - 1) : calls'[k].todo \subseteq operands[calls'[k].rule]
    BY <2>1, <2>6 DEF ProgressInv
  <2>9. \A k \in 1..((n - 1) - 1) : calls'[k + 1].rule \in operands[calls'[k].rule]
    BY <2>1, <2>7 DEF ProgressInv
  <2>10. taken \subseteq Resolved' \cup Evaluating'
    BY <2>1, <2>4 DEF ProgressInv
  <2> QED
    BY <2>1, <2>2, <2>5, <2>8, <2>9, <2>10 DEF ProgressInv
<1>6. CASE EndPack
  <2>1. /\ calls = <<>> /\ calls' = calls /\ RulesOf(pack) \subseteq taken
        /\ finished' \subseteq finished \cup {pack}
        /\ UNCHANGED <<input, taken, traces>>
    BY <1>6 DEF EndPack, Refuse
  <2>2. Evaluating = {}
    BY <2>1 DEF Evaluating
  <2>3. RulesOf(pack) \subseteq Resolved
    BY <2>1, <2>2 DEF ProgressInv
  <2> QED
    BY <2>1, <2>3 DEF input, ProgressInv, Resolved, RulesOf, Evaluating
<1>7. ASSUME NEW s \in States, BeginState(s) PROVE ProgressInv'
  BY <1>7 DEF BeginState, Refuse, input, ProgressInv, Resolved, RulesOf, Evaluating
<1> QED
  BY <1>1, <1>2, <1>3, <1>4, <1>5, <1>6, <1>7, LoudSteps

LEMMA ChecksStep == EngineInv /\ ChecksInv /\ [Next]_vars => ChecksInv'
<1> SUFFICES ASSUME EngineInv, ChecksInv, [Next]_vars PROVE ChecksInv'
  OBVIOUS
<1>1. CASE Quiet
  BY <1>1 DEF Quiet, input, ChecksInv, Resolved, Begun
<1>2. ASSUME NEW r \in Rules, TakeRule(r) PROVE ChecksInv'
  BY <1>2 DEF TakeRule, input, ChecksInv, Resolved, Begun
<1>3. ASSUME NEW o \in Rules, OperandKnown(o) \/ OperandOnDemand(o) PROVE ChecksInv'
  BY <1>3 DEF OperandKnown, OperandOnDemand, input, ChecksInv, Resolved, Begun
<1>4. CASE Finish
  <2>1. Resolved \subseteq Resolved'
    BY <1>4, FinishEffect DEF EngineInv
  <2> QED
    BY <1>4, <2>1 DEF Finish, input, ChecksInv, Begun
<1>5. CASE EndPack
  BY <1>5 DEF EndPack, Refuse, input, ChecksInv, Resolved, Begun
<1>6. ASSUME NEW s \in States, BeginState(s) PROVE ChecksInv'
  BY <1>6 DEF BeginState, Refuse, input, ChecksInv, Resolved, Begun
<1> QED
  BY <1>1, <1>2, <1>3, <1>4, <1>5, <1>6, LoudSteps

-----------------------------------------------------------------------------
(* The verdicts, one by one. *)

(* The calls from the one of o on ask for each other in a ring. *)
LEMMA CycleIsReal ==
  ASSUME KnownInv, NEW o \in Rules, OperandUnderWay(o)
  PROVE  ~ Acyclic(OwnOperands)
<1> USE DEF KnownInv, EngineInv
<1> DEFINE n == Len(calls)
<1>1. /\ n \in Nat /\ o \in Evaluating /\ o \in RulesOf(pack)
      /\ o \in calls[n].todo /\ calls \in Seq(Call)
  BY DEF OperandUnderWay, Asks, Top, TypeOK
<1>2. PICK i \in 1..n : calls[i].rule = o
  BY <1>1 DEF Evaluating
<1> DEFINE S == {calls[k].rule : k \in i..n}
<1>3. \A k \in i..n : k \in 1..n /\ ((k \in 1..(n - 1) /\ k + 1 \in i..n) \/ k = n)
  BY <1>1
<1>4. \A k \in i..n : calls[k].rule \in RulesOf(pack) /\ calls[k].rule \in Rules
  <2> SUFFICES ASSUME NEW k \in i..n
               PROVE  calls[k].rule \in RulesOf(pack) /\ calls[k].rule \in Rules
    OBVIOUS
  <2>1. k \in 1..n
    BY <1>3
  <2>2. calls[k] \in Call
    BY <1>1, <2>1
  <2> QED
    BY <2>1, <2>2 DEF CallsInv, Call
<1>5. \A k \in i..n : \E q \in S : q \in operands[calls[k].rule]
  <2>1. i \in i..n /\ n \in i..n
    BY <1>1, <1>2
  <2>2. o \in S
    BY <1>2, <2>1
  <2>3. o \in operands[calls[n].rule]
    BY <1>1, <1>3, <2>1 DEF ProgressInv
  <2>4. ASSUME NEW k \in i..n, k \in 1..(n - 1), k + 1 \in i..n
        PROVE  \E q \in S : q \in operands[calls[k].rule]
    BY <2>4 DEF ProgressInv
  <2> QED
    BY <1>3, <2>2, <2>3, <2>4
<1>6. S \in (SUBSET Rules) \ {{}}
  <2>1. i \in i..n
    BY <1>1, <1>2
  <2> QED
    BY <1>4, <2>1
<1>7. \A r \in S : OwnOperands[r] \cap S # {}
  <2> SUFFICES ASSUME NEW k \in i..n PROVE OwnOperands[calls[k].rule] \cap S # {}
    OBVIOUS
  <2>1. PICK q \in S : q \in operands[calls[k].rule]
    BY <1>5
  <2>2. PackOf[q] = PackOf[calls[k].rule]
    BY <1>4 DEF RulesOf
  <2>3. q \in OwnOperands[calls[k].rule]
    BY <1>4, <2>1, <2>2 DEF OwnOperands
  <2> QED
    BY <2>1, <2>3
<1> QED
  BY <1>6, <1>7 DEF Acyclic

(* An operand of no pack that has finished is none that could have been. *)
LEMMA MissingIsReal ==
  ASSUME KnownInv, NEW o \in Rules, OperandMissing(o)
  PROVE  \E r \in defined : Dangling(r)
<1> USE DEF KnownInv, EngineInv
<1>1. /\ Len(calls) \in 1..Len(calls) /\ o \in Top.todo
      /\ o \notin RulesOf(pack) /\ o \notin Resolved
  BY DEF OperandMissing, Asks, TypeOK
<1> DEFINE r == calls[Len(calls)].rule
<1>2. r \in RulesOf(pack) /\ o \in operands[r]
  BY <1>1 DEF CallsInv, ProgressInv, Top
<1>3. r \in defined /\ PackOf[r] = pack
  BY <1>2 DEF RulesOf
<1>4. ASSUME o \in defined, PackBefore(PackOf[o], pack) PROVE FALSE
  <2>1. PackOf[o] \in Packs /\ pack \in Packs /\ residence \in Packs
    BY PackAssumption DEF TypeOK
  <2>2. PackOf[o] \in Begun
    BY <1>4, <2>1, PackBeforeTotal DEF PacksInv, Begun
  <2>3. PackOf[o] \in finished
    BY <1>1, <1>4, <2>2 DEF Begun, RulesOf
  <2> QED
    BY <1>1, <1>4, <2>3 DEF ProgressInv, RulesOf
<1>5. o \in defined => PackOf[o] # pack
  BY <1>1 DEF RulesOf
<1> QED
  BY <1>2, <1>3, <1>4, <1>5 DEF Dangling

LEMMA HeadlineIsMissing ==
  ASSUME KnownInv, EndPack, phase' = "headline"
  PROVE  ~ Headlines \subseteq defined
<1> USE DEF KnownInv, EngineInv
<1>1. /\ pack = Federal /\ ~ Headlines \subseteq Resolved
      /\ calls = <<>> /\ RulesOf(pack) \subseteq taken
  BY DEF EndPack, Refuse
<1>2. RulesOf(Federal) \subseteq Resolved
  BY <1>1 DEF ProgressInv, Evaluating
<1> QED
  BY <1>1, <1>2, PackAssumption DEF RulesOf

(* A run is sealed when every rule of every pack has its result, behind its
   operands: take the first result among any set of rules. *)
LEMMA SealedIsSound ==
  ASSUME KnownInv, Seal
  PROVE  /\ Acyclic(operands)
         /\ \A r \in defined : ~ Dangling(r)
         /\ Headlines \subseteq defined
         /\ foreign = {}
         /\ Resolved = defined
<1> USE DEF KnownInv, EngineInv
<1>1. Packs \subseteq finished
  BY DEF Seal
<1>2. Resolved = defined
  <2>1. \A r \in defined : r \in RulesOf(PackOf[r]) /\ PackOf[r] \in Packs
    BY PackAssumption DEF RulesOf, TypeOK
  <2> QED
    BY <1>1, <2>1 DEF ProgressInv
<1>3. Headlines \subseteq defined
  BY <1>1, <1>2 DEF ChecksInv, Packs
<1>4. foreign = {}
  BY <1>1 DEF ChecksInv, Begun, TypeOK, Packs
<1>5. ASSUME NEW r \in defined, Dangling(r) PROVE FALSE
  <2>1. PICK l \in 1..Len(traces) : traces[l] = r
    BY <1>2 DEF Resolved
  <2>2. PICK o \in operands[r] :
          \/ o \notin defined
          \/ (PackOf[o] # PackOf[r] /\ ~ PackBefore(PackOf[o], PackOf[r]))
    BY <1>5 DEF Dangling
  <2>3. PICK k \in 1..(l - 1) : traces[k] = o
    BY <2>1, <2>2 DEF TracesInv, OperandsFirst
  <2>4. k \in 1..Len(traces) /\ k < l
    BY <2>1, <2>3 DEF TypeOK
  <2>5. o \in defined
    BY <1>2, <2>3, <2>4 DEF Resolved
  <2> QED
    BY <2>1, <2>2, <2>3, <2>4, <2>5 DEF OrderInv
<1>6. ASSUME NEW S \in (SUBSET Rules) \ {{}} PROVE \E r \in S : operands[r] \cap S = {}
  <2>1. CASE \E r \in S : r \notin defined
    BY <1>6, <2>1 DEF ChecksInv
  <2>2. CASE S \subseteq defined
    <3> DEFINE K == {k \in 1..Len(traces) : traces[k] \in S}
    <3>1. K \in SUBSET Nat
      BY DEF TypeOK
    <3>2. K # {}
      <4>1. PICK r \in S : r \in Resolved
        BY <1>2, <1>6, <2>2
      <4> QED
        BY <4>1 DEF Resolved
    <3>3. PICK l \in K : \A k \in K : l <= k
      <4> HIDE DEF K
      <4> QED
        BY <3>1, <3>2, LeastNat
    <3>4. ASSUME NEW o \in operands[traces[l]], o \in S PROVE FALSE
      <4>1. PICK k \in 1..(l - 1) : traces[k] = o
        BY <3>3 DEF TracesInv, OperandsFirst
      <4>2. k \in K /\ k < l
        BY <3>3, <3>4, <4>1 DEF TypeOK
      <4>3. l <= k /\ l \in Nat /\ k \in Nat
        BY <3>1, <3>3, <4>2
      <4> QED
        BY <4>2, <4>3
    <3> QED
      BY <3>3, <3>4
  <2> QED
    BY <2>1, <2>2
<1>7. Acyclic(operands)
  BY <1>6 DEF Acyclic
<1> QED
  BY <1>2, <1>3, <1>4, <1>5, <1>7

(* What the verdict is about is given with the packs, or does not change
   once the run has ended. *)
LEMMA VerdictStep == VerdictInv /\ [Next]_vars => VerdictIsRight'
<1> SUFFICES ASSUME VerdictInv, [Next]_vars PROVE VerdictIsRight'
  OBVIOUS
<1>1. UNCHANGED input
  BY DEF Next, TakeRule, Operand, OperandKnown, OperandOnDemand, OperandUnderWay,
     OperandMissing, Finish, EvaluatorFails, EndPack, BeginState, Seal, Refuse, vars
<1>2. /\ Acyclic(operands)' = Acyclic(operands)
      /\ Acyclic(OwnOperands)' = Acyclic(OwnOperands)
      /\ \A r : Dangling(r)' = Dangling(r)
      /\ UNCHANGED <<defined, foreign>>
  BY <1>1 DEF input, Acyclic, OwnOperands, Dangling, PackBefore
<1>3. CASE phase' = "running"
  BY <1>3 DEF VerdictIsRight
<1>4. CASE UNCHANGED <<phase, traces>>
  BY <1>2, <1>4 DEF VerdictInv, VerdictIsRight, Resolved
<1>5. ASSUME NEW o \in Rules, OperandUnderWay(o) PROVE VerdictIsRight'
  <2>1. phase' = "cycle"
    BY <1>5 DEF OperandUnderWay, Refuse
  <2> QED
    BY <1>2, <1>5, <2>1, CycleIsReal DEF VerdictInv, VerdictIsRight
<1>6. ASSUME NEW o \in Rules, OperandMissing(o) PROVE VerdictIsRight'
  <2>1. phase' = "missing"
    BY <1>6 DEF OperandMissing, Refuse
  <2> QED
    BY <1>2, <1>6, <2>1, MissingIsReal DEF VerdictInv, VerdictIsRight
<1>7. CASE EvaluatorFails
  BY <1>7 DEF EvaluatorFails, Refuse, VerdictIsRight
<1>8. CASE EndPack
  <2>1. phase' = "headline" \/ phase' = "running"
    BY <1>8 DEF EndPack, Refuse
  <2> QED
    BY <1>2, <1>3, <1>8, <2>1, HeadlineIsMissing DEF VerdictInv, VerdictIsRight
<1>9. ASSUME NEW s \in States, BeginState(s) PROVE VerdictIsRight'
  <2>1. (phase' = "jurisdiction" /\ s \in foreign) \/ phase' = "running"
    BY <1>9 DEF BeginState, Refuse
  <2> QED
    BY <1>2, <1>3, <2>1 DEF VerdictIsRight
<1>10. CASE Seal
  <2>1. phase' = "done" /\ Resolved' = Resolved
    BY <1>10 DEF Seal, Resolved
  <2> QED
    BY <1>2, <1>10, <2>1, SealedIsSound DEF VerdictInv, VerdictIsRight
<1>11. ASSUME Finish \/ \E r \in Rules : TakeRule(r) \/ OperandKnown(r) \/ OperandOnDemand(r)
       PROVE  phase' = "running"
  BY <1>11 DEF Finish, TakeRule, OperandKnown, OperandOnDemand, Asks
<1> QED
  BY <1>3, <1>4, <1>5, <1>6, <1>7, <1>8, <1>9, <1>10, <1>11 DEF Next, Operand, vars

-----------------------------------------------------------------------------
LEMMA VerdictInit == Init => VerdictInv
<1> SUFFICES ASSUME Init PROVE VerdictInv
  OBVIOUS
<1>1. /\ calls = <<>> /\ traces = <<>> /\ finished = {} /\ pack = Federal
      /\ taken = {} /\ phase = "running" /\ foreign \subseteq States
  BY DEF Init
<1>2. ProgressInv
  BY <1>1 DEF ProgressInv, Resolved, Evaluating
<1>3. \A r \in Rules \ defined : operands[r] = {}
  BY DEF Init, Operands, Edges
<1>4. ChecksInv
  BY <1>1, <1>3, PackAssumption DEF ChecksInv, Begun, States, Federal
<1>5. VerdictIsRight
  BY <1>1 DEF VerdictIsRight
<1> QED
  BY <1>2, <1>4, <1>5, EngineInit DEF VerdictInv, KnownInv

(* Whatever the packs say, the engine refuses a run only for a reason they
   give, and seals one only if they give none (CalculationEngine.run, and
   _evaluate_rule and _resolve_ref under it). *)
THEOREM VerdictsAreRight == Spec => []VerdictIsRight
<1>1. VerdictInv /\ [Next]_vars => VerdictInv'
  BY EngineStep, ProgressStep, ChecksStep, VerdictStep DEF VerdictInv, KnownInv
<1>2. VerdictInv => VerdictIsRight
  BY DEF VerdictInv
<1> QED
  BY VerdictInit, <1>1, <1>2, PTL DEF Spec
=============================================================================
