----------------------- MODULE DepResolverSpecProofs ------------------------
(***************************************************************************)
(* Proofs about DepResolverSpec, for any set of Gslbs, ingresses and       *)
(* durations and any number of failures.                                   *)
(***************************************************************************)
EXTENDS DepResolverSpec, TLAPS

(* A spec with defaults is a spec, and its durations are not zero. *)
LEMMA WithDefaults ==
    ASSUME NEW s \in GslbSpec
    PROVE  /\ withDefaults(s) \in GslbSpec
           /\ withDefaults(s).ttl # 0
           /\ withDefaults(s).splitBrain # 0
  BY DEF withDefaults, GslbSpec, Duration, DNSTtlSeconds, SplitBrainThresholdSeconds

(* A valid spec with defaults has positive durations. *)
LEMMA ValidIsPositive ==
    ASSUME NEW s \in GslbSpec, validateSpec(withDefaults(s))
    PROVE  withDefaults(s).ttl > 0 /\ withDefaults(s).splitBrain > 0
  <1>1. Duration \subseteq Int
    BY SecondsAssumption DEF Duration, DNSTtlSeconds, SplitBrainThresholdSeconds
  <1>2. withDefaults(s).ttl \in Int /\ withDefaults(s).splitBrain \in Int
    BY <1>1, WithDefaults DEF GslbSpec
  <1>. QED
    BY <1>2, WithDefaults DEF validateSpec

(* The memory, the results and the stored specs belong together. *)
IInv == TypeOK /\ MemoryInv /\ AcceptedIsResolved

(* One step for the call whose answer is newly computed: what it remembers    *)
(* without an error has positive durations.                                  *)
LEMMA ReturnsStep ==
    ASSUME IInv, NEW g \in Gslb, NEW s \in GslbSpec,
           NEW err \in {"nil", "invalid", "update"}, Returns(g, s, err),
           err = "nil" => s.ttl > 0 /\ s.splitBrain > 0,
           stored' \in [Gslb -> GslbSpec], UNCHANGED cached, faults' \in Nat
    PROVE  IInv'
  <1>1. TypeOK'
    BY DEF IInv, TypeOK, Returns
  <1>2. MemoryInv'
    BY DEF MemoryInv, Returns
  <1>3. AcceptedIsResolved'
    BY DEF IInv, TypeOK, AcceptedIsResolved, Returns
  <1>. QED
    BY <1>1, <1>2, <1>3 DEF IInv

(* Every step keeps the inductive invariant. *)
LEMMA StepIInv == IInv /\ [Next]_vars => IInv'
  <1>. SUFFICES ASSUME IInv, [Next]_vars PROVE IInv'
    OBVIOUS
  <1>a. TypeOK
    BY DEF IInv
  <1>1. ASSUME NEW g \in Gslb, Remembered(g) PROVE IInv'
    <2>1. spec # NoSpec /\ spec \in GslbSpec
      <3>1. spec \in GslbSpec
        BY <1>1, <1>a DEF Remembered, TypeOK
      <3>2. spec.ingress \in Ingress
        BY <3>1 DEF GslbSpec
      <3>. QED
        <4>1. NoSpec.ingress = ""
          BY DEF NoSpec
        <4>. QED
          BY <3>1, <3>2, <4>1, NoSpecAssumption
    <2>2. errorSpec = "nil" => spec.ttl > 0 /\ spec.splitBrain > 0
      BY <2>1 DEF IInv, MemoryInv
    <2>. QED
      BY <1>1, <1>a, <2>1, <2>2, ReturnsStep DEF Remembered, TypeOK
  <1>2. ASSUME NEW g \in Gslb, Resolved(g) PROVE IInv'
    <2>1. withDefaults(cached[g]) \in GslbSpec
      BY <1>a, WithDefaults DEF TypeOK
    <2>2. withDefaults(cached[g]).ttl > 0 /\ withDefaults(cached[g]).splitBrain > 0
      BY <1>2, <1>a, ValidIsPositive DEF TypeOK, Resolved
    <2>3. stored' \in [Gslb -> GslbSpec] /\ faults' \in Nat
      BY <1>2, <1>a, <2>1 DEF TypeOK, Resolved
    <2>. QED
      BY <1>2, <2>1, <2>2, <2>3, ReturnsStep DEF Resolved
  <1>3. ASSUME NEW g \in Gslb, Rejected(g) PROVE IInv'
    <2>1. withDefaults(cached[g]) \in GslbSpec
      BY <1>a, WithDefaults DEF TypeOK
    <2>. QED
      BY <1>3, <1>a, <2>1, ReturnsStep DEF Rejected, TypeOK
  <1>4. ASSUME NEW g \in Gslb, Conflict(g) \/ UpdateFails(g) PROVE IInv'
    <2>1. withDefaults(cached[g]) \in GslbSpec
      BY <1>a, WithDefaults DEF TypeOK
    <2>. QED
      BY <1>4, <1>a, <2>1, ReturnsStep DEF Conflict, UpdateFails, Fault, TypeOK
  <1>5. ASSUME NEW g \in Gslb, Edit(g) PROVE IInv'
    <2>1. TypeOK'
      BY <1>5, <1>a DEF Edit, Fault, TypeOK, GslbSpec, Duration
    <2>. QED
      BY <1>5, <2>1 DEF Edit, IInv, MemoryInv, AcceptedIsResolved
  <1>6. ASSUME NEW g \in Gslb, CacheSync(g) PROVE IInv'
    <2>1. TypeOK'
      BY <1>6, <1>a DEF CacheSync, TypeOK
    <2>. QED
      BY <1>6, <2>1 DEF CacheSync, IInv, MemoryInv, AcceptedIsResolved
  <1>7. CASE UNCHANGED vars
    BY <1>7 DEF vars, IInv, TypeOK, MemoryInv, AcceptedIsResolved
  <1>. QED
    BY <1>1, <1>2, <1>3, <1>4, <1>5, <1>6, <1>7 DEF Next, ResolveGslbSpec

(* No Gslb is ever reconciled with a zero or negative duration, though one    *)
(* memory serves all Gslbs of the cluster (depresolver_spec.go:41-55).       *)
THEOREM AcceptedIsResolvedHolds == Spec => []AcceptedIsResolved
  <1>1. Init => IInv
    BY DEF Init, IInv, TypeOK, MemoryInv, AcceptedIsResolved, GslbSpec, Duration
  <1>2. IInv => AcceptedIsResolved
    BY DEF IInv
  <1>. QED
    BY <1>1, <1>2, StepIInv, PTL DEF Spec
-----------------------------------------------------------------------------
(* The memory does not show *)

(* What is remembered is complete, and it was judged by what it says. *)
VerdictInv ==
    spec # NoSpec =>
        /\ spec.ttl # 0 /\ spec.splitBrain # 0
        /\ validateSpec(spec) <=> errorSpec \in {"nil", "update"}

(* A spec of a Gslb is none the resolver starts with. *)
LEMMA StoredIsSpec ==
    ASSUME NEW s \in GslbSpec
    PROVE  s # NoSpec /\ s.ttl \in Int /\ s.splitBrain \in Int
  <1>1. s.ingress \in Ingress /\ s.ttl \in Duration /\ s.splitBrain \in Duration
    BY DEF GslbSpec
  <1>2. NoSpec.ingress = ""
    BY DEF NoSpec
  <1>3. Duration \subseteq Int
    BY SecondsAssumption DEF Duration, DNSTtlSeconds, SplitBrainThresholdSeconds
  <1>. QED
    BY <1>1, <1>2, <1>3, NoSpecAssumption

(* The defaults leave alone what is there, and so neither make a valid spec   *)
(* invalid nor an invalid one valid.                                          *)
LEMMA DefaultsKeepVerdict ==
    ASSUME NEW s \in GslbSpec
    PROVE  /\ validateSpec(withDefaults(s)) <=> ~Verdict!Negative(s)
           /\ validateSpec(withDefaults(s)) => Verdict!Completes(withDefaults(s), s)
  <1>1. s.ttl \in Int /\ s.splitBrain \in Int
    BY StoredIsSpec
  <1>. QED
    BY <1>1 DEF validateSpec, withDefaults, Verdict!Negative, Verdict!Completes,
                DNSTtlSeconds, SplitBrainThresholdSeconds

(* Only a call writes the memory. *)
LEMMA VerdictStep == TypeOK /\ VerdictInv /\ [Next]_vars => VerdictInv'
  <1>. SUFFICES ASSUME TypeOK, VerdictInv, [Next]_vars PROVE VerdictInv'
    OBVIOUS
  <1>1. ASSUME NEW g \in Gslb, Remembered(g) PROVE VerdictInv'
    BY <1>1 DEF Remembered, Returns, VerdictInv
  <1>2. ASSUME NEW g \in Gslb, Resolved(g) \/ Rejected(g) \/ Conflict(g) \/ UpdateFails(g) PROVE VerdictInv'
    <2>1. withDefaults(cached[g]).ttl # 0 /\ withDefaults(cached[g]).splitBrain # 0
      BY WithDefaults DEF TypeOK
    <2>2. /\ spec' = withDefaults(cached[g])
          /\ validateSpec(withDefaults(cached[g])) <=> errorSpec' \in {"nil", "update"}
      BY <1>2 DEF Resolved, Rejected, Conflict, UpdateFails, Returns
    <2>. QED
      BY <2>1, <2>2 DEF VerdictInv, NoSpec
  <1>3. ASSUME NEW g \in Gslb, Edit(g) \/ CacheSync(g) PROVE VerdictInv'
    BY <1>3 DEF Edit, CacheSync, VerdictInv
  <1>4. CASE UNCHANGED vars
    BY <1>4 DEF vars, VerdictInv
  <1>. QED
    BY <1>1, <1>2, <1>3, <1>4 DEF Next, ResolveGslbSpec

(* Every call is, for the Gslb at hand, one that has no memory. *)
LEMMA RefinementStep ==
    TypeOK /\ VerdictInv /\ [Next]_vars => [Verdict!Next]_(Verdict!vars)
  <1>. SUFFICES ASSUME TypeOK, VerdictInv, [Next]_vars PROVE Verdict!Next \/ UNCHANGED Verdict!vars
    OBVIOUS
  <1>a. stored \in [Gslb -> GslbSpec] /\ cached \in [Gslb -> GslbSpec] /\ errorSpec \in {"nil", "invalid", "update"}
    BY DEF TypeOK
  <1>b. resolved \in [Gslb -> GslbSpec \union {NoSpec}]
    BY DEF TypeOK
  <1>1. ASSUME NEW g \in Gslb, Remembered(g)
        PROVE  Verdict!Accept(g) \/ Verdict!Reject(g) \/ Verdict!Fail(g)
    <2>1. spec = cached[g] /\ spec \in GslbSpec
      BY <1>a, <1>1 DEF Remembered
    <2>2. /\ spec # NoSpec /\ spec.ttl \in Int /\ spec.splitBrain \in Int
      BY <2>1, StoredIsSpec
    <2>3. /\ spec.ttl # 0 /\ spec.splitBrain # 0
          /\ validateSpec(spec) <=> errorSpec \in {"nil", "update"}
      BY <2>2 DEF VerdictInv
    <2>4. /\ UNCHANGED <<stored, cached>>
          /\ outcome' = [outcome EXCEPT ![g] = errorSpec]
          /\ resolved' = [resolved EXCEPT ![g] = IF errorSpec = "nil" THEN spec ELSE @]
      BY <1>1 DEF Remembered, Returns
    <2>5. CASE errorSpec = "nil"
      <3>1. Verdict!Completes(spec, cached[g])
        BY <2>1, <2>2, <2>3, <2>5 DEF Verdict!Completes, validateSpec
      <3>. QED
        BY <2>1, <2>4, <2>5, <3>1 DEF Verdict!Accept
    <2>6. CASE errorSpec # "nil"
      <3>1. UNCHANGED resolved
        BY <1>b, <2>4, <2>6
      <3>2. errorSpec = "invalid" => Verdict!Negative(cached[g])
        BY <2>1, <2>2, <2>3 DEF Verdict!Negative, validateSpec
      <3>3. errorSpec = "update" => ~Verdict!Negative(cached[g])
        BY <2>1, <2>2, <2>3 DEF Verdict!Negative, validateSpec
      <3>. QED
        BY <1>a, <2>4, <2>6, <3>1, <3>2, <3>3 DEF Verdict!Reject, Verdict!Fail
    <2>. QED
      BY <2>5, <2>6
  <1>2. ASSUME NEW g \in Gslb, Resolved(g) PROVE Verdict!Accept(g)
    <2>1. withDefaults(cached[g]) \in GslbSpec
      BY <1>a, WithDefaults
    <2>2. Verdict!Completes(withDefaults(cached[g]), cached[g])
      BY <1>a, <1>2, DefaultsKeepVerdict DEF Resolved
    <2>. QED
      BY <1>2, <2>1, <2>2 DEF Resolved, Returns, Verdict!Accept
  <1>3. ASSUME NEW g \in Gslb, Rejected(g) PROVE Verdict!Reject(g)
    <2>1. Verdict!Negative(cached[g])
      BY <1>a, <1>3, DefaultsKeepVerdict DEF Rejected
    <2>2. UNCHANGED resolved
      BY <1>b, <1>3 DEF Rejected, Returns
    <2>. QED
      BY <1>3, <2>1, <2>2 DEF Rejected, Returns, Verdict!Reject
  <1>4. ASSUME NEW g \in Gslb, Conflict(g) \/ UpdateFails(g) PROVE Verdict!Fail(g)
    <2>1. ~Verdict!Negative(cached[g])
      BY <1>a, <1>4, DefaultsKeepVerdict DEF Conflict, UpdateFails
    <2>2. UNCHANGED resolved
      BY <1>b, <1>4 DEF Conflict, UpdateFails, Returns
    <2>. QED
      BY <1>4, <2>1, <2>2 DEF Conflict, UpdateFails, Returns, Verdict!Fail
  <1>5. ASSUME NEW g \in Gslb, Edit(g) PROVE Verdict!Edit(g)
    <2>1. [ingress : Ingress, ttl : Seconds, splitBrain : Seconds] \subseteq GslbSpec
      BY DEF GslbSpec, Duration
    <2>. QED
      BY <1>5, <2>1 DEF Edit, Verdict!Edit
  <1>6. ASSUME NEW g \in Gslb, CacheSync(g) PROVE Verdict!Show(g)
    BY <1>6 DEF CacheSync, Verdict!Show
  <1>7. CASE UNCHANGED vars
    BY <1>7 DEF vars, Verdict!vars
  <1>. QED
    BY <1>1, <1>2, <1>3, <1>4, <1>5, <1>6, <1>7 DEF Next, ResolveGslbSpec, Verdict!Next

(* For any number of Gslbs and failed updates, the resolver with its one      *)
(* memory implements the one that has none: every Gslb gets the verdict on    *)
(* its own spec (depresolver_spec.go:35-57).                                  *)
THEOREM DepResolverImplementsVerdict == Spec => ImplementsVerdict
  <1>1. Init => VerdictInv /\ Verdict!Init
    <2>. SUFFICES ASSUME Init PROVE VerdictInv /\ Verdict!Init
      OBVIOUS
    <2>1. [ingress : Ingress, ttl : Seconds, splitBrain : Seconds] \subseteq GslbSpec
      BY DEF GslbSpec, Duration
    <2>. QED
      BY <2>1 DEF Init, VerdictInv, Verdict!Init
  <1>2. Init => IInv
    BY DEF Init, IInv, TypeOK, MemoryInv, AcceptedIsResolved, GslbSpec, Duration
  <1>3. IInv => TypeOK
    BY DEF IInv
  <1>. QED
    BY <1>1, <1>2, <1>3, StepIInv, VerdictStep, RefinementStep, PTL
       DEF Spec, ImplementsVerdict, Verdict!Spec
=============================================================================
