--------------------------- MODULE GslbDNSProofs ---------------------------
(***************************************************************************)
(* Proofs about GslbDNS, for any number of clusters, addresses, paths and  *)
(* faults and for every strategy.                                          *)
(***************************************************************************)
EXTENDS GslbDNS, TLAPS

(* The health the reconcile keeps is one of the three words of status.go: a  *)
(* backend whose Endpoints cannot be read never gets that far.               *)
LEMMA HealthType ==
    ASSUME NEW b \in [1..Paths -> SvcState], healthReadable(b)
    PROVE  getServiceHealthStatus(b) \in Health
  <1>1. Paths \in 1..Paths
    BY PathsAssumption
  <1>. QED
    BY <1>1 DEF healthReadable, getServiceHealthStatus, SvcState, Health

(* The DNSEndpoint built from sets of addresses consists of sets of addresses. *)
LEMMA EndpointType ==
    ASSUME NEW c, NEW h, NEW own \in SUBSET Addr, NEW external \in SUBSET Addr
    PROVE  gslbDNSEndpoint(c, h, own, external) \in DNSEndpoint
  BY DEF gslbDNSEndpoint, finalTargets, DNSEndpoint

(* The step of every action, for type correctness. *)
LEMMA TypeStep == TypeOK /\ [Next]_vars => TypeOK'
  <1>. SUFFICES ASSUME TypeOK, [Next]_vars PROVE TypeOK'
    OBVIOUS
  <1>. USE DEF TypeOK
  <1>1. ASSUME NEW c \in Cluster, ReadServiceHealth(c) PROVE TypeOK'
    <2>1. getServiceHealthStatus(svc[c]) \in Health
      BY <1>1, HealthType DEF ReadServiceHealth
    <2>. DEFINE W == [d \in Cluster |-> {endpoint[d].local}]
    <2>2. W \in [Cluster -> SUBSET SUBSET Addr]
      BY DEF DNSEndpoint
    <2>3. seen' = [seen EXCEPT ![c] = W]
      BY <1>1 DEF ReadServiceHealth
    <2>. HIDE DEF W
    <2>4. seen' \in [Cluster -> [Cluster -> SUBSET SUBSET Addr]]
      BY <2>2, <2>3
    <2>. QED
      BY <1>1, <2>1, <2>4 DEF ReadServiceHealth, env
  <1>2. ASSUME NEW c \in Cluster, HealthError(c) PROVE TypeOK'
    BY <1>2 DEF HealthError, vars, env, locals
  <1>3. ASSUME NEW c \in Cluster, GslbIngressExposedIPs(c) PROVE TypeOK'
    BY <1>3 DEF GslbIngressExposedIPs, env
  <1>4. ASSUME NEW c \in Cluster, DigError(c) PROVE TypeOK'
    BY <1>4 DEF DigError, Return, env, Health
  <1>5. ASSUME NEW c \in Cluster, NEW d \in Cluster, GetExternalTargets(c, d)
        PROVE  TypeOK'
    <2>1. localtargetsAnswer(c, d) \in SUBSET Addr
      BY DEF localtargetsAnswer, DNSEndpoint
    <2>. QED
      BY <1>5, <2>1 DEF GetExternalTargets, env
  <1>6. ASSUME NEW c \in Cluster, NEW d \in Cluster, QueryError(c, d) PROVE TypeOK'
    BY <1>6 DEF QueryError, env
  <1>7. ASSUME NEW c \in Cluster, SaveDNSEndpoint(c) PROVE TypeOK'
    <2>1. gslbDNSEndpoint(c, health[c], localTargets[c], externalTargets[c]) \in DNSEndpoint
      BY EndpointType
    <2>2. seen' \in [Cluster -> [Cluster -> SUBSET SUBSET Addr]]
      BY <1>7, <2>1 DEF SaveDNSEndpoint, Shown, DNSEndpoint
    <2>. QED
      BY <1>7, <2>1, <2>2 DEF SaveDNSEndpoint, Return, env, Health
  <1>8. ASSUME NEW c \in Cluster, Abort(c) PROVE TypeOK'
    BY <1>8 DEF Abort, Fault, Return, env, Health
  <1>9. ASSUME NEW c \in Cluster, ServiceChanges(c) PROVE TypeOK'
    BY <1>9 DEF ServiceChanges, Fault, locals
  <1>10. ASSUME NEW c \in Cluster, AddressesChange(c) PROVE TypeOK'
    BY <1>10 DEF AddressesChange, Addresses, Fault, locals
  <1>11. ASSUME NEW n \in NameServer, NameServerChanges(n) PROVE TypeOK'
    BY <1>11 DEF NameServerChanges, Fault, locals
  <1>12. CASE UNCHANGED vars
    BY <1>12 DEF vars, env, locals
  <1>. QED
    BY <1>1, <1>2, <1>3, <1>4, <1>5, <1>6, <1>7, <1>8, <1>9, <1>10, <1>11, <1>12
       DEF Next, Reconcile

(* Type correctness of the reconciles of all clusters: among others, the      *)
(* health that decides what is published is never an unread one.             *)
THEOREM TypeCorrect == Spec => []TypeOK
  <1>1. Init => TypeOK
    BY DEF Init, TypeOK, Addresses, DNSEndpoint, Health, NameServer
  <1>. QED
    BY <1>1, TypeStep, PTL DEF Spec

-----------------------------------------------------------------------------
(* The inductive invariant *)

(* The properties together with the reasons for them. *)
IInv ==
    /\ TypeOK
    /\ AddressInv
    /\ HealthyInv
    /\ SeenInv
    /\ FirstAnswerInv
    /\ NeverHealthyNeverResolved
    /\ FailoverNeverMixes

(* What a reconcile publishes for the host comes from its own healthy         *)
(* Ingress, which it then advertises as well, or from another cluster.        *)
LEMMA FinalTargets ==
    ASSUME NEW c, NEW h, NEW own, NEW external
    PROVE  \A a \in gslbDNSEndpoint(c, h, own, external).host :
              \/ a \in external
              \/ h = "Healthy" /\ a \in gslbDNSEndpoint(c, h, own, external).local
  BY DEF gslbDNSEndpoint, finalTargets

(* The localtargets record is the Ingress addresses of a healthy host.        *)
LEMMA LocalTargets ==
    ASSUME NEW c, NEW h, NEW own, NEW external,
           gslbDNSEndpoint(c, h, own, external).local # {}
    PROVE  h = "Healthy" /\ gslbDNSEndpoint(c, h, own, external).local = own
  BY DEF gslbDNSEndpoint

(* Under failover the answer is taken from one place only.                    *)
LEMMA FailoverTargets ==
    ASSUME NEW c, NEW h, NEW own, NEW external, strategyType = "failover"
    PROVE  \/ gslbDNSEndpoint(c, h, own, external).host = external
           \/ gslbDNSEndpoint(c, h, own, external).host \subseteq own
  BY DEF gslbDNSEndpoint, finalTargets

(* A cluster answers with its own addresses, and only to the first name.      *)
LEMMA Answered ==
    ASSUME AddressInv, NEW c \in Cluster, NEW d \in Cluster
    PROVE  /\ \A a \in localtargetsAnswer(c, d) : a \in Addr /\ Owner[a] = d
           /\ prefixed[c] => localtargetsAnswer(c, d) = {}
           /\ ~prefixed[c] => localtargetsAnswer(c, d) = endpoint[d].local
  BY DEF localtargetsAnswer, AddressInv, Addresses

(* A save closes the own window and shows the new record in the open ones.    *)
LEMMA ShownWindows ==
    ASSUME NEW c \in Cluster, NEW local \in SUBSET Addr,
           seen \in [Cluster -> [Cluster -> SUBSET SUBSET Addr]]
    PROVE  /\ Shown(c, local) \in [Cluster -> [Cluster -> SUBSET SUBSET Addr]]
           /\ \A d \in Cluster : Shown(c, local)[c][d] = {}
           /\ \A x, d \in Cluster : x # c =>
                 /\ Shown(c, local)[x][d] = {} <=> seen[x][d] = {}
                 /\ seen[x][d] \subseteq Shown(c, local)[x][d]
                 /\ \A A \in Shown(c, local)[x][d] : A \in seen[x][d] \/ (d = c /\ A = local)
                 /\ seen[x][c] # {} => local \in Shown(c, local)[x][c]
  BY DEF Shown

(* The initial states satisfy the inductive invariant. *)
LEMMA InitIInv == Init => IInv
  <1>. SUFFICES ASSUME Init PROVE IInv
    OBVIOUS
  <1>1. TypeOK
    BY DEF Init, TypeOK, Addresses, DNSEndpoint, Health, NameServer
  <1>2. AddressInv /\ HealthyInv /\ SeenInv /\ FirstAnswerInv
    BY DEF Init, AddressInv, HealthyInv, SeenInv, FirstAnswerInv
  <1>3. NeverHealthyNeverResolved /\ FailoverNeverMixes
    BY DEF Init, NeverHealthyNeverResolved, FailoverNeverMixes
  <1>. QED
    BY <1>1, <1>2, <1>3 DEF IInv

(* A step that opens, closes or leaves alone the window of c keeps SeenInv,   *)
(* as long as nobody saves.                                                   *)
LEMMA SeenStep ==
    ASSUME TypeOK, TypeOK', SeenInv, AddressInv, UNCHANGED endpoint, NEW c \in Cluster,
           \A x \in Cluster \ {c} : pc'[x] = pc[x] /\ seen'[x] = seen[x],
           \/ pc'[c] # "idle" /\ seen'[c] = [d \in Cluster |-> {endpoint[d].local}]
           \/ pc'[c] = "idle" /\ seen'[c] = [d \in Cluster |-> {}]
           \/ pc[c] # "idle" /\ pc'[c] # "idle" /\ seen'[c] = seen[c]
    PROVE  SeenInv'
  <1>1. ASSUME NEW x \in Cluster, x # c, NEW d \in Cluster
        PROVE  /\ pc'[x] = "idle" <=> seen'[x][d] = {}
               /\ pc'[x] # "idle" => endpoint'[d].local \in seen'[x][d]
               /\ \A A \in seen'[x][d] : A \subseteq Addresses(d)
    BY <1>1 DEF SeenInv
  <1>2. ASSUME NEW d \in Cluster
        PROVE  /\ pc'[c] = "idle" <=> seen'[c][d] = {}
               /\ pc'[c] # "idle" => endpoint'[d].local \in seen'[c][d]
               /\ \A A \in seen'[c][d] : A \subseteq Addresses(d)
    <2>1. CASE pc'[c] # "idle" /\ seen'[c] = [x \in Cluster |-> {endpoint[x].local}]
      <3>1. seen'[c][d] = {endpoint[d].local}
        BY <2>1
      <3>. QED
        BY <2>1, <3>1 DEF AddressInv
    <2>2. CASE pc'[c] = "idle" /\ seen'[c] = [x \in Cluster |-> {}]
      BY <2>2
    <2>3. CASE pc[c] # "idle" /\ pc'[c] # "idle" /\ seen'[c] = seen[c]
      BY <2>3 DEF SeenInv
    <2>. QED
      BY <2>1, <2>2, <2>3
  <1>. QED
    BY <1>1, <1>2 DEF SeenInv

(* A reconcile that returns forgets what it has found. *)
LEMMA ReturnFirstAnswer ==
    ASSUME TypeOK, FirstAnswerInv, NEW c \in Cluster, Return(c),
           \A x, d \in Cluster : x # c => seen[x][d] \subseteq seen'[x][d]
    PROVE  FirstAnswerInv'
  <1>1. ASSUME NEW x \in Cluster, x # c
        PROVE  /\ pending'[x] = pending[x] /\ prefixed'[x] = prefixed[x]
               /\ pc'[x] = pc[x] /\ externalTargets'[x] = externalTargets[x]
    BY <1>1 DEF TypeOK, Return
  <1>2. pending'[c] = {} /\ externalTargets'[c] = {}
    BY DEF TypeOK, Return
  <1>. QED
    BY <1>1, <1>2 DEF FirstAnswerInv

(* Every step keeps it.  Only the query and the save move addresses; the     *)
(* other steps change what the parts of the invariant speak of trivially.    *)
LEMMA StepIInv == IInv /\ [Next]_vars => IInv'
  <1>. SUFFICES ASSUME IInv, [Next]_vars PROVE IInv'
    OBVIOUS
  <1>0. TypeOK /\ TypeOK'
    BY TypeStep DEF IInv
  <1>. DEFINE Rest == /\ AddressInv /\ HealthyInv /\ SeenInv /\ FirstAnswerInv
                      /\ NeverHealthyNeverResolved /\ FailoverNeverMixes
  <1>a. Rest
    BY DEF IInv
  <1>. USE DEF AddressInv, HealthyInv, NeverHealthyNeverResolved, FailoverNeverMixes
  <1>1. ASSUME NEW c \in Cluster, ReadServiceHealth(c) PROVE Rest'
    <2>1. AddressInv' /\ HealthyInv' /\ NeverHealthyNeverResolved' /\ FailoverNeverMixes'
      BY <1>0, <1>1, <1>a DEF ReadServiceHealth, env, TypeOK
    <2>2. /\ pc[c] = "idle" /\ pc'[c] = "ips"
          /\ \A x \in Cluster \ {c} : pc'[x] = pc[x] /\ seen'[x] = seen[x]
          /\ seen'[c] = [d \in Cluster |-> {endpoint[d].local}]
          /\ UNCHANGED <<endpoint, pending, prefixed, externalTargets>>
      BY <1>0, <1>1 DEF ReadServiceHealth, TypeOK
    <2>3. SeenInv'
      BY <1>0, <1>a, <2>2, SeenStep
    <2>4. FirstAnswerInv'
      BY <1>a, <2>2 DEF FirstAnswerInv
    <2>. QED
      BY <2>1, <2>3, <2>4
  <1>2. ASSUME NEW c \in Cluster, HealthError(c) PROVE Rest'
    BY <1>2, <1>a DEF HealthError, vars, env, locals, SeenInv, FirstAnswerInv
  <1>3. ASSUME NEW c \in Cluster, GslbIngressExposedIPs(c) PROVE Rest'
    <2>1. AddressInv' /\ HealthyInv' /\ NeverHealthyNeverResolved' /\ FailoverNeverMixes'
      BY <1>0, <1>3, <1>a DEF GslbIngressExposedIPs, env, TypeOK
    <2>2. /\ pc[c] = "ips" /\ pc'[c] = "query" /\ pending'[c] = Cluster \ {c}
          /\ \A x \in Cluster \ {c} : pc'[x] = pc[x] /\ pending'[x] = pending[x]
          /\ UNCHANGED <<endpoint, prefixed, externalTargets, seen>>
      BY <1>0, <1>3 DEF GslbIngressExposedIPs, TypeOK
    <2>3. SeenInv'
      BY <1>0, <1>a, <2>2, SeenStep
    <2>4. FirstAnswerInv'
      BY <1>a, <2>2 DEF FirstAnswerInv
    <2>. QED
      BY <2>1, <2>3, <2>4
  <1>4. ASSUME NEW c \in Cluster, DigError(c) \/ Abort(c) PROVE Rest'
    <2>1. /\ Return(c)
          /\ seen' = [seen EXCEPT ![c] = [d \in Cluster |-> {}]]
          /\ UNCHANGED <<strategyType, svc, lb, endpoint, wasHealthy>>
      BY <1>4 DEF DigError, Abort, env
    <2>2. AddressInv' /\ HealthyInv' /\ NeverHealthyNeverResolved' /\ FailoverNeverMixes'
      BY <1>0, <1>a, <2>1 DEF Return, TypeOK
    <2>3. /\ pc'[c] = "idle" /\ seen'[c] = [d \in Cluster |-> {}]
          /\ \A x \in Cluster \ {c} : pc'[x] = pc[x] /\ seen'[x] = seen[x]
      BY <1>0, <2>1 DEF Return, TypeOK
    <2>4. SeenInv'
      BY <1>0, <1>a, <2>1, <2>3, SeenStep
    <2>5. FirstAnswerInv'
      BY <1>0, <1>a, <2>1, <2>3, ReturnFirstAnswer
    <2>. QED
      BY <2>2, <2>4, <2>5
  <1>5. ASSUME NEW c \in Cluster, NEW d \in Cluster, GetExternalTargets(c, d)
        PROVE  Rest'
    <2>1. /\ externalTargets' = [externalTargets EXCEPT
                                    ![c] = @ \union localtargetsAnswer(c, d)]
          /\ prefixed' = [prefixed EXCEPT ![c] = TRUE]
          /\ pc[c] = "query" /\ d \in pending[c]
          /\ pending' = [pending EXCEPT ![c] = @ \ {d}]
          /\ UNCHANGED <<strategyType, svc, lb, endpoint, pc, health, localTargets,
                         wasHealthy, seen>>
      BY <1>5 DEF GetExternalTargets, env
    <2>2. /\ \A a \in localtargetsAnswer(c, d) : a \in Addr /\ Owner[a] = d
          /\ prefixed[c] => localtargetsAnswer(c, d) = {}
          /\ ~prefixed[c] => localtargetsAnswer(c, d) = endpoint[d].local
      BY <1>a, Answered DEF AddressInv
    <2>3. AddressInv' /\ SeenInv' /\ NeverHealthyNeverResolved' /\ FailoverNeverMixes'
      BY <1>a, <2>1 DEF SeenInv
    <2>4. \A x \in Cluster : externalTargets'[x] = externalTargets[x]
                             \/ (/\ x = c /\ ~prefixed[c]
                                 /\ externalTargets'[c] = endpoint[d].local)
      BY <1>0, <1>a, <2>1, <2>2 DEF TypeOK, FirstAnswerInv
    <2>5. HealthyInv'
      <3>1. ~prefixed[c] => \A a \in endpoint[d].local : Owner[a] \in wasHealthy
        BY <1>a, <2>2
      <3>2. \A x \in Cluster : \A a \in externalTargets'[x] : Owner[a] \in wasHealthy
        BY <1>a, <2>4, <3>1
      <3>. QED
        BY <1>a, <2>1, <3>2
    <2>6. FirstAnswerInv'
      <3>1. d \in Cluster \ {c} /\ endpoint[d].local \in seen[c][d]
        BY <1>a, <2>1 DEF FirstAnswerInv, SeenInv
      <3>2. /\ prefixed'[c] /\ c \notin pending'[c]
            /\ \A x \in Cluster \ {c} : pending'[x] = pending[x] /\ prefixed'[x] = prefixed[x]
        BY <1>0, <1>a, <2>1 DEF TypeOK, FirstAnswerInv
      <3>3. \A x \in Cluster : externalTargets'[x] # {} =>
               \E y \in Cluster \ {x} : externalTargets'[x] \in seen[x][y]
        BY <1>a, <2>4, <3>1 DEF FirstAnswerInv
      <3>4. \A x \in Cluster : /\ x \notin pending'[x]
                               /\ ~prefixed'[x] => externalTargets'[x] = {}
                               /\ pc'[x] # "query" => externalTargets'[x] = {}
        BY <1>a, <2>1, <2>4, <3>2 DEF FirstAnswerInv
      <3>. QED
        BY <2>1, <3>3, <3>4 DEF FirstAnswerInv
    <2>. QED
      BY <2>3, <2>5, <2>6
  <1>6. ASSUME NEW c \in Cluster, NEW d \in Cluster, QueryError(c, d) PROVE Rest'
    <2>1. AddressInv' /\ HealthyInv' /\ NeverHealthyNeverResolved' /\ FailoverNeverMixes'
          /\ SeenInv'
      BY <1>6, <1>a DEF QueryError, env, SeenInv
    <2>2. \A x \in Cluster : pending'[x] \subseteq pending[x]
      BY <1>0, <1>6 DEF QueryError, TypeOK
    <2>3. FirstAnswerInv'
      BY <1>6, <1>a, <2>2 DEF QueryError, FirstAnswerInv
    <2>. QED
      BY <2>1, <2>3
  <1>7. ASSUME NEW c \in Cluster, SaveDNSEndpoint(c) PROVE Rest'
    <2>. DEFINE e == gslbDNSEndpoint(c, health[c], localTargets[c], externalTargets[c])
    <2>1. /\ endpoint' = [endpoint EXCEPT ![c] = e]
          /\ seen' = Shown(c, e.local)
          /\ pc' = [pc EXCEPT ![c] = "idle"]
          /\ health' = [health EXCEPT ![c] = "NotFound"]
          /\ localTargets' = [localTargets EXCEPT ![c] = {}]
          /\ pending' = [pending EXCEPT ![c] = {}]
          /\ prefixed' = [prefixed EXCEPT ![c] = FALSE]
          /\ externalTargets' = [externalTargets EXCEPT ![c] = {}]
          /\ UNCHANGED <<strategyType, svc, lb, wasHealthy>>
      BY <1>7 DEF SaveDNSEndpoint, Return, env
    <2>2. e.local # {} => health[c] = "Healthy" /\ e.local = localTargets[c]
      BY LocalTargets
    <2>3. \A a \in e.host : \/ a \in externalTargets[c]
                            \/ health[c] = "Healthy" /\ a \in e.local
      BY FinalTargets
    <2>4. strategyType = "failover" =>
            e.host = externalTargets[c] \/ e.host \subseteq localTargets[c]
      BY FailoverTargets
    <2>e. e.local \in SUBSET Addr
      BY <1>0, EndpointType DEF TypeOK, DNSEndpoint
    <2>. HIDE DEF e
    <2>s. /\ \A d \in Cluster : seen'[c][d] = {}
          /\ \A x, d \in Cluster : x # c =>
                 /\ seen'[x][d] = {} <=> seen[x][d] = {}
                 /\ seen[x][d] \subseteq seen'[x][d]
                 /\ \A A \in seen'[x][d] : A \in seen[x][d] \/ (d = c /\ A = e.local)
                 /\ seen[x][c] # {} => e.local \in seen'[x][c]
      <3>1. seen \in [Cluster -> [Cluster -> SUBSET SUBSET Addr]]
        BY <1>0 DEF TypeOK
      <3>2. /\ \A d \in Cluster : Shown(c, e.local)[c][d] = {}
            /\ \A x, d \in Cluster : x # c =>
                 /\ Shown(c, e.local)[x][d] = {} <=> seen[x][d] = {}
                 /\ seen[x][d] \subseteq Shown(c, e.local)[x][d]
                 /\ \A A \in Shown(c, e.local)[x][d] : A \in seen[x][d] \/ (d = c /\ A = e.local)
                 /\ seen[x][c] # {} => e.local \in Shown(c, e.local)[x][c]
        BY <2>e, <3>1, ShownWindows, Zenon
      <3>. QED
        BY <2>1, <3>2
    <2>5. AddressInv'
      BY <1>0, <1>a, <2>1, <2>2 DEF TypeOK
    <2>6. HealthyInv'
      BY <1>0, <1>a, <2>1, <2>2 DEF TypeOK
    <2>7. SeenInv'
      <3>1. /\ pc'[c] = "idle"
            /\ \A x \in Cluster \ {c} : pc'[x] = pc[x] /\ endpoint'[x] = endpoint[x]
            /\ endpoint'[c] = e
        BY <1>0, <2>1 DEF TypeOK
      <3>2. \A x, d \in Cluster : pc'[x] = "idle" <=> seen'[x][d] = {}
        BY <1>a, <2>s, <3>1 DEF SeenInv
      <3>3. \A x, d \in Cluster : pc'[x] # "idle" => endpoint'[d].local \in seen'[x][d]
        BY <1>a, <2>s, <3>1 DEF SeenInv
      <3>4. \A x, d \in Cluster : \A A \in seen'[x][d] : A \subseteq Addresses(d)
        BY <1>a, <2>2, <2>s DEF SeenInv
      <3>. QED
        BY <3>2, <3>3, <3>4 DEF SeenInv
    <2>8. FirstAnswerInv'
      BY <1>0, <1>7, <1>a, <2>s, ReturnFirstAnswer DEF SaveDNSEndpoint
    <2>9. NeverHealthyNeverResolved'
      BY <1>0, <1>a, <2>1, <2>2, <2>3 DEF TypeOK, Addresses
    <2>10. FailoverNeverMixes'
      <3>1. \A x, y \in externalTargets[c] : Owner[x] = Owner[y]
        BY <1>a DEF Addresses, FirstAnswerInv, SeenInv
      <3>. QED
        BY <1>0, <1>a, <2>1, <2>4, <3>1 DEF TypeOK, Addresses
    <2>. QED
      BY <2>5, <2>6, <2>7, <2>8, <2>9, <2>10
  <1>8. UNCHANGED <<endpoint, pc, locals, seen>> => SeenInv' /\ FirstAnswerInv'
    BY <1>a DEF SeenInv, FirstAnswerInv, locals
  <1>9. ASSUME NEW c \in Cluster, ServiceChanges(c) PROVE Rest'
    <2>1. AddressInv' /\ HealthyInv' /\ NeverHealthyNeverResolved' /\ FailoverNeverMixes'
      BY <1>0, <1>9, <1>a DEF ServiceChanges, locals, TypeOK
    <2>. QED
      BY <1>8, <1>9, <2>1 DEF ServiceChanges
  <1>10. ASSUME NEW c \in Cluster, AddressesChange(c) PROVE Rest'
    <2>1. AddressInv' /\ HealthyInv' /\ NeverHealthyNeverResolved' /\ FailoverNeverMixes'
      BY <1>0, <1>10, <1>a DEF AddressesChange, locals, TypeOK
    <2>. QED
      BY <1>8, <1>10, <2>1 DEF AddressesChange
  <1>11. ASSUME NEW n \in NameServer, NameServerChanges(n) PROVE Rest'
    BY <1>8, <1>11, <1>a DEF NameServerChanges, locals
  <1>12. ASSUME UNCHANGED vars PROVE Rest'
    BY <1>8, <1>12, <1>a DEF vars, env, locals
  <1>13. Rest'
    BY <1>1, <1>2, <1>3, <1>4, <1>5, <1>6, <1>7, <1>9, <1>10, <1>11, <1>12
       DEF Next, Reconcile
  <1>. QED
    BY <1>0, <1>13 DEF IInv

-----------------------------------------------------------------------------
(* The invariants of GslbDNS *)

(* The inductive invariant holds throughout. *)
THEOREM Invariance == Spec => []IInv
  BY InitIInv, StepIInv, PTL DEF Spec

(* No name server ever answers with an address of a cluster whose workload    *)
(* was never healthy (dnsupdate.go:58), however the reconciles interleave.    *)
THEOREM NeverHealthyNeverResolvedHolds == Spec => []NeverHealthyNeverResolved
  <1>1. IInv => NeverHealthyNeverResolved
    BY DEF IInv
  <1>. QED
    BY <1>1, Invariance, PTL

(* Under failover no answer mixes two clusters (dnsupdate.go:79-97).          *)
THEOREM FailoverNeverMixesHolds == Spec => []FailoverNeverMixes
  <1>1. IInv => FailoverNeverMixes
    BY DEF IInv
  <1>. QED
    BY <1>1, Invariance, PTL

-----------------------------------------------------------------------------
(* The abstract specification *)

(* Of each cluster an answer holds nothing or one whole record: of the others *)
(* one they have had since the reconcile began, of the own the new one.       *)
LEMMA WholeRecords ==
    ASSUME IInv, NEW c \in Cluster, pc[c] = "query", NEW e,
           e = gslbDNSEndpoint(c, health[c], localTargets[c], externalTargets[c])
    PROVE  /\ \A d \in Cluster \ {c} : Abstract!Part(e.host, d) \in {{}} \union seen[c][d]
           /\ Abstract!Part(e.host, c) \in {{}, e.local}
  <1>1. localTargets[c] \subseteq Addresses(c)
    BY DEF IInv, AddressInv
  <1>2. PICK own \in {{}, e.local}, external \in {{}, externalTargets[c]} :
            e.host = own \union external
    BY DEF gslbDNSEndpoint, finalTargets
  <1>3. own \subseteq Addresses(c) /\ e.local \subseteq Addresses(c)
    BY <1>1, <1>2 DEF gslbDNSEndpoint
  <1>4. CASE external = {}
    BY <1>2, <1>3, <1>4 DEF Abstract!Part, Addresses
  <1>5. CASE external # {}
    <2>1. PICK d \in Cluster \ {c} : external \in seen[c][d] /\ external \subseteq Addresses(d)
      BY <1>2, <1>5 DEF IInv, FirstAnswerInv, SeenInv
    <2>2. \A x \in Cluster : x # c /\ x # d => Abstract!Part(e.host, x) = {}
      BY <1>2, <1>3, <2>1 DEF Abstract!Part, Addresses
    <2>3. Abstract!Part(e.host, d) = external
      BY <1>2, <1>3, <2>1 DEF Abstract!Part, Addresses
    <2>4. Abstract!Part(e.host, c) = own
      BY <1>2, <1>3, <2>1 DEF Abstract!Part, Addresses
    <2>. QED
      BY <1>2, <2>1, <2>2, <2>3, <2>4
  <1>. QED
    BY <1>4, <1>5

(* The initial states are initial states of GslbAnswer. *)
LEMMA AbstractInit == Init => Abstract!Init
  BY StrategyAssumption DEF Init, Abstract!Init

(* Every step is a step of GslbAnswer or leaves its variables alone. *)
LEMMA AbstractStep == IInv /\ IInv' /\ [Next]_vars => [Abstract!Next]_(Abstract!vars)
  <1>. SUFFICES ASSUME IInv, IInv', [Next]_vars PROVE [Abstract!Next]_(Abstract!vars)
    OBVIOUS
  <1>0. TypeOK /\ TypeOK'
    BY DEF IInv
  <1>u. ASSUME UNCHANGED <<strategyType, wasHealthy, endpoint, seen>>
        PROVE  UNCHANGED Abstract!vars
    BY <1>u DEF Abstract!vars
  <1>1. ASSUME NEW c \in Cluster, ReadServiceHealth(c) PROVE Abstract!Next
    <2>1. Abstract!Begin(c)
      BY <1>1 DEF ReadServiceHealth, Abstract!Begin, env
    <2>. QED
      BY <2>1 DEF Abstract!Next
  <1>2. ASSUME NEW c \in Cluster, DigError(c) \/ Abort(c) PROVE Abstract!Next
    <2>1. Abstract!GiveUp(c)
      BY <1>2 DEF DigError, Abort, Abstract!GiveUp, env
    <2>. QED
      BY <2>1 DEF Abstract!Next
  <1>3. ASSUME NEW c \in Cluster, SaveDNSEndpoint(c) PROVE Abstract!Next
    <2>. DEFINE e == gslbDNSEndpoint(c, health[c], localTargets[c], externalTargets[c])
    <2>1. /\ pc[c] = "query"
          /\ endpoint' = [endpoint EXCEPT ![c] = e]
          /\ seen' = Shown(c, e.local)
          /\ UNCHANGED <<strategyType, wasHealthy>>
      BY <1>3 DEF SaveDNSEndpoint, env
    <2>2. e.local \in SUBSET Addr /\ e.host \in SUBSET Addr
      BY <1>0, EndpointType DEF TypeOK, DNSEndpoint
    <2>3. /\ e.local \in SUBSET {x \in Addr : Owner[x] = c}
          /\ e.local # {} => c \in wasHealthy
      BY <2>2, LocalTargets DEF IInv, AddressInv, HealthyInv, Addresses
    <2>4. /\ \A d \in Cluster \ {c} : Abstract!Part(e.host, d) \in {{}} \union seen[c][d]
          /\ Abstract!Part(e.host, c) \in {{}, e.local}
      BY <2>1, WholeRecords
    <2>. HIDE DEF e
    <2>5. endpoint'[c] = e
      BY <1>0, <2>1 DEF TypeOK
    <2>6. strategyType = "failover" => \A x, y \in e.host : Owner[x] = Owner[y]
      BY <2>1, <2>5 DEF IInv, FailoverNeverMixes
    <2>7. /\ [x \in Cluster |-> endpoint'[x].local]
                = [[x \in Cluster |-> endpoint[x].local] EXCEPT ![c] = e.local]
          /\ [x \in Cluster |-> endpoint'[x].host]
                = [[x \in Cluster |-> endpoint[x].host] EXCEPT ![c] = e.host]
      BY <1>0, <2>1 DEF TypeOK
    <2>8. seen' = Abstract!Shown(c, e.local)
      BY <2>1 DEF Shown, Abstract!Shown
    <2>9. Abstract!Publish(c)
      BY <2>1, <2>2, <2>3, <2>4, <2>5, <2>6, <2>7, <2>8 DEF Abstract!Publish
    <2>. QED
      BY <2>9 DEF Abstract!Next
  <1>4. ASSUME NEW c \in Cluster, ServiceChanges(c) PROVE [Abstract!Next]_(Abstract!vars)
    <2>1. Abstract!BecomesHealthy(c) \/ UNCHANGED Abstract!vars
      BY <1>4 DEF ServiceChanges, Abstract!BecomesHealthy, Abstract!vars
    <2>. QED
      BY <2>1 DEF Abstract!Next
  <1>5. ASSUME NEW c \in Cluster, NEW d \in Cluster,
               HealthError(c) \/ GslbIngressExposedIPs(c) \/ GetExternalTargets(c, d)
               \/ QueryError(c, d) \/ AddressesChange(c)
        PROVE  UNCHANGED Abstract!vars
    BY <1>5, <1>u DEF HealthError, GslbIngressExposedIPs, GetExternalTargets, QueryError,
                      AddressesChange, vars, env
  <1>6. ASSUME NEW n \in NameServer, NameServerChanges(n) PROVE UNCHANGED Abstract!vars
    BY <1>6, <1>u DEF NameServerChanges
  <1>7. CASE UNCHANGED vars
    BY <1>7, <1>u DEF vars, env
  <1>. QED
    BY <1>1, <1>2, <1>3, <1>4, <1>5, <1>6, <1>7 DEF Next, Reconcile

(* The reconciles of any number of clusters, interleaved in any way, keep the *)
(* promise of GslbAnswer: answers are made of whole records, each in force at *)
(* some time while the answer was worked out (dnsupdate.go:37-136).           *)
THEOREM GslbDNSImplementsAnswer == Spec => ImplementsAnswer
  <1>. QED
    BY AbstractInit, AbstractStep, Invariance, PTL DEF Spec, ImplementsAnswer, Abstract!Spec

(* A reconcile never saves an address of a cluster that has advertised        *)
(* nothing since before the reconcile began (dnsupdate.go:71-93).             *)
THEOREM WithdrawnStaysOutHolds == Spec => WithdrawnStaysOut
  <1>1. ASSUME IInv, NEW c \in Cluster, SaveDNSEndpoint(c),
               NEW a \in endpoint'[c].host, Owner[a] # c
        PROVE  seen[c][Owner[a]] # {{}}
    <2>. DEFINE e == gslbDNSEndpoint(c, health[c], localTargets[c], externalTargets[c])
    <2>1. a \in e.host /\ pc[c] = "query" /\ e.host \in SUBSET Addr
      BY <1>1, EndpointType DEF SaveDNSEndpoint, IInv, TypeOK, DNSEndpoint
    <2>2. Owner[a] \in Cluster \ {c}
      BY <1>1, <2>1, OwnerAssumption
    <2>3. Abstract!Part(e.host, Owner[a]) \in {{}} \union seen[c][Owner[a]]
      BY <1>1, <2>1, <2>2, WholeRecords
    <2>4. a \in Abstract!Part(e.host, Owner[a])
      BY <2>1 DEF Abstract!Part
    <2>. QED
      BY <2>3, <2>4
  <1>2. IInv => [\A c \in Cluster : SaveDNSEndpoint(c) =>
                    \A a \in endpoint'[c].host : Owner[a] # c => seen[c][Owner[a]] # {{}}]_vars
    BY <1>1
  <1>. QED
    BY <1>2, Invariance, PTL DEF WithdrawnStaysOut
=============================================================================
