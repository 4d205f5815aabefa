----------------------------- MODULE GslbAnswer -----------------------------
(***************************************************************************)
(* What the operators promise together, without how they find each other.  *)
(*                                                                         *)
(* Every cluster advertises addresses of its own, and answers queries for  *)
(* the host with addresses of its own and of others.  It works out a new   *)
(* answer from time to time; while it does, the others go on advertising.  *)
(* The answer it then publishes holds, of every other cluster, nothing or  *)
(* one of the records that cluster advertised in the meantime, whole: each *)
(* advertised record behaves like a regular register.                      *)
(***************************************************************************)

CONSTANTS Cluster, Addr, Owner

VARIABLES
    strategyType,
    everHealthy,  \* clusters whose workload was healthy at some time
    advert,       \* advert[c]: the addresses c advertises for itself
    answer,       \* answer[c]: the addresses c answers with
    window        \* window[c][d]: what d advertised since c began to work out
                  \* its next answer; nothing if c has not begun

vars == <<strategyType, everHealthy, advert, answer, window>>

Part(A, d) == {x \in A : Owner[x] = d}

Init ==
    /\ strategyType \in {"roundRobin", "geoip", "failover"}
    /\ everHealthy \in SUBSET Cluster
    /\ advert = [c \in Cluster |-> {}]
    /\ answer = [c \in Cluster |-> {}]
    /\ window = [c \in Cluster |-> [d \in Cluster |-> {}]]

BecomesHealthy(c) ==
    /\ everHealthy' = everHealthy \union {c}
    /\ UNCHANGED <<strategyType, advert, answer, window>>

Begin(c) ==
    /\ window' = [window EXCEPT ![c] = [d \in Cluster |-> {advert[d]}]]
    /\ UNCHANGED <<strategyType, everHealthy, advert, answer>>

GiveUp(c) ==
    /\ window' = [window EXCEPT ![c] = [d \in Cluster |-> {}]]
    /\ UNCHANGED <<strategyType, everHealthy, advert, answer>>

(* The windows after c, whose own is closed, has begun to advertise mine. *)
Shown(c, mine) ==
    [x \in Cluster |-> [d \in Cluster |->
        IF x = c THEN {}
        ELSE IF d = c /\ window[x][d] # {} THEN window[x][d] \union {mine}
        ELSE window[x][d]]]

Publish(c) ==
    /\ UNCHANGED <<strategyType, everHealthy>>
    /\ \E mine \in SUBSET {x \in Addr : Owner[x] = c} :
          /\ advert' = [advert EXCEPT ![c] = mine]
          /\ mine # {} => c \in everHealthy
          /\ window' = Shown(c, mine)
    /\ \E all \in SUBSET Addr :
          /\ answer' = [answer EXCEPT ![c] = all]
          /\ \A d \in Cluster \ {c} : Part(all, d) \in {{}} \union window[c][d]
          /\ Part(all, c) \in {{}, advert'[c]}
          /\ strategyType = "failover" => \A x, y \in all : Owner[x] = Owner[y]

Next == \E c \in Cluster : BecomesHealthy(c) \/ Begin(c) \/ GiveUp(c) \/ Publish(c)

Spec == Init /\ [][Next]_vars
=============================================================================
