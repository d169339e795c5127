--------------------------- MODULE SentinelCluster ---------------------------
(***************************************************************************)
(* The sentinels: they elect a leader by the Bully algorithm               *)
(* (sentinel/bully), watch heartbeats, and the leader restarts containers  *)
(* and other sentinels that fell silent (sentinel/monitor).                *)
(*                                                                         *)
(* Abstractions.                                                           *)
(*  - Time is two facts per sentinel: whose last heartbeat is younger than *)
(*    the time-out (fresh), and whom it restarted less than a cooldown ago *)
(*    (cooling).  A time-out, an expiry or a grace period that ends before *)
(*    what it waits for arrived, although that is on its way or alive, is  *)
(*    a fault, like a crash, and faults are bounded.                       *)
(*  - A control message has a TCP connection and a goroutine of its own at *)
(*    the receiver, so messages overtake each other.  It is lost when the  *)
(*    receiver is down or goes down before handling it.                    *)
(*  - The same bag holds what else waits for a goroutine: a call of        *)
(*    triggerElection, a docker restart.                                   *)
(*  - Somebody is left to restart the others: a crash never takes the last *)
(*    sentinel (the chaos monkey kills one at a time).                     *)
(*                                                                         *)
(* An operator Mut... is the next definition with a bug put in; no other   *)
(* definition uses it.                                                     *)
(***************************************************************************)
EXTENDS Integers, FiniteSets, FiniteSetsExt, Bags, BagsExt

CONSTANTS
  N,          \* number of sentinels
  Container,  \* EXPECTED_CONTAINERS
  MaxFaults   \* bound: number of crashes, failed restarts and early time-outs

Sentinel == 0 .. N - 1
Node == Sentinel \cup Container

ASSUME ConstantsAssumption ==
  /\ N \in 2 .. 255
  /\ IsFiniteSet(Container) /\ Container \cap Sentinel = {}
  /\ MaxFaults \in Nat

NoLeader == 255     \* noLeader, an ID no peer has

VARIABLES
  up,      \* nodes that run
  mem,     \* the BullyCoordinator and the NodeMonitor of each sentinel
  net,     \* bag of messages and of goroutines that have not run yet
  faults   \* counter, for the bound

vars == <<up, mem, net, faults>>

-----------------------------------------------------------------------------
Msg(type, from, to) == [type |-> type, from |-> from, to |-> to]
InNet(type, from, to) == BagIn(Msg(type, from, to), net)

(* phase and todo: where the goroutine that holds electMu is in runElection, *)
(* and the peers it still has to send to; "idle" when electMu is free.       *)
(* A node not heard of yet is fresh during the grace period after the start. *)
Booted(s) == [state |-> "follower", leader |-> NoLeader, phase |-> "idle", todo |-> {},
              ok |-> FALSE, coord |-> FALSE,   \* okReceived, coordReceived
              fresh |-> Node \ {s}, cooling |-> {}]

(* Mutation: one too many. *)
MutPeersWithHigherID(s) == (s + 1) .. N

PeersWithHigherID(s) == {p \in Sentinel : p > s}
Peers(s) == Sentinel \ {s}

(* A call of triggerElection at s: by the start-up or monitorLeader (from    *)
(* itself), or by the handler of a message of another sentinel.              *)
Trigger(from, s) == Msg("trigger", from, s)

(* ControlTransport.Send *)
Sent(b, m) == IF m.to \in up THEN BagAdd(b, m) ELSE b

(* What is left when n goes down. *)
Without(n) == [m \in {k \in DOMAIN net : k.to # n \/ k.type = "restart"} |-> net[m]]

(* docker compose is about to start every node. *)
Init ==
  /\ up = {}
  /\ mem = [s \in Sentinel |-> Booted(s)]
  /\ net = SetToBag({Msg("restart", n, n) : n \in Node})
  /\ faults = 0

(* A step that needs bad luck unless cond holds. *)
Unless(cond) == \/ cond /\ faults' = faults
                \/ ~cond /\ faults < MaxFaults /\ faults' = faults + 1

-----------------------------------------------------------------------------
(* runElection *)

(* triggerElection: TryLock, and setState(Candidate) if it succeeds. *)
TriggerElection(m) ==
  /\ BagIn(m, net) /\ m.type = "trigger"
  /\ net' = BagRemove(net, m)
  /\ mem' = IF mem[m.to].phase = "idle"
              THEN [mem EXCEPT ![m.to].phase = "candidate", ![m.to].state = "candidate"]
              ELSE mem
  /\ UNCHANGED <<up, faults>>

BecomeLeader(s) ==
  mem' = [mem EXCEPT ![s].state = "leader", ![s].leader = s,
                     ![s].phase = "announce", ![s].todo = Peers(s)]

StartRound(s) ==
  /\ mem[s].phase = "candidate"
  /\ IF PeersWithHigherID(s) = {}
       THEN BecomeLeader(s)
       ELSE mem' = [mem EXCEPT ![s].ok = FALSE, ![s].coord = FALSE, ![s].phase = "ask",
                               ![s].todo = PeersWithHigherID(s)]
  /\ UNCHANGED <<up, net, faults>>

(* One Send to the peer with the lowest ID that is left. *)
SendNext(s) ==
  LET p == Min(mem[s].todo)
      rest == mem[s].todo \ {p}
  IN /\ mem[s].phase \in {"ask", "announce"}
     /\ net' = Sent(net, Msg(IF mem[s].phase = "ask" THEN "election" ELSE "coord", s, p))
     /\ mem' = [mem EXCEPT ![s].todo = rest,
                           ![s].phase = IF rest # {} THEN @
                                        ELSE IF @ = "ask" THEN "awaitOK" ELSE "idle"]
     /\ UNCHANGED <<up, faults>>

OKReceived(s) ==
  /\ mem[s].phase = "awaitOK" /\ mem[s].ok
  /\ mem' = [mem EXCEPT ![s].ok = FALSE, ![s].phase = "awaitCoord"]
  /\ UNCHANGED <<up, net, faults>>

(* An OK is there or on its way, or the message that asks for it is. *)
OKComing(s) == \/ mem[s].ok
               \/ \E p \in Sentinel : InNet("election", s, p) \/ InNet("ok", p, s)

OKTimeout(s) ==
  /\ mem[s].phase = "awaitOK"
  /\ BecomeLeader(s)
  /\ Unless(~OKComing(s))
  /\ UNCHANGED <<up, net>>

CoordReceived(s) ==
  /\ mem[s].phase = "awaitCoord" /\ mem[s].coord
  /\ mem' = [mem EXCEPT ![s].coord = FALSE, ![s].phase = "idle"]
  /\ UNCHANGED <<up, net, faults>>

(* A Coordinator message is there or on its way, or a higher sentinel is     *)
(* busy with an election.                                                    *)
CoordComing(s) ==
  \/ mem[s].coord
  \/ \E p \in Sentinel : InNet("coord", p, s) \/ InNet("election", s, p)
  \/ \E h \in PeersWithHigherID(s) \cap up :
       mem[h].phase # "idle" \/ \E p \in Sentinel : BagIn(Trigger(p, h), net)

CoordTimeout(s) ==
  /\ mem[s].phase = "awaitCoord"
  /\ mem' = [mem EXCEPT ![s].phase = "candidate", ![s].state = "candidate"]
  /\ Unless(~CoordComing(s))
  /\ UNCHANGED <<up, net>>

-----------------------------------------------------------------------------
(* Handle *)

HandleElection(m) ==
  /\ BagIn(m, net) /\ m.type = "election"
  /\ net' = IF m.from < m.to
              THEN BagAdd(Sent(BagRemove(net, m), Msg("ok", m.to, m.from)), Trigger(m.from, m.to))
              ELSE BagRemove(net, m)
  /\ UNCHANGED <<up, mem, faults>>

HandleOK(m) ==
  /\ BagIn(m, net) /\ m.type = "ok"
  /\ net' = BagRemove(net, m)
  /\ mem' = [mem EXCEPT ![m.to].ok = TRUE]
  /\ UNCHANGED <<up, faults>>

(* Mutation: a Coordinator message of a lower sentinel is obeyed. *)
MutHandleCoord(m) ==
  /\ BagIn(m, net) /\ m.type = "coord"
  /\ net' = BagRemove(net, m)
  /\ mem' = [mem EXCEPT ![m.to].fresh = @ \cup {m.from}, ![m.to].leader = m.from,
                        ![m.to].state = "follower", ![m.to].coord = TRUE]
  /\ UNCHANGED <<up, faults>>

(* onCoord *)
HandleCoord(m) ==
  /\ BagIn(m, net) /\ m.type = "coord"
  /\ IF m.from < m.to
       THEN net' = BagAdd(BagRemove(net, m), Trigger(m.from, m.to)) /\ UNCHANGED mem
       ELSE /\ net' = BagRemove(net, m)
            /\ mem' = [mem EXCEPT ![m.to].fresh = @ \cup {m.from}, ![m.to].leader = m.from,
                                  ![m.to].state = "follower", ![m.to].coord = TRUE]
  /\ UNCHANGED <<up, faults>>

-----------------------------------------------------------------------------
(* Heartbeats and monitorLeader *)

Heartbeat(s, n) ==
  /\ s \in up /\ n \in up \ {s} /\ n \notin mem[s].fresh
  /\ mem' = [mem EXCEPT ![s].fresh = @ \cup {n}]
  /\ UNCHANGED <<up, net, faults>>

(* More than the time-out has passed since the last heartbeat, or the grace  *)
(* period without one, which the start of all containers does not outlast.   *)
Starting(n) == InNet("restart", n, n)

Expire(s, n) ==
  /\ s \in up /\ n \in mem[s].fresh
  /\ mem' = [mem EXCEPT ![s].fresh = @ \ {n}]
  /\ Unless(n \notin up /\ ~Starting(n))
  /\ UNCHANGED <<up, net>>

(* Mutation: the age of the last heartbeat is not looked at. *)
MutSuspectAnyLeader(s) ==
  /\ s \in up
  /\ mem[s].state # "leader" /\ mem[s].leader # NoLeader
  /\ ~BagIn(Trigger(s, s), net)
  /\ net' = BagAdd(net, Trigger(s, s))
  /\ Unless(mem[s].phase = "idle")
  /\ UNCHANGED <<up, mem>>

(* monitorLeader up to its call of triggerElection.  Between the two an      *)
(* election that is running can only end by bad luck.                        *)
SuspectLeader(s) ==
  /\ s \in up
  /\ mem[s].state # "leader" /\ mem[s].leader # NoLeader
  /\ mem[s].leader \notin mem[s].fresh
  /\ ~BagIn(Trigger(s, s), net)
  /\ net' = BagAdd(net, Trigger(s, s))
  /\ Unless(mem[s].phase = "idle")
  /\ UNCHANGED <<up, mem>>

-----------------------------------------------------------------------------
(* NodeMonitor: checkContainers and checkSentinelPeers *)

Restarting(l, n) == InNet("restart", l, n)

(* The leader decides to restart n: it has not been heard of for too long,   *)
(* or not at all within the grace period, and was not restarted just now.    *)
DecideRestart(l, n) ==
  /\ l \in up /\ mem[l].state = "leader"
  /\ n # l /\ n \notin mem[l].fresh /\ n \notin mem[l].cooling
  /\ ~Restarting(l, n)
  /\ mem' = [mem EXCEPT ![l].cooling = @ \cup {n}]
  /\ net' = BagAdd(net, Msg("restart", l, n))
  /\ Unless(n \notin up)
  /\ UNCHANGED up

(* docker restart: n is started, and stopped before if it was running.  A    *)
(* sentinel calls triggerElection when the jitter has passed.                *)
Restarted(m) ==
  /\ BagIn(m, net) /\ m.type = "restart"
  /\ up' = up \cup {m.to}
  /\ IF m.to \in Sentinel
       THEN /\ mem' = [mem EXCEPT ![m.to] = Booted(m.to)]
            /\ net' = BagAdd(BagRemove(Without(m.to), m), Trigger(m.to, m.to))
       ELSE mem' = mem /\ net' = BagRemove(net, m)
  /\ UNCHANGED faults

RestartFails(m) ==
  /\ BagIn(m, net) /\ m.type = "restart" /\ m.from # m.to
  /\ net' = BagRemove(net, m)
  /\ Unless(FALSE)
  /\ UNCHANGED <<up, mem>>

(* Mutation: the time of the restart is forgotten only when n is heard of. *)
MutCoolDown(l, n) ==
  /\ l \in up /\ n \in mem[l].cooling \cap mem[l].fresh /\ ~Restarting(l, n)
  /\ mem' = [mem EXCEPT ![l].cooling = @ \ {n}]
  /\ UNCHANGED <<up, net, faults>>

(* The cooldown ends after the restart, which the loop waits for; it makes a *)
(* difference only once n is silent again.                                   *)
CoolDown(l, n) ==
  /\ l \in up /\ n \in mem[l].cooling \ mem[l].fresh /\ ~Restarting(l, n)
  /\ mem' = [mem EXCEPT ![l].cooling = @ \ {n}]
  /\ UNCHANGED <<up, net, faults>>

Crash(n) ==
  /\ n \in up /\ (up \cap Sentinel) \ {n} # {}
  /\ up' = up \ {n}
  /\ net' = Without(n)
  /\ mem' = [s \in Sentinel |-> IF s = n THEN Booted(n) ELSE mem[s]]
  /\ Unless(FALSE)

-----------------------------------------------------------------------------
Elect(s) == \/ StartRound(s) \/ SendNext(s)
            \/ OKReceived(s) \/ OKTimeout(s) \/ CoordReceived(s) \/ CoordTimeout(s)

Deliver(m) == \/ TriggerElection(m) \/ HandleElection(m) \/ HandleOK(m)
              \/ HandleCoord(m) \/ Restarted(m)

DeliverTo(n) == \E m \in DOMAIN net : m.to = n /\ Deliver(m)

Watch(s) == \E n \in Node : Heartbeat(s, n) \/ Expire(s, n)

Supervise(l) == \E n \in Node : DecideRestart(l, n) \/ CoolDown(l, n)

Next ==
  \/ \E s \in Sentinel : Elect(s) \/ SuspectLeader(s) \/ Watch(s) \/ Supervise(s)
  \/ \E n \in Node : DeliverTo(n) \/ Crash(n)
  \/ \E m \in DOMAIN net : RestartFails(m)

(* Goroutines run, connections deliver, tickers fire and time-outs end; no   *)
(* fault has to happen.                                                      *)
Fairness ==
  /\ \A s \in Sentinel : /\ WF_vars(Elect(s) /\ UNCHANGED faults)
                         /\ WF_vars(SuspectLeader(s) /\ UNCHANGED faults)
                         /\ WF_vars(Watch(s) /\ UNCHANGED faults)
                         /\ WF_vars(Supervise(s) /\ UNCHANGED faults)
  /\ \A n \in Node : WF_vars(DeliverTo(n))

Spec == Init /\ [][Next]_vars /\ Fairness
-----------------------------------------------------------------------------
(* Properties *)

Messages == [type : {"trigger", "election", "ok", "coord"}, from : Sentinel, to : Sentinel]
       \cup [type : {"restart"}, from : Node, to : Node]

(* Type invariant of the sentinels and of what is between them. *)
TypeOK ==
  /\ up \subseteq Node
  /\ mem \in [Sentinel -> [state : {"follower", "candidate", "leader"},
                           leader : Sentinel \cup {NoLeader},
                           phase : {"idle", "candidate", "ask", "awaitOK", "awaitCoord", "announce"},
                           todo : SUBSET Sentinel, ok : BOOLEAN, coord : BOOLEAN,
                           fresh : SUBSET Node, cooling : SUBSET Node]]
  /\ IsABag(net) /\ DOMAIN net \subseteq Messages
  /\ faults \in 0 .. MaxFaults

Top == N - 1

(* "la regla de oro es que el de mayor identificador debe ser el lider"      *)
(* (docs, section 8.2.3): when faults have ceased the highest sentinel leads *)
(* for good, and none of the others waits for one that is gone.              *)
HighestLeads == <>[](mem[Top].state = "leader" /\ \A s \in Sentinel : mem[s].leader \in up)

(* A node that is down is started again in the end, also when the leader     *)
(* fell with it, when a restart failed, or when an earlier leader is on it   *)
(* (checkContainers, checkSentinelPeers): whatever happened, there is a time *)
(* at which all nodes run.                                                   *)
DeadIsRevived == []<>(up = Node)

(* While all agree, hear each other and nothing is under way, only a fault   *)
(* can start another election: a leader that is alive is not contested       *)
(* (monitorLeader, bully_coordinator.go:156-164).                            *)
Agreed == \A s \in Sentinel : mem[s].leader = Top /\ (mem[s].state = "leader" <=> s = Top)
Settled ==
  /\ Node = up /\ Agreed
  /\ \A s \in Sentinel : mem[s].phase = "idle" /\ mem[s].fresh = Node \ {s}
  /\ \A m \in DOMAIN net : m.type = "ok"

AgreementIsStable == [][Settled /\ UNCHANGED faults => Settled']_vars

(* Bully is there to "elegir un unico coordinador dentro de un grupo pequeno *)
(* y conocido", and reliable messages are to keep "mas de un centinela       *)
(* creyendose lider simultaneamente" from happening (docs, section 8.2.3):   *)
(* in the end there is never more than one leader.                           *)
OneLeader == <>[](Cardinality({s \in Sentinel : mem[s].state = "leader"}) <= 1)
=============================================================================
