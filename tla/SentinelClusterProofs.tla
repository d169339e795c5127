------------------------ MODULE SentinelClusterProofs ------------------------
(***************************************************************************)
(* Theorems about SentinelCluster, for any number of sentinels and         *)
(* containers and any number of faults.                                    *)
(***************************************************************************)
EXTENDS SentinelCluster, TLAPS

Memory == [state : {"follower", "candidate", "leader"},
           leader : Sentinel \cup {NoLeader},
           phase : {"idle", "candidate", "ask", "awaitOK", "awaitCoord", "announce"},
           todo : SUBSET Sentinel, ok : BOOLEAN, coord : BOOLEAN,
           fresh : SUBSET Node, cooling : SUBSET Node]

(* A bag of messages. *)
MessageBag(b) == IsABag(b) /\ DOMAIN b \subseteq Messages

(* A sentinel that sends has somebody to send to. *)
Sending == \A s \in Sentinel : mem[s].phase \in {"ask", "announce"} => mem[s].todo # {}

IndInv ==
  /\ up \subseteq Node /\ mem \in [Sentinel -> Memory] /\ MessageBag(net) /\ faults \in 0 .. MaxFaults
  /\ Sending

LEMMA IndInvSuffices == IndInv => TypeOK
  BY DEF IndInv, TypeOK, Memory, MessageBag

LEMMA Constants == N \in Nat /\ N >= 2 /\ MaxFaults \in Nat
  BY ConstantsAssumption DEF ConstantsAssumption

-----------------------------------------------------------------------------
(* Bags and least elements. *)

(* For the fact that a set of numbers that is not empty has a least element. *)
Numbers == INSTANCE IntervalSetProofs WITH MaxID <- N

LEMMA MinIsElement ==
  ASSUME NEW T, T \subseteq Nat, T # {}
  PROVE  Min(T) \in T
  BY Numbers!LeastElement DEF Min

LEMMA AddMessage ==
  ASSUME NEW b, MessageBag(b), NEW m \in Messages
  PROVE  MessageBag(BagAdd(b, m))
  BY DEF MessageBag, BagAdd, IsABag

LEMMA RemoveMessage ==
  ASSUME NEW b, MessageBag(b), NEW m
  PROVE  MessageBag(BagRemove(b, m)) /\ DOMAIN BagRemove(b, m) \subseteq DOMAIN b
  BY DEF MessageBag, BagRemove, IsABag

LEMMA SendMessage ==
  ASSUME NEW b, MessageBag(b), NEW m \in Messages
  PROVE  MessageBag(Sent(b, m))
  BY AddMessage DEF Sent

LEMMA LoseMessages ==
  ASSUME MessageBag(net), NEW n
  PROVE  MessageBag(Without(n))
  BY DEF MessageBag, Without, IsABag

LEMMA MessageTypes ==
  /\ \A t \in {"trigger", "election", "ok", "coord"}, p, q \in Sentinel : Msg(t, p, q) \in Messages
  /\ \A p, q \in Node : Msg("restart", p, q) \in Messages
  /\ \A m \in Messages : /\ m.type # "restart" => m.from \in Sentinel /\ m.to \in Sentinel
                         /\ m.from \in Node /\ m.to \in Node
  BY DEF Messages, Msg, Node

-----------------------------------------------------------------------------
(* The memory of a sentinel. *)

LEMMA BootedTypes == \A s \in Sentinel : Booted(s) \in Memory /\ Booted(s).phase = "idle"
  BY DEF Booted, Memory, Node

(* The first step of an election or the next one, and what ends it. *)
LEMMA ElectInd ==
  ASSUME IndInv, NEW s \in Sentinel, Elect(s)
  PROVE  IndInv'
<1>1. /\ up \subseteq Node /\ mem \in [Sentinel -> Memory] /\ MessageBag(net)
      /\ faults \in 0 .. MaxFaults /\ Sending
  BY DEF IndInv
<1>3. ASSUME BecomeLeader(s) PROVE mem' \in [Sentinel -> Memory] /\ Sending'
  <2>1. Peers(s) # {} /\ Peers(s) \subseteq Sentinel
    <3>1. 0 \in Sentinel /\ 1 \in Sentinel
      BY Constants DEF Sentinel
    <3> QED
      BY <3>1 DEF Peers
  <2>2. ASSUME NEW r \in Memory
        PROVE  [r EXCEPT !.state = "leader", !.leader = s, !.phase = "announce", !.todo = Peers(s)] \in Memory
    BY <2>1 DEF Memory
  <2>3. mem' \in [Sentinel -> Memory]
    BY <1>1, <1>3, <2>2 DEF BecomeLeader
  <2>4. \A t \in Sentinel : t = s \/ mem'[t] = mem[t]
    BY <1>1, <1>3 DEF BecomeLeader
  <2>5. mem'[s].todo # {}
    BY <1>1, <1>3, <2>1 DEF BecomeLeader, Memory
  <2> QED
    BY <1>1, <2>3, <2>4, <2>5 DEF Sending
<1>4. ASSUME NEW c, Unless(c) PROVE faults' \in 0 .. MaxFaults
  BY <1>1, <1>4, Constants DEF Unless
<1>5. CASE StartRound(s)
  <2>1. CASE PeersWithHigherID(s) = {}
    BY <1>1, <1>3, <1>5, <2>1 DEF StartRound, IndInv
  <2>2. CASE PeersWithHigherID(s) # {}
    <3>1. PeersWithHigherID(s) \subseteq Sentinel
      BY DEF PeersWithHigherID
    <3> QED
      BY <1>1, <1>5, <2>2, <3>1 DEF StartRound, Memory, Sending, IndInv
  <2> QED
    BY <2>1, <2>2
<1>6. CASE SendNext(s)
  <2> DEFINE p == Min(mem[s].todo)
             rest == mem[s].todo \ {p}
  <2>1. mem[s].todo \subseteq Sentinel /\ mem[s].todo # {} /\ Sentinel \subseteq Nat
    BY <1>1, <1>6, Constants DEF SendNext, Memory, Sending, Sentinel
  <2>2. p \in Sentinel
    BY <2>1, MinIsElement
  <2>3. MessageBag(net')
    BY <1>1, <1>6, <2>2, SendMessage, MessageTypes DEF SendNext
  <2>4. /\ rest \subseteq Sentinel
        /\ mem' = [mem EXCEPT ![s].todo = rest,
                              ![s].phase = IF rest # {} THEN mem[s].phase
                                           ELSE IF mem[s].phase = "ask" THEN "awaitOK" ELSE "idle"]
    BY <1>1, <1>6, <2>1 DEF SendNext
  <2>5. mem' \in [Sentinel -> Memory] /\ Sending'
    <3> HIDE DEF rest
    <3>1. ASSUME NEW r \in Memory, NEW ph \in {"ask", "announce", "awaitOK", "idle"}
          PROVE  [r EXCEPT !.todo = rest, !.phase = ph] \in Memory
      BY <2>4 DEF Memory
    <3>2. PICK ph \in {"ask", "announce", "awaitOK", "idle"} :
            /\ mem' = [mem EXCEPT ![s].todo = rest, ![s].phase = ph]
            /\ ph \in {"ask", "announce"} => rest # {}
      BY <1>6, <2>4 DEF SendNext
    <3>3. mem' \in [Sentinel -> Memory]
      BY <1>1, <3>1, <3>2
    <3>4. /\ mem'[s].todo = rest /\ mem'[s].phase = ph
          /\ \A t \in Sentinel : t = s \/ mem'[t] = mem[t]
      BY <1>1, <3>2 DEF Memory
    <3> QED
      BY <1>1, <3>2, <3>3, <3>4 DEF Sending
  <2> QED
    BY <1>1, <1>6, <2>3, <2>5 DEF SendNext, IndInv
<1>7. CASE OKReceived(s)
  BY <1>1, <1>7 DEF OKReceived, Memory, Sending, IndInv
<1>8. CASE OKTimeout(s)
  BY <1>1, <1>3, <1>4, <1>8 DEF OKTimeout, IndInv
<1>9. CASE CoordReceived(s)
  BY <1>1, <1>9 DEF CoordReceived, Memory, Sending, IndInv
<1>10. CASE CoordTimeout(s)
  <2>1. mem' \in [Sentinel -> Memory] /\ Sending'
    <3>1. ASSUME NEW r \in Memory
          PROVE  [r EXCEPT !.phase = "candidate", !.state = "candidate"] \in Memory
      BY DEF Memory
    <3>2. mem' \in [Sentinel -> Memory]
      BY <1>1, <1>10, <3>1 DEF CoordTimeout
    <3>3. /\ mem'[s].phase = "candidate"
          /\ \A t \in Sentinel : t = s \/ mem'[t] = mem[t]
      BY <1>1, <1>10 DEF CoordTimeout, Memory
    <3> QED
      BY <1>1, <3>2, <3>3 DEF Sending
  <2> QED
    BY <1>1, <1>4, <1>10, <2>1 DEF CoordTimeout, IndInv
<1> QED
  BY <1>5, <1>6, <1>7, <1>8, <1>9, <1>10 DEF Elect

LEMMA DeliverInd ==
  ASSUME IndInv, NEW m \in DOMAIN net, Deliver(m)
  PROVE  IndInv'
<1>1. /\ up \subseteq Node /\ mem \in [Sentinel -> Memory] /\ MessageBag(net)
      /\ faults \in 0 .. MaxFaults /\ Sending
  BY DEF IndInv
<1>3. /\ m \in Messages /\ m.from \in Node /\ m.to \in Node
      /\ m.type # "restart" => m.from \in Sentinel /\ m.to \in Sentinel
  BY <1>1, MessageTypes DEF MessageBag
<1>4. MessageBag(BagRemove(net, m))
  BY <1>1, RemoveMessage
<1>5. CASE TriggerElection(m)
  <2>1. m.to \in Sentinel
    BY <1>3, <1>5 DEF TriggerElection
  <2>2. mem' \in [Sentinel -> Memory] /\ Sending'
    BY <1>1, <1>5, <2>1 DEF TriggerElection, Memory, Sending
  <2> QED
    BY <1>1, <1>4, <1>5, <2>2 DEF TriggerElection, IndInv
<1>6. CASE HandleElection(m)
  <2>1. m.to \in Sentinel /\ m.from \in Sentinel
    BY <1>3, <1>6 DEF HandleElection
  <2>2. MessageBag(Sent(BagRemove(net, m), Msg("ok", m.to, m.from)))
    BY <1>4, <2>1, SendMessage, MessageTypes
  <2>3. MessageBag(BagAdd(Sent(BagRemove(net, m), Msg("ok", m.to, m.from)), Trigger(m.from, m.to)))
    BY <2>1, <2>2, AddMessage, MessageTypes DEF Trigger
  <2>4. MessageBag(net') /\ UNCHANGED <<up, mem, faults>>
    BY <1>4, <1>6, <2>3 DEF HandleElection
  <2> QED
    BY <1>1, <2>4 DEF Sending, IndInv
<1>7. CASE HandleOK(m)
  <2>1. m.to \in Sentinel
    BY <1>3, <1>7 DEF HandleOK
  <2>2. mem' \in [Sentinel -> Memory] /\ Sending'
    <3>1. ASSUME NEW r \in Memory PROVE [r EXCEPT !.ok = TRUE] \in Memory
      BY DEF Memory
    <3>2. mem' \in [Sentinel -> Memory]
      BY <1>1, <1>7, <2>1, <3>1 DEF HandleOK
    <3>3. \A t \in Sentinel : mem'[t].phase = mem[t].phase /\ mem'[t].todo = mem[t].todo
      BY <1>1, <1>7 DEF HandleOK, Memory
    <3> QED
      BY <1>1, <3>2, <3>3 DEF Sending
  <2> QED
    BY <1>1, <1>4, <1>7, <2>2 DEF HandleOK, IndInv
<1>8. CASE HandleCoord(m)
  <2>1. m.to \in Sentinel /\ m.from \in Sentinel /\ m.from \in Node
    BY <1>3, <1>8 DEF HandleCoord
  <2>2. MessageBag(BagAdd(BagRemove(net, m), Trigger(m.from, m.to)))
    BY <1>4, <2>1, AddMessage, MessageTypes DEF Trigger
  <2>3. mem' \in [Sentinel -> Memory] /\ Sending'
    <3>1. CASE mem' = mem
      BY <1>1, <3>1 DEF Sending
    <3>2. CASE mem' = [mem EXCEPT ![m.to].fresh = mem[m.to].fresh \cup {m.from}, ![m.to].leader = m.from,
                                  ![m.to].state = "follower", ![m.to].coord = TRUE]
      <4>1. ASSUME NEW x \in Memory
            PROVE  [x EXCEPT !.fresh = mem[m.to].fresh \cup {m.from}, !.leader = m.from,
                             !.state = "follower", !.coord = TRUE] \in Memory
        <5>1. mem[m.to].fresh \subseteq Node
          BY <1>1, <2>1 DEF Memory
        <5> QED
          BY <2>1, <5>1 DEF Memory
      <4>2. mem' \in [Sentinel -> Memory]
        BY <1>1, <2>1, <3>2, <4>1
      <4>3. \A t \in Sentinel : mem'[t].phase = mem[t].phase /\ mem'[t].todo = mem[t].todo
        BY <1>1, <2>1, <3>2 DEF Memory
      <4> QED
        BY <1>1, <4>2, <4>3 DEF Sending
    <3> QED
      BY <1>8, <2>1, <3>1, <3>2, <1>1 DEF HandleCoord, IndInv
  <2> QED
    BY <1>1, <1>4, <1>8, <2>2, <2>3 DEF HandleCoord, IndInv
<1>9. CASE Restarted(m)
  <2>1. up' \subseteq Node /\ faults' = faults
    BY <1>1, <1>3, <1>9 DEF Restarted
  <2>2. CASE m.to \in Sentinel
    <3>1. MessageBag(BagRemove(Without(m.to), m))
      BY <1>1, LoseMessages, RemoveMessage
    <3>2. MessageBag(net')
      BY <1>9, <2>2, <3>1, AddMessage, MessageTypes DEF Restarted, Trigger
    <3>3. mem' = [mem EXCEPT ![m.to] = Booted(m.to)]
      BY <1>9, <2>2 DEF Restarted
    <3>4. mem' \in [Sentinel -> Memory] /\ Sending'
      BY <1>1, <2>2, <3>3, BootedTypes DEF Sending
    <3> QED
      BY <1>1, <2>1, <3>2, <3>4 DEF IndInv
  <2>3. CASE m.to \notin Sentinel
    <3>1. mem' = mem /\ net' = BagRemove(net, m)
      BY <1>9, <2>3 DEF Restarted
    <3> QED
      BY <1>1, <1>4, <2>1, <3>1 DEF Sending, IndInv
  <2> QED
    BY <2>2, <2>3
<1> QED
  BY <1>5, <1>6, <1>7, <1>8, <1>9 DEF Deliver

(* The tickers, and the faults. *)
LEMMA WatchInd ==
  ASSUME IndInv, NEW s \in Sentinel, Watch(s) \/ Supervise(s) \/ SuspectLeader(s)
  PROVE  IndInv'
<1>1. /\ up \subseteq Node /\ mem \in [Sentinel -> Memory] /\ MessageBag(net)
      /\ faults \in 0 .. MaxFaults /\ Sending
  BY DEF IndInv
<1>3. ASSUME NEW c, Unless(c) PROVE faults' \in 0 .. MaxFaults
  BY <1>1, <1>3, Constants DEF Unless
<1>4. ASSUME NEW n \in Node, Heartbeat(s, n) PROVE IndInv'
  <2>1. mem' \in [Sentinel -> Memory] /\ Sending'
    BY <1>1, <1>4 DEF Heartbeat, Memory, Sending
  <2> QED
    BY <1>1, <1>4, <2>1 DEF Heartbeat, IndInv
<1>5. ASSUME NEW n \in Node, Expire(s, n) PROVE IndInv'
  <2>1. mem' \in [Sentinel -> Memory] /\ Sending'
    BY <1>1, <1>5 DEF Expire, Memory, Sending
  <2> QED
    BY <1>1, <1>3, <1>5, <2>1 DEF Expire, IndInv
<1>6. ASSUME NEW n \in Node, DecideRestart(s, n) PROVE IndInv'
  <2>1. mem' \in [Sentinel -> Memory] /\ Sending'
    BY <1>1, <1>6 DEF DecideRestart, Memory, Sending
  <2>2. MessageBag(net')
    BY <1>1, <1>6, AddMessage, MessageTypes DEF DecideRestart, Node
  <2> QED
    BY <1>1, <1>3, <1>6, <2>1, <2>2 DEF DecideRestart, IndInv
<1>7. ASSUME NEW n \in Node, CoolDown(s, n) PROVE IndInv'
  <2>1. mem' \in [Sentinel -> Memory] /\ Sending'
    BY <1>1, <1>7 DEF CoolDown, Memory, Sending
  <2> QED
    BY <1>1, <1>7, <2>1 DEF CoolDown, IndInv
<1>8. CASE SuspectLeader(s)
  <2>1. MessageBag(net')
    BY <1>1, <1>8, AddMessage, MessageTypes DEF SuspectLeader, Trigger
  <2>2. UNCHANGED <<up, mem>> /\ faults' \in 0 .. MaxFaults
    BY <1>3, <1>8 DEF SuspectLeader
  <2> QED
    BY <1>1, <2>1, <2>2 DEF Sending, IndInv
<1> QED
  BY <1>4, <1>5, <1>6, <1>7, <1>8 DEF Watch, Supervise

LEMMA FaultInd ==
  ASSUME IndInv, \/ \E n \in Node : Crash(n)
                 \/ \E m \in DOMAIN net : RestartFails(m)
                 \/ UNCHANGED vars
  PROVE  IndInv'
<1>1. /\ up \subseteq Node /\ mem \in [Sentinel -> Memory] /\ MessageBag(net)
      /\ faults \in 0 .. MaxFaults /\ Sending
  BY DEF IndInv
<1>3. ASSUME NEW c, Unless(c) PROVE faults' \in 0 .. MaxFaults
  BY <1>1, <1>3, Constants DEF Unless
<1>4. ASSUME NEW n \in Node, Crash(n) PROVE IndInv'
  <2>1. mem' \in [Sentinel -> Memory] /\ Sending'
    BY <1>1, <1>4, BootedTypes DEF Crash, Sending
  <2> QED
    BY <1>1, <1>3, <1>4, <2>1, LoseMessages DEF Crash, IndInv
<1>5. ASSUME NEW m \in DOMAIN net, RestartFails(m) PROVE IndInv'
  <2>1. MessageBag(net') /\ UNCHANGED <<up, mem>> /\ faults' \in 0 .. MaxFaults
    BY <1>1, <1>3, <1>5, RemoveMessage DEF RestartFails
  <2> QED
    BY <1>1, <2>1 DEF Sending, IndInv
<1>6. CASE UNCHANGED vars
  BY <1>1, <1>6 DEF vars, Sending, IndInv
<1> QED
  BY <1>4, <1>5, <1>6

LEMMA InitInd == Init => IndInv
<1> SUFFICES ASSUME Init PROVE IndInv
  OBVIOUS
<1>1. mem \in [Sentinel -> Memory] /\ Sending
  BY BootedTypes DEF Init, Sending
<1>2. MessageBag(net)
  BY MessageTypes DEF Init, MessageBag, SetToBag, IsABag
<1>3. up \subseteq Node /\ faults \in 0 .. MaxFaults
  BY Constants DEF Init
<1> QED
  BY <1>1, <1>2, <1>3 DEF IndInv

LEMMA NextInd == IndInv /\ [Next]_vars => IndInv'
<1> SUFFICES ASSUME IndInv, [Next]_vars PROVE IndInv'
  OBVIOUS
<1>1. ASSUME NEW s \in Sentinel, Elect(s) \/ SuspectLeader(s) \/ Watch(s) \/ Supervise(s) PROVE IndInv'
  BY <1>1, ElectInd, WatchInd
<1>2. ASSUME NEW n \in Node, DeliverTo(n) PROVE IndInv'
  BY <1>2, DeliverInd DEF DeliverTo
<1> QED
  BY <1>1, <1>2, FaultInd DEF Next

LEMMA Invariant == Spec => []IndInv
  BY InitInd, NextInd, PTL DEF Spec

(* Whatever is lost, late or restarted, the sentinels (BullyCoordinator,     *)
(* NodeMonitor) and the messages between them only take the values of their  *)
(* types; in particular a sentinel that is about to send has a peer left.    *)
THEOREM TypeCorrect == Spec => []TypeOK
  BY Invariant, IndInvSuffices, PTL

-----------------------------------------------------------------------------
LEMMA StableStep ==
  ASSUME IndInv, Next, Settled, UNCHANGED faults
  PROVE  Settled'
<1>1. /\ up = Node /\ mem \in [Sentinel -> Memory] /\ MessageBag(net) /\ faults \in Nat
      /\ \A m \in DOMAIN net : m.type = "ok" /\ m.to \in Sentinel
  BY MessageTypes, Constants DEF IndInv, Settled, MessageBag
<1>2. \A s \in Sentinel : /\ mem[s].phase = "idle" /\ mem[s].fresh = Node \ {s}
                          /\ mem[s].leader = Top /\ (mem[s].state = "leader" <=> s = Top)
  BY DEF Settled, Agreed
<1>3. Top \in Sentinel /\ Top \in Node /\ Sentinel \subseteq Node
  BY Constants DEF Top, Sentinel, Node
<1>4. ASSUME NEW c, Unless(c) PROVE c
  BY <1>1, <1>4 DEF Unless
<1>5. ASSUME NEW s \in Sentinel PROVE ~Elect(s)
  BY <1>2, <1>5 DEF Elect, StartRound, SendNext, OKReceived, OKTimeout, CoordReceived, CoordTimeout
<1>6. ASSUME NEW s \in Sentinel PROVE ~SuspectLeader(s) /\ ~Watch(s)
  <2>1. ~SuspectLeader(s)
    BY <1>2, <1>3 DEF SuspectLeader
  <2>2. ASSUME NEW n \in Node PROVE ~Heartbeat(s, n) /\ ~Expire(s, n)
    BY <1>1, <1>2, <1>4 DEF Heartbeat, Expire
  <2> QED
    BY <2>1, <2>2 DEF Watch
<1>7. ASSUME NEW s \in Sentinel, Supervise(s) PROVE Settled'
  <2>1. PICK n \in Node : DecideRestart(s, n) \/ CoolDown(s, n)
    BY <1>7 DEF Supervise
  <2>2. CoolDown(s, n)
    BY <1>2, <2>1 DEF DecideRestart
  <2>3. /\ UNCHANGED <<up, net>>
        /\ \A t \in Sentinel : /\ mem'[t].phase = mem[t].phase /\ mem'[t].fresh = mem[t].fresh
                               /\ mem'[t].leader = mem[t].leader /\ mem'[t].state = mem[t].state
    BY <1>1, <2>2 DEF CoolDown, Memory
  <2> QED
    BY <1>1, <2>3 DEF Settled, Agreed
<1>8. ASSUME NEW n \in Node, DeliverTo(n) PROVE Settled'
  <2>1. PICK m \in DOMAIN net : Deliver(m)
    BY <1>8 DEF DeliverTo
  <2>2. m.type = "ok" /\ m.to \in Sentinel /\ HandleOK(m)
    BY <1>1, <2>1 DEF Deliver, TriggerElection, HandleElection, HandleCoord, Restarted
  <2>3. /\ up' = up /\ DOMAIN net' \subseteq DOMAIN net
        /\ \A t \in Sentinel : /\ mem'[t].phase = mem[t].phase /\ mem'[t].fresh = mem[t].fresh
                               /\ mem'[t].leader = mem[t].leader /\ mem'[t].state = mem[t].state
    BY <1>1, <2>2, RemoveMessage DEF HandleOK, Memory
  <2> QED
    BY <1>1, <2>3 DEF Settled, Agreed
<1>9. ASSUME NEW n \in Node PROVE ~Crash(n)
  BY <1>4 DEF Crash
<1>10. ASSUME NEW m \in DOMAIN net PROVE ~RestartFails(m)
  BY <1>4 DEF RestartFails
<1> QED
  BY <1>5, <1>6, <1>7, <1>8, <1>9, <1>10 DEF Next

(* Once all agree on the highest sentinel, hear each other and nothing is    *)
(* under way (late OKs excepted), no step of the election, the monitor or    *)
(* the tickers changes that, with any number of sentinels: it takes a fault  *)
(* to start another election (monitorLeader, triggerElection).               *)
THEOREM AgreementHolds == Spec => AgreementIsStable
<1>1. IndInv /\ [Next]_vars => [Settled /\ UNCHANGED faults => Settled']_vars
  BY StableStep
<1> QED
  BY <1>1, Invariant, PTL DEF Spec, AgreementIsStable
=============================================================================
