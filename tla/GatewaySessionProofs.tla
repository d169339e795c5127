------------------------ MODULE GatewaySessionProofs ------------------------
(* Theorems about GatewaySession, for any number of clients and sessions,    *)
(* any results, crashes and broken connections.                              *)
EXTENDS GatewaySession, FiniteSetTheorems, SequenceTheorems, WellFoundedInduction, TLAPS

USE ConstantsAssumption

-----------------------------------------------------------------------------
(* Part one: which sessions are registered and which are over.  Most of the  *)
(* state does not matter for it: what the goroutines of a session and the    *)
(* client exchange is left open.                                             *)

Shape ==
  /\ DOMAIN sess = Session /\ \A s \in Session : "reader" \in DOMAIN sess[s]
  /\ DOMAIN conn = Session
  /\ \A s \in Session : /\ {"clOpen", "gwOpen"} \subseteq DOMAIN conn[s]
                        /\ conn[s].clOpen \in BOOLEAN /\ conn[s].gwOpen \in BOOLEAN
  /\ {"phase", "clients", "toAbort"} \subseteq DOMAIN gw
  /\ gw.phase \in {"down", "reviving", "serving"}
  /\ published \in [Session -> Nat]
  /\ opened \in 0 .. MaxSessions

(* A session is over once one of its ends is closed. *)
BothOpen(s) == conn[s].clOpen /\ conn[s].gwOpen

(* Nothing is known of a session that was not opened. *)
Numbered ==
  /\ file \cup gw.clients \cup gw.toAbort \cup aborted \subseteq 1 .. opened
  /\ \A s \in Session : sess[s].reader # "none" => s <= opened

(* The file and the map of the clients, in each phase of the gateway. *)
FileFollowsMap ==
  /\ gw.phase = "serving" => file = gw.clients /\ gw.toAbort = {}
  /\ gw.phase = "reviving" => file = gw.clients /\ file \subseteq gw.toAbort \cup aborted
  /\ gw.phase = "down" => gw.toAbort = {}

(* While the gateway does not serve there is no session. *)
NoSessionUnlessServing ==
  gw.phase # "serving" => \A s \in Session : sess[s].reader = "none" /\ ~conn[s].gwOpen

(* What the reader of a session knows. *)
ReaderKnows ==
  \A s \in Session :
    /\ sess[s].reader = "read" => s \in file
    /\ sess[s].reader \in {"cleanup", "unregister", "remove", "closed"} => ~BothOpen(s)
    /\ sess[s].reader = "unregister" => s \in aborted

AbortedAreOver == \A s \in Session : s \in aborted => ~BothOpen(s)

IndInv ==
  /\ Shape /\ Numbered /\ FileFollowsMap /\ NoSessionUnlessServing /\ ReaderKnows
  /\ AbortedAreOver /\ PublishedIsRegistered

LEMMA IndInvSuffices ==
  ASSUME IndInv
  PROVE  PublishedIsRegistered /\ AbortedIsOver
<1>1. aborted \subseteq Session
  BY DEF IndInv, Shape, Numbered, Session
<1> QED
  BY <1>1 DEF IndInv, AbortedIsOver, AbortedAreOver, BothOpen, Live

LEMMA InitInd == Init => IndInv
<1> SUFFICES ASSUME Init PROVE IndInv
  OBVIOUS
<1>1. Shape
  <2>1. \A s \in Session : sess[s] = NewSession /\ sess[s].reader = "none"
    BY DEF Init, NewSession
  <2>2. \A s \in Session : conn[s] = [clOpen |-> FALSE, gwOpen |-> FALSE, toGateway |-> <<>>, toClient |-> <<>>]
    BY DEF Init
  <2>3. opened \in 0 .. MaxSessions /\ published \in [Session -> Nat]
    BY ConstantsAssumption DEF Init, ConstantsAssumption
  <2>4. \A s \in Session : "reader" \in DOMAIN sess[s]
    BY <2>1 DEF NewSession
  <2>5. /\ DOMAIN sess = Session /\ DOMAIN conn = Session
        /\ {"phase", "clients", "toAbort"} \subseteq DOMAIN gw /\ gw.phase = "serving"
    BY DEF Init
  <2>6. \A s \in Session : /\ {"clOpen", "gwOpen"} \subseteq DOMAIN conn[s]
                            /\ conn[s].clOpen \in BOOLEAN /\ conn[s].gwOpen \in BOOLEAN
    <3> TAKE s \in Session
    <3>1. conn[s] = [clOpen |-> FALSE, gwOpen |-> FALSE, toGateway |-> <<>>, toClient |-> <<>>]
      BY <2>2
    <3>2. ASSUME NEW x, NEW y, NEW r, r = [clOpen |-> FALSE, gwOpen |-> FALSE, toGateway |-> x, toClient |-> y]
          PROVE  /\ {"clOpen", "gwOpen"} \subseteq DOMAIN r
                 /\ r.clOpen = FALSE /\ r.gwOpen = FALSE
      BY <3>2
    <3> QED
      BY <3>1, <3>2
  <2> QED
    BY <2>3, <2>4, <2>5, <2>6 DEF Shape
<1>2. Numbered /\ FileFollowsMap /\ NoSessionUnlessServing
  BY DEF Init, Numbered, FileFollowsMap, NoSessionUnlessServing, NewSession
<1>3. ReaderKnows /\ AbortedAreOver /\ PublishedIsRegistered
  BY DEF Init, ReaderKnows, AbortedAreOver, PublishedIsRegistered, NewSession
<1> QED
  BY <1>1, <1>2, <1>3 DEF IndInv

-----------------------------------------------------------------------------
(* Steps that neither move a reader nor open a connection nor touch what the *)
(* gateway and the pipeline know of the clients.                             *)

SessionsStay ==
  /\ DOMAIN sess' = Session
  /\ \A s \in Session : "reader" \in DOMAIN sess'[s] /\ sess'[s].reader = sess[s].reader

ConnectionsStay ==
  /\ DOMAIN conn' = Session
  /\ \A s \in Session : /\ {"clOpen", "gwOpen"} \subseteq DOMAIN conn'[s]
                        /\ conn'[s].clOpen \in BOOLEAN /\ conn'[s].gwOpen \in BOOLEAN
                        /\ conn'[s].clOpen => conn[s].clOpen
                        /\ conn'[s].gwOpen => conn[s].gwOpen

GatewayStays ==
  /\ {"phase", "clients", "toAbort"} \subseteq DOMAIN gw'
  /\ gw'.phase = gw.phase /\ gw'.clients = gw.clients /\ gw'.toAbort = gw.toAbort

LEMMA NothingOpens ==
  ASSUME IndInv, SessionsStay, ConnectionsStay, GatewayStays, UNCHANGED <<file, published, aborted, opened>>
  PROVE  IndInv'
<1>1. \A s \in Session : BothOpen(s)' => BothOpen(s)
  BY DEF ConnectionsStay, BothOpen
<1>2. Shape'
  BY DEF IndInv, Shape, SessionsStay, ConnectionsStay, GatewayStays
<1>3. Numbered' /\ FileFollowsMap'
  BY DEF IndInv, Numbered, FileFollowsMap, SessionsStay, GatewayStays
<1>4. NoSessionUnlessServing'
  BY DEF IndInv, NoSessionUnlessServing, SessionsStay, ConnectionsStay, GatewayStays
<1>5. ReaderKnows' /\ AbortedAreOver' /\ PublishedIsRegistered'
  BY <1>1 DEF IndInv, ReaderKnows, AbortedAreOver, PublishedIsRegistered, SessionsStay
<1> QED
  BY <1>2, <1>3, <1>4, <1>5 DEF IndInv

LEMMA Unmoved ==
  ASSUME IndInv
  PROVE  /\ sess' = sess => SessionsStay
         /\ conn' = conn => ConnectionsStay
         /\ gw' = gw => GatewayStays
  BY DEF IndInv, Shape, SessionsStay, ConnectionsStay, GatewayStays

(* The connection d has the ends of c, and opens none. *)
OpensNothing(c, d) ==
  /\ {"clOpen", "gwOpen"} \subseteq DOMAIN d
  /\ d.clOpen \in BOOLEAN /\ d.gwOpen \in BOOLEAN
  /\ d.clOpen => c.clOpen
  /\ d.gwOpen => c.gwOpen

LEMMA OneChanges ==
  ASSUME IndInv, NEW s, NEW d, DOMAIN conn' = Session,
         \A t \in Session : conn'[t] = IF t = s THEN d ELSE conn[t],
         s \in Session => OpensNothing(conn[s], d)
  PROVE  ConnectionsStay
<1>1. Shape
  BY DEF IndInv
<1> QED
  BY <1>1 DEF Shape, ConnectionsStay, OpensNothing

LEMMA Ends ==
  ASSUME NEW c, {"clOpen", "gwOpen"} \subseteq DOMAIN c, c.clOpen \in BOOLEAN, c.gwOpen \in BOOLEAN,
         NEW x, NEW y
  PROVE  /\ OpensNothing(c, [c EXCEPT !.gwOpen = FALSE, !.toGateway = x])
         /\ OpensNothing(c, [c EXCEPT !.clOpen = FALSE, !.toClient = x])
         /\ OpensNothing(c, [c EXCEPT !.toGateway = x])
         /\ OpensNothing(c, [c EXCEPT !.toClient = x])
         /\ OpensNothing(c, [[c EXCEPT !.toGateway = x] EXCEPT !.toClient = y])
<1>1. OpensNothing(c, [c EXCEPT !.gwOpen = FALSE, !.toGateway = x])
  BY DEF OpensNothing
<1>2. OpensNothing(c, [c EXCEPT !.clOpen = FALSE, !.toClient = x])
  BY DEF OpensNothing
<1>3. OpensNothing(c, [c EXCEPT !.toGateway = x])
  BY DEF OpensNothing
<1>4. OpensNothing(c, [c EXCEPT !.toClient = x])
  BY DEF OpensNothing
<1>5. OpensNothing(c, [[c EXCEPT !.toGateway = x] EXCEPT !.toClient = y])
  BY DEF OpensNothing
<1> QED
  BY <1>1, <1>2, <1>3, <1>4, <1>5

(* The ways in which connections change. *)
LEMMA Closing ==
  ASSUME IndInv, NEW s
  PROVE  /\ conn' = GatewayCloses(s) => ConnectionsStay
         /\ conn' = ClientCloses(s) => ConnectionsStay
         /\ conn' = Take(s) => ConnectionsStay
         /\ conn' = TakeReply(s) => ConnectionsStay
         /\ \A m : conn' = Reply(s, m) => ConnectionsStay
<1>1. s \in Session => /\ {"clOpen", "gwOpen"} \subseteq DOMAIN conn[s]
                       /\ conn[s].clOpen \in BOOLEAN /\ conn[s].gwOpen \in BOOLEAN
  BY DEF IndInv, Shape
<1>2. ASSUME conn' = GatewayCloses(s) PROVE ConnectionsStay
  <2> DEFINE d == [conn[s] EXCEPT !.gwOpen = FALSE, !.toGateway = <<>>]
  <2>1. DOMAIN conn' = Session /\ \A t \in Session : conn'[t] = IF t = s THEN d ELSE conn[t]
    BY <1>2 DEF GatewayCloses, IndInv, Shape
  <2>2. s \in Session => OpensNothing(conn[s], d)
    BY <1>1, Ends
  <2> HIDE DEF d
  <2> QED
    BY <2>1, <2>2, OneChanges
<1>3. ASSUME conn' = ClientCloses(s) PROVE ConnectionsStay
  <2> DEFINE d == [conn[s] EXCEPT !.clOpen = FALSE, !.toClient = <<>>]
  <2>1. DOMAIN conn' = Session /\ \A t \in Session : conn'[t] = IF t = s THEN d ELSE conn[t]
    BY <1>3 DEF ClientCloses, IndInv, Shape
  <2>2. s \in Session => OpensNothing(conn[s], d)
    BY <1>1, Ends
  <2> HIDE DEF d
  <2> QED
    BY <2>1, <2>2, OneChanges
<1>4. ASSUME conn' = Take(s) PROVE ConnectionsStay
  <2> DEFINE d == [conn[s] EXCEPT !.toGateway = Tail(@)]
  <2>1. DOMAIN conn' = Session /\ \A t \in Session : conn'[t] = IF t = s THEN d ELSE conn[t]
    BY <1>4 DEF Take, IndInv, Shape
  <2>2. s \in Session => OpensNothing(conn[s], d)
    BY <1>1, Ends
  <2> HIDE DEF d
  <2> QED
    BY <2>1, <2>2, OneChanges
<1>5. ASSUME conn' = TakeReply(s) PROVE ConnectionsStay
  <2> DEFINE d == [conn[s] EXCEPT !.toClient = Tail(@)]
  <2>1. DOMAIN conn' = Session /\ \A t \in Session : conn'[t] = IF t = s THEN d ELSE conn[t]
    BY <1>5 DEF TakeReply, IndInv, Shape
  <2>2. s \in Session => OpensNothing(conn[s], d)
    BY <1>1, Ends
  <2> HIDE DEF d
  <2> QED
    BY <2>1, <2>2, OneChanges
<1>6. ASSUME NEW m, conn' = Reply(s, m) PROVE ConnectionsStay
  <2> DEFINE c == [conn[s] EXCEPT !.toGateway = Tail(@)]
             y == IF conn[s].clOpen THEN Append(Take(s)[s].toClient, [type |-> m]) ELSE Take(s)[s].toClient
             d == [c EXCEPT !.toClient = y]
  <2>1. DOMAIN Take(s) = Session /\ \A t \in Session : Take(s)[t] = IF t = s THEN c ELSE conn[t]
    BY DEF IndInv, Shape, Take
  <2>2. s \in Session => OpensNothing(conn[s], d)
    BY <1>1, Ends
  <2>3. conn' = [Take(s) EXCEPT ![s].toClient = y]
    BY <1>6 DEF Reply
  <2> HIDE DEF c, y
  <2>4. DOMAIN conn' = Session /\ \A t \in Session : conn'[t] = IF t = s THEN d ELSE conn[t]
    BY <2>1, <2>3
  <2> HIDE DEF d
  <2> QED
    BY <2>2, <2>4, OneChanges
<1> QED
  BY <1>2, <1>3, <1>4, <1>5, <1>6

-----------------------------------------------------------------------------
(* The steps that this covers. *)

LEMMA OutputInd ==
  ASSUME IndInv, NEW s \in Session, Output(s)
  PROVE  IndInv'
<1>1. Shape
  BY DEF IndInv
<1>2. CASE DequeueResult(s)
  <2>1. SessionsStay
    BY <1>1, <1>2 DEF DequeueResult, Shape, SessionsStay
  <2> QED
    BY <1>2, <2>1, Unmoved, NothingOpens DEF DequeueResult, pipeline
<1>3. CASE Flush(s)
  <2>1. SessionsStay /\ ConnectionsStay
    BY <1>1, <1>3 DEF Flush, Shape, SessionsStay, ConnectionsStay
  <2> QED
    BY <1>3, <2>1, Unmoved, NothingOpens DEF Flush, pipeline
<1>4. CASE OutputFails(s)
  <2>1. SessionsStay /\ GatewayStays
    BY <1>1, <1>4 DEF OutputFails, Shape, SessionsStay, GatewayStays
  <2>2. ConnectionsStay
    BY <1>4, Closing DEF OutputFails
  <2> QED
    BY <1>4, <2>1, <2>2, NothingOpens DEF OutputFails, pipeline
<1>5. CASE AckedFirst(s)
  <2>1. SessionsStay
    BY <1>1, <1>5 DEF AckedFirst, Shape, SessionsStay
  <2> QED
    BY <1>5, <2>1, Unmoved, NothingOpens DEF AckedFirst, pipeline
<1>6. CASE Acked(s)
  <2>1. SessionsStay /\ GatewayStays
    BY <1>1, <1>6 DEF Acked, Shape, SessionsStay, GatewayStays
  <2>2. ConnectionsStay
    BY <1>6, Unmoved, Closing DEF Acked
  <2> QED
    BY <1>6, <2>1, <2>2, NothingOpens DEF Acked, pipeline
<1>7. CASE DequeueFails(s)
  <2>1. SessionsStay
    BY <1>1, <1>7 DEF DequeueFails, Shape, SessionsStay
  <2> QED
    BY <1>7, <2>1, Unmoved, NothingOpens DEF DequeueFails, pipeline
<1> QED
  BY <1>2, <1>3, <1>4, <1>5, <1>6, <1>7 DEF Output

LEMMA ConsumeInd ==
  ASSUME IndInv, Consume
  PROVE  IndInv'
<1>1. Shape
  BY DEF IndInv
<1>2. CASE ForwardFinal
  <2>1. SessionsStay /\ GatewayStays
    <3>1. CASE UNCHANGED <<gw, sess, left>>
      BY <3>1, Unmoved
    <3>2. ASSUME NEW s, NEW x, NEW y, sess' = [sess EXCEPT ![s].seen = x], gw' = [gw EXCEPT !.hand = y]
          PROVE  SessionsStay /\ GatewayStays
      BY <1>1, <3>2 DEF Shape, SessionsStay, GatewayStays
    <3>3. CASE ~UNCHANGED <<gw, sess, left>>
      <4> DEFINE s == Head(final)[1]
                 k == Head(final)[2]
      <4>1. /\ gw' = [gw EXCEPT !.hand = <<s, k, 1>>]
            /\ sess' = [sess EXCEPT ![s].seen = Dedup!Add(sess[s].seen, k)]
        BY <1>2, <3>3, Zenon DEF ForwardFinal
      <4> HIDE DEF s, k
      <4> QED
        BY <3>2, <4>1
    <3> QED
      BY <3>1, <3>3
  <2> QED
    BY <1>2, <2>1, Unmoved, NothingOpens DEF ForwardFinal, pipeline
<1>3. ASSUME NEW s \in Session, NEW k \in SeqID, NEW j \in 1 .. Len(Results[k]), EnqueueResult(s, k, j)
      PROVE  IndInv'
  <2>1. SessionsStay /\ GatewayStays
    BY <1>1, <1>3 DEF EnqueueResult, Shape, SessionsStay, GatewayStays
  <2> QED
    BY <1>3, <2>1, Unmoved, NothingOpens DEF EnqueueResult, pipeline
<1>4. ASSUME NEW s \in Session, NEW k \in SeqID, NEW j \in 1 .. Len(Results[k]), EnqueueFails(s, k, j)
      PROVE  IndInv'
  <2>1. GatewayStays
    BY <1>1, <1>4 DEF EnqueueFails, Shape, GatewayStays
  <2> QED
    BY <1>4, <2>1, Unmoved, NothingOpens DEF EnqueueFails, pipeline
<1> QED
  BY <1>2, <1>3, <1>4 DEF Consume

LEMMA ClientInd ==
  ASSUME IndInv, NEW c \in Client, ClientStep(c)
  PROVE  IndInv'
<1>1. Shape
  BY DEF IndInv
<1>2. CASE Connected(c)
  <2>1. ConnectionsStay
    BY <1>2, Closing DEF Connected
  <2> QED
    BY <1>2, <2>1, Unmoved, NothingOpens DEF Connected, pipeline
<1>3. CASE SendMessage(c)
  <2>1. ConnectionsStay
    BY <1>1, <1>3 DEF SendMessage, Shape, ConnectionsStay
  <2> QED
    BY <1>3, <2>1, Unmoved, NothingOpens DEF SendMessage, pipeline
<1>4. CASE IngestAcked(c)
  <2>1. ConnectionsStay
    BY <1>4, Closing DEF IngestAcked
  <2> QED
    BY <1>4, <2>1, Unmoved, NothingOpens DEF IngestAcked, pipeline
<1>5. CASE ReceiveResults(c)
  <2>1. ConnectionsStay
    BY <1>1, <1>5 DEF ReceiveResults, Shape, ConnectionsStay, ClientCloses, TakeReply
  <2> QED
    BY <1>5, <2>1, Unmoved, NothingOpens DEF ReceiveResults, pipeline
<1>6. CASE LoseSession(c)
  <2>1. ConnectionsStay
    BY <1>6, Closing DEF LoseSession
  <2> QED
    BY <1>6, <2>1, Unmoved, NothingOpens DEF LoseSession, pipeline
<1> QED
  BY <1>2, <1>3, <1>4, <1>5, <1>6 DEF ClientStep

LEMMA OutsideInd ==
  ASSUME IndInv, NEW s \in Session,
         Produce(s) \/ Break(s) \/ \E k \in SeqID : Repeat(s, k)
  PROVE  IndInv'
<1>1. CASE Produce(s)
  BY <1>1, Unmoved, NothingOpens DEF Produce
<1>2. CASE Break(s)
  <2>1. ConnectionsStay
    BY <1>2, Closing DEF Break
  <2> QED
    BY <1>2, <2>1, Unmoved, NothingOpens DEF Break, pipeline
<1>3. CASE \E k \in SeqID : Repeat(s, k)
  BY <1>3, Unmoved, NothingOpens DEF Repeat, pipeline
<1> QED
  BY <1>1, <1>2, <1>3

-----------------------------------------------------------------------------
(* The life of a session. *)

(* A new session is one of which nothing is known yet. *)
LEMMA AcceptInd ==
  ASSUME IndInv, NEW c \in Client, Accept(c)
  PROVE  IndInv'
<1> DEFINE n == opened + 1
<1>1. Shape /\ Numbered
  BY DEF IndInv
<1>2. n \in Session /\ opened \in Nat /\ opened' = n /\ n \notin 1 .. opened
  BY <1>1 DEF Accept, Shape
<1>3. \A s \in Session :
        /\ "reader" \in DOMAIN sess'[s]
        /\ sess'[s].reader = IF s = n THEN "handshake" ELSE sess[s].reader
  BY <1>1 DEF Accept, Shape
<1>4. \A s \in Session \ {n} : conn'[s] = conn[s]
  BY <1>1 DEF Accept, Shape
<1>5. /\ {"clOpen", "gwOpen"} \subseteq DOMAIN conn'[n]
      /\ conn'[n].clOpen \in BOOLEAN /\ conn'[n].gwOpen \in BOOLEAN
  BY <1>1, <1>2 DEF Accept, Shape
<1>6. GatewayStays
  BY <1>1 DEF Accept, Shape, GatewayStays
<1>7. UNCHANGED <<file, published, aborted>> /\ gw.phase = "serving"
  BY DEF Accept, pipeline
<1>8. DOMAIN sess' = Session /\ DOMAIN conn' = Session
  BY <1>1 DEF Accept, Shape
<1>9. Shape'
  BY <1>1, <1>2, <1>3, <1>4, <1>5, <1>6, <1>7, <1>8 DEF Shape, GatewayStays, Session
<1>10. Numbered'
  BY <1>1, <1>2, <1>3, <1>6, <1>7 DEF Numbered, GatewayStays, Session
<1>11. FileFollowsMap' /\ NoSessionUnlessServing'
  BY <1>6, <1>7 DEF IndInv, FileFollowsMap, NoSessionUnlessServing, GatewayStays
<1>12. n \notin aborted
  BY <1>1, <1>2 DEF Numbered
<1>13. \A s \in Session \ {n} : BothOpen(s)' <=> BothOpen(s)
  BY <1>4 DEF BothOpen
<1>14. ReaderKnows' /\ AbortedAreOver' /\ PublishedIsRegistered'
  BY <1>3, <1>7, <1>12, <1>13 DEF IndInv, ReaderKnows, AbortedAreOver, PublishedIsRegistered
<1> QED
  BY <1>9, <1>10, <1>11, <1>14 DEF IndInv

(* A step of the reader of session s moves to state to; it may add a session *)
(* to those that were aborted or change the map of the clients.              *)
ReaderMoves(s, to) ==
  /\ DOMAIN sess' = Session
  /\ \A t \in Session : /\ "reader" \in DOMAIN sess'[t]
                        /\ sess'[t].reader = IF t = s THEN to ELSE sess[t].reader

LEMMA ReaderInd ==
  ASSUME IndInv, NEW s \in Session, Reader(s)
  PROVE  IndInv'
<1>1. Shape
  BY DEF IndInv
<1>2. sess[s].reader # "none" => gw.phase = "serving" /\ s \in 1 .. opened
  BY <1>1 DEF IndInv, NoSessionUnlessServing, Numbered, Session, Shape
<1>3. CASE Handshake(s)
  <2>1. ReaderMoves(s, "register")
    BY <1>1, <1>3 DEF Handshake, ReaderMoves, Shape
  <2>2. ConnectionsStay /\ GatewayStays /\ UNCHANGED <<gw, file, published, aborted, opened>>
    BY <1>3, Closing, Unmoved DEF Handshake, pipeline
  <2>3. sess[s].reader = "handshake"
    BY <1>3 DEF Handshake
  <2>4. \A t \in Session : BothOpen(t)' => BothOpen(t)
    BY <2>2 DEF ConnectionsStay, BothOpen
  <2>5. Shape' /\ Numbered' /\ FileFollowsMap' /\ NoSessionUnlessServing'
    BY <1>1, <1>2, <2>1, <2>2, <2>3
       DEF IndInv, Shape, Numbered, FileFollowsMap, NoSessionUnlessServing, ReaderMoves, ConnectionsStay
  <2>6. ReaderKnows' /\ AbortedAreOver' /\ PublishedIsRegistered'
    BY <2>1, <2>2, <2>4 DEF IndInv, ReaderKnows, AbortedAreOver, PublishedIsRegistered, ReaderMoves
  <2> QED
    BY <2>5, <2>6 DEF IndInv
<1>4. CASE RegisterClient(s)
  <2>1. ReaderMoves(s, "read")
    BY <1>1, <1>4 DEF RegisterClient, ReaderMoves, Shape
  <2>2. UNCHANGED <<conn, published, aborted, opened>>
    BY <1>4 DEF RegisterClient, pipeline
  <2>3. sess[s].reader = "register" /\ file' = gw.clients \cup {s} /\ gw'.clients = gw.clients \cup {s}
        /\ {"phase", "clients", "toAbort"} \subseteq DOMAIN gw'
        /\ gw'.phase = gw.phase /\ gw'.toAbort = gw.toAbort
    BY <1>1, <1>4 DEF RegisterClient, Shape
  <2>4. file \subseteq file' /\ gw.phase = "serving"
    BY <1>2, <2>3 DEF IndInv, FileFollowsMap
  <2>5. Shape' /\ NoSessionUnlessServing'
    BY <1>1, <2>1, <2>2, <2>3, <2>4 DEF Shape, NoSessionUnlessServing, ReaderMoves
  <2>6. Numbered' /\ FileFollowsMap'
    BY <1>2, <2>1, <2>2, <2>3, <2>4 DEF IndInv, Numbered, FileFollowsMap, ReaderMoves
  <2>7. ReaderKnows' /\ AbortedAreOver' /\ PublishedIsRegistered'
    BY <2>1, <2>2, <2>3, <2>4
       DEF IndInv, ReaderKnows, AbortedAreOver, PublishedIsRegistered, ReaderMoves, BothOpen
  <2> QED
    BY <2>5, <2>6, <2>7 DEF IndInv
<1>5. CASE Ingest(s)
  <2>1. SessionsStay /\ ConnectionsStay /\ GatewayStays
    BY <1>5, Unmoved, Closing DEF Ingest
  <2>2. sess[s].reader = "read" /\ s \in file
    BY <1>5 DEF Ingest, IndInv, ReaderKnows
  <2>3. /\ UNCHANGED <<file, aborted, opened>> /\ published' \in [Session -> Nat]
        /\ \A t \in Session \ {s} : published'[t] = published[t]
    BY <1>1, <1>5 DEF Ingest, Shape
  <2>4. \A t \in Session : BothOpen(t)' => BothOpen(t)
    BY <2>1 DEF ConnectionsStay, BothOpen
  <2>5. Shape' /\ NoSessionUnlessServing'
    BY <1>1, <2>1, <2>3 DEF IndInv, Shape, NoSessionUnlessServing, SessionsStay, ConnectionsStay, GatewayStays
  <2>6. Numbered' /\ FileFollowsMap'
    BY <2>1, <2>3 DEF IndInv, Numbered, FileFollowsMap, SessionsStay, GatewayStays
  <2>7. ReaderKnows' /\ AbortedAreOver' /\ PublishedIsRegistered'
    BY <2>1, <2>2, <2>3, <2>4 DEF IndInv, ReaderKnows, AbortedAreOver, PublishedIsRegistered, SessionsStay
  <2> QED
    BY <2>5, <2>6, <2>7 DEF IndInv
<1>6. CASE NotifyAck(s)
  <2>1. SessionsStay
    BY <1>1, <1>6 DEF NotifyAck, Shape, SessionsStay
  <2>2. ConnectionsStay
    BY <1>6, Closing DEF NotifyAck
  <2> QED
    BY <1>6, <2>1, <2>2, Unmoved, NothingOpens DEF NotifyAck, pipeline
<1>7. CASE ReadFails(s)
  <2>1. ReaderMoves(s, "cleanup")
    BY <1>1, <1>7 DEF ReadFails, ReaderMoves, Shape
  <2>2. UNCHANGED <<conn, gw, file, published, aborted, opened>> /\ ~BothOpen(s)
        /\ sess[s].reader # "none"
    BY <1>7 DEF ReadFails, BothOpen, pipeline
  <2>3. Shape' /\ Numbered' /\ FileFollowsMap' /\ NoSessionUnlessServing'
    BY <1>1, <1>2, <2>1, <2>2
       DEF IndInv, Shape, Numbered, FileFollowsMap, NoSessionUnlessServing, ReaderMoves
  <2>4. ReaderKnows' /\ AbortedAreOver' /\ PublishedIsRegistered'
    BY <2>1, <2>2 DEF IndInv, ReaderKnows, AbortedAreOver, PublishedIsRegistered, ReaderMoves, BothOpen
  <2> QED
    BY <2>3, <2>4 DEF IndInv
<1>8. CASE PublishAborted(s)
  <2>1. sess[s].reader = "cleanup" /\ ~BothOpen(s)
    BY <1>8 DEF PublishAborted, IndInv, ReaderKnows
  <2>2. UNCHANGED <<conn, gw, file, published, opened>>
    BY <1>8 DEF PublishAborted
  <2>3. \/ ReaderMoves(s, "unregister") /\ aborted' = aborted \cup {s}
        \/ ReaderMoves(s, "remove") /\ aborted' = aborted
    BY <1>1, <1>8 DEF PublishAborted, ReaderMoves, Shape
  <2>4. Shape' /\ Numbered' /\ FileFollowsMap' /\ NoSessionUnlessServing'
    BY <1>1, <1>2, <2>1, <2>2, <2>3
       DEF IndInv, Shape, Numbered, FileFollowsMap, NoSessionUnlessServing, ReaderMoves
  <2>5. ReaderKnows' /\ AbortedAreOver' /\ PublishedIsRegistered'
    BY <2>1, <2>2, <2>3 DEF IndInv, ReaderKnows, AbortedAreOver, PublishedIsRegistered, ReaderMoves, BothOpen
  <2> QED
    BY <2>4, <2>5 DEF IndInv
<1>9. CASE UnregisterClient(s)
  <2>1. ReaderMoves(s, "remove")
    BY <1>1, <1>9 DEF UnregisterClient, ReaderMoves, Shape
  <2>2. UNCHANGED <<conn, published, aborted, opened>>
    BY <1>9 DEF UnregisterClient, pipeline
  <2>3. sess[s].reader = "unregister" /\ file' = gw.clients \ {s} /\ gw'.clients = gw.clients \ {s}
        /\ {"phase", "clients", "toAbort"} \subseteq DOMAIN gw'
        /\ gw'.phase = gw.phase /\ gw'.toAbort = gw.toAbort
    BY <1>1, <1>9 DEF UnregisterClient, Shape
  <2>4. file' = file \ {s} /\ gw.phase = "serving" /\ s \in aborted /\ ~BothOpen(s)
    BY <1>2, <2>3 DEF IndInv, FileFollowsMap, ReaderKnows
  <2>5. Shape' /\ NoSessionUnlessServing'
    BY <1>1, <2>1, <2>2, <2>3, <2>4 DEF Shape, NoSessionUnlessServing, ReaderMoves
  <2>6. Numbered' /\ FileFollowsMap'
    BY <1>2, <2>1, <2>2, <2>3, <2>4 DEF IndInv, Numbered, FileFollowsMap, ReaderMoves
  <2>7. ReaderKnows' /\ AbortedAreOver' /\ PublishedIsRegistered'
    BY <2>1, <2>2, <2>3, <2>4
       DEF IndInv, ReaderKnows, AbortedAreOver, PublishedIsRegistered, ReaderMoves, BothOpen
  <2> QED
    BY <2>5, <2>6, <2>7 DEF IndInv
<1>10. CASE RemoveClient(s)
  <2>1. ReaderMoves(s, "closed")
    BY <1>1, <1>10 DEF RemoveClient, ReaderMoves, Shape
  <2>2. ConnectionsStay /\ GatewayStays /\ UNCHANGED <<file, published, aborted, opened>>
    <3>1. GatewayStays
      BY <1>1, <1>10 DEF RemoveClient, Shape, GatewayStays
    <3> QED
      BY <1>10, <3>1, Closing DEF RemoveClient, pipeline
  <2>3. sess[s].reader = "remove" /\ ~BothOpen(s)
    BY <1>10 DEF RemoveClient, IndInv, ReaderKnows
  <2>4. \A t \in Session : BothOpen(t)' => BothOpen(t)
    BY <2>2 DEF ConnectionsStay, BothOpen
  <2>5. Shape' /\ Numbered' /\ FileFollowsMap' /\ NoSessionUnlessServing'
    BY <1>1, <1>2, <2>1, <2>2, <2>3
       DEF IndInv, Shape, Numbered, FileFollowsMap, NoSessionUnlessServing, ReaderMoves, ConnectionsStay,
           GatewayStays
  <2>6. ReaderKnows' /\ AbortedAreOver' /\ PublishedIsRegistered'
    BY <2>1, <2>2, <2>3, <2>4 DEF IndInv, ReaderKnows, AbortedAreOver, PublishedIsRegistered, ReaderMoves
  <2> QED
    BY <2>5, <2>6 DEF IndInv
<1> QED
  BY <1>3, <1>4, <1>5, <1>6, <1>7, <1>8, <1>9, <1>10 DEF Reader

-----------------------------------------------------------------------------
(* The gateway dies and comes back. *)

LEMMA CrashInd ==
  ASSUME IndInv, GatewayCrash
  PROVE  IndInv'
<1>1. Shape
  BY DEF IndInv
<1>2. \A s \in Session : conn'[s] = [conn[s] EXCEPT !.gwOpen = FALSE, !.toGateway = <<>>]
  BY <1>1 DEF GatewayCrash, GatewayCloses, Shape
<1>3. \A s \in Session : /\ {"clOpen", "gwOpen"} \subseteq DOMAIN conn'[s]
                          /\ conn'[s].clOpen = conn[s].clOpen /\ conn'[s].gwOpen = FALSE
  BY <1>1, <1>2 DEF Shape
<1>4. \A s \in Session : "reader" \in DOMAIN sess'[s] /\ sess'[s].reader = "none"
  BY DEF GatewayCrash, NewSession
<1>5. /\ UNCHANGED <<file, published, aborted, opened>>
      /\ gw' = [phase |-> "down", clients |-> {}, registry |-> {}, toAbort |-> {}, hand |-> <<>>]
      /\ DOMAIN sess' = Session /\ DOMAIN conn' = Session
  BY DEF GatewayCrash, pipeline
<1>6. Shape'
  BY <1>1, <1>3, <1>4, <1>5 DEF Shape
<1>7. Numbered' /\ FileFollowsMap' /\ NoSessionUnlessServing'
  BY <1>3, <1>4, <1>5 DEF IndInv, Numbered, FileFollowsMap, NoSessionUnlessServing
<1>8. ReaderKnows' /\ AbortedAreOver' /\ PublishedIsRegistered'
  BY <1>3, <1>4, <1>5 DEF IndInv, ReaderKnows, AbortedAreOver, PublishedIsRegistered, BothOpen
<1> QED
  BY <1>6, <1>7, <1>8 DEF IndInv

LEMMA ReviveInd ==
  ASSUME IndInv, Revive
  PROVE  IndInv'
<1>1. Shape
  BY DEF IndInv
<1>2. CASE Start
  <2>1. /\ gw.phase = "down" /\ UNCHANGED <<conn, sess, file, published, aborted, opened>>
        /\ {"phase", "clients", "toAbort"} \subseteq DOMAIN gw'
        /\ gw'.phase = "reviving" /\ gw'.clients = file /\ gw'.toAbort = file
    BY <1>1, <1>2 DEF Start, Shape, pipeline
  <2> QED
    BY <1>1, <2>1 DEF IndInv, Shape, Numbered, FileFollowsMap, NoSessionUnlessServing, ReaderKnows,
       AbortedAreOver, PublishedIsRegistered, BothOpen
<1>3. CASE Revived
  <2>1. /\ gw.phase = "reviving" /\ gw.toAbort = {} /\ file' = {}
        /\ UNCHANGED <<conn, sess, published, aborted, opened>>
        /\ {"phase", "clients", "toAbort"} \subseteq DOMAIN gw'
        /\ gw'.phase = "serving" /\ gw'.clients = {} /\ gw'.toAbort = {}
    BY <1>1, <1>3 DEF Revived, Shape, pipeline
  <2>2. file \subseteq aborted /\ \A s \in Session : sess[s].reader = "none"
    BY <2>1 DEF IndInv, FileFollowsMap, NoSessionUnlessServing
  <2> QED
    BY <1>1, <2>1, <2>2 DEF IndInv, Shape, Numbered, FileFollowsMap, NoSessionUnlessServing, ReaderKnows,
       AbortedAreOver, PublishedIsRegistered, BothOpen
<1>4. ASSUME NEW s \in Session, AbortPrevious(s) PROVE IndInv'
  <2>1. /\ s \in gw.toAbort /\ aborted' = aborted \cup {s}
        /\ UNCHANGED <<conn, sess, file, published, opened>>
        /\ {"phase", "clients", "toAbort"} \subseteq DOMAIN gw'
        /\ gw'.phase = gw.phase /\ gw'.clients = gw.clients /\ gw'.toAbort = gw.toAbort \ {s}
    BY <1>1, <1>4 DEF AbortPrevious, Shape
  <2>2. gw.phase = "reviving" /\ ~BothOpen(s)
    BY <1>1, <2>1 DEF IndInv, Shape, FileFollowsMap, NoSessionUnlessServing, BothOpen
  <2>3. Shape' /\ Numbered' /\ FileFollowsMap' /\ NoSessionUnlessServing'
    BY <1>1, <2>1, <2>2 DEF IndInv, Shape, Numbered, FileFollowsMap, NoSessionUnlessServing
  <2>4. ReaderKnows' /\ AbortedAreOver' /\ PublishedIsRegistered'
    BY <2>1, <2>2 DEF IndInv, ReaderKnows, AbortedAreOver, PublishedIsRegistered, BothOpen
  <2> QED
    BY <2>3, <2>4 DEF IndInv
<1> QED
  BY <1>2, <1>3, <1>4 DEF Revive

-----------------------------------------------------------------------------
LEMMA NextInd == IndInv /\ [Next]_vars => IndInv'
<1> SUFFICES ASSUME IndInv, [Next]_vars PROVE IndInv'
  OBVIOUS
<1>1. ASSUME NEW c \in Client, Accept(c) \/ ClientStep(c) PROVE IndInv'
  BY <1>1, AcceptInd, ClientInd
<1>2. ASSUME NEW s \in Session, Reader(s) \/ Output(s) \/ Produce(s) \/ Break(s) PROVE IndInv'
  BY <1>2, ReaderInd, OutputInd, OutsideInd
<1>3. ASSUME NEW s \in Session, NEW k \in SeqID, Repeat(s, k) PROVE IndInv'
  BY <1>3, OutsideInd
<1>4. CASE UNCHANGED vars
  BY <1>4, Unmoved, NothingOpens DEF vars
<1> QED
  BY <1>1, <1>2, <1>3, <1>4, ConsumeInd, ReviveInd, CrashInd DEF Next

LEMMA Invariant == Spec => []IndInv
  BY InitInd, NextInd, PTL DEF Spec

(* However often the gateway dies, also while it aborts the clients of the   *)
(* run before (abortPreviousClients), and whichever client goes first: what  *)
(* the pipeline has of a session and was not told to give up is in           *)
(* clients.json, so that the next start can give it up.                      *)
THEOREM PublishedRegistered == Spec => []PublishedIsRegistered
  BY Invariant, IndInvSuffices, PTL

(* No ClientAborted is published for a session that a client can go on with  *)
(* (cleanupClientSession, abortPreviousClients): never is the work of a      *)
(* client thrown away that would still wait for its results.                 *)
THEOREM AbortedOver == Spec => []AbortedIsOver
  BY Invariant, IndInvSuffices, PTL

-----------------------------------------------------------------------------
HIDE ConstantsAssumption

(* Part two: the delivery of results.  Of each session that a client reads   *)
(* from there is a number m and a place a such that the batches up to m were *)
(* taken from the FINAL queue, those after m are still in it, each behind    *)
(* the one before it, and pending, next, queue and the delivery in hand      *)
(* continue each other from a to the end of batch m.  The client has what    *)
(* comes before a, or has read pending as well and its acknowledgement is on *)
(* its way (Delivering); once the gateway has given up the session, it reads *)
(* on from a (Ending).                                                       *)

(* What the constants say: items, their order, and how far a client has      *)
(* come.                                                                     *)

(* The place after an item, and the places that a reader can have come to. *)
After(d) == IF d[2] < Len(Results[d[1]]) THEN <<d[1], d[2] + 1>> ELSE <<d[1] + 1, 1>>
Points == Items \cup {<<Len(Results) + 1, 1>>}

(* The items of q follow each other from place a on, up to End(q, a). *)
Runs(q, a) ==
  /\ q # <<>> => q[1] = a
  /\ \A i \in 1 .. Len(q) - 1 : q[i + 1] = After(q[i])
End(q, a) == IF q = <<>> THEN a ELSE After(q[Len(q)])

HasRows(cl, q, p) == /\ ToSet(cl.rows[q]) = {d \in RowsOf(q) : Before(d, p)}
                     /\ InOrder(cl.rows[q])
HasEnd(q, p) == \E d \in Items : Item(d).query = q /\ IsEOF(d) /\ Before(d, p)

(* The files of a client that has got what comes before p. *)
Has(cl, p) ==
  \A q \in Query : /\ HasRows(cl, q, p)
                   /\ q \in cl.eofs <=> HasEnd(q, p)
                   /\ q \in cl.open <=> q \notin cl.eofs /\ cl.rows[q] # <<>>

ClientState == [phase : {"idle", "connect", "send", "wait", "results", "done"},
                sid : Session \cup {0}, sent : 0 .. Messages,
                rows : [Query -> Seq(Items)], open : SUBSET Query, eofs : SUBSET Query]

(* Induction over the naturals, for a set in place of a predicate. *)
LEMMA LeastNumber ==
  ASSUME NEW S, S \subseteq Nat, S # {}
  PROVE  \E n \in S : \A m \in S : n <= m
<1>1. PICK n \in S : \A m \in S : <<m, n>> \notin OpToRel(<, Nat)
  BY WFMin, NatLessThanWellFounded, Zenon
<1>2. \A m \in S : ~ (m < n)
  BY <1>1, Zenon DEF OpToRel
<1> QED
  BY <1>2

(* Induction over the naturals, for a set in place of a predicate. *)
LEMMA Induction ==
  ASSUME NEW S, 0 \in S, \A n \in S \cap Nat : n + 1 \in S
  PROVE  Nat \subseteq S
<1> SUFFICES ASSUME Nat \ S # {} PROVE FALSE
  OBVIOUS
<1>1. PICK n \in Nat \ S : \A m \in Nat \ S : n <= m
  BY LeastNumber, Zenon
<1>2. n # 0 /\ n \in Nat /\ n \notin S
  BY <1>1
<1>3. PICK m \in Nat : n = m + 1
  <2>1. n - 1 \in Nat /\ n = (n - 1) + 1
    BY <1>2
  <2> QED
    BY <2>1
<1>4. m \in S
  BY <1>1, <1>3
<1> QED
  BY <1>2, <1>3, <1>4

(* What the assumptions say about Results and its batches. *)
LEMMA ResultsAre ==
  /\ Len(Results) \in Nat \ {0} /\ SeqID = 1 .. Len(Results) /\ IsFiniteSet(SeqID)
  /\ \A k \in SeqID : Results[k] \in Seq([query : Nat, eof : BOOLEAN]) /\ Len(Results[k]) \in Nat \ {0}
  /\ \A k \in SeqID : \A j \in 1 .. Len(Results[k]) :
       /\ Results[k][j].query \in Query /\ Results[k][j].eof \in BOOLEAN
<1>1. Len(Results) \in Nat \ {0} /\ SeqID = 1 .. Len(Results)
  BY ResultsAssumption DEF ResultsAssumption, SeqID
<1>2. IsFiniteSet(SeqID)
  BY <1>1, FS_Interval
<1>3. \A k \in SeqID : Results[k] \in Seq([query : Nat, eof : BOOLEAN]) /\ Results[k] # <<>>
  BY <1>1, ResultsAssumption DEF ResultsAssumption
<1>4. \A k \in SeqID : Len(Results[k]) \in Nat \ {0}
  BY <1>3
<1>5. ASSUME NEW k \in SeqID, NEW j \in 1 .. Len(Results[k])
      PROVE  Results[k][j].query \in Query /\ Results[k][j].eof \in BOOLEAN
  <2>1. Results[k][j] \in [query : Nat, eof : BOOLEAN]
    BY <1>3, ElementOfSeq
  <2>2. Results[k][j] \in ToSet(Results[k])
    BY <1>3 DEF ToSet
  <2>3. Results[k][j] \in UNION {ToSet(Results[i]) : i \in SeqID}
    BY <2>2
  <2> QED
    BY <2>1, <2>3 DEF Query
<1> QED
  BY <1>1, <1>2, <1>3, <1>4, <1>5

(* An item is a batch and a place in it. *)
LEMMA ItemsAre ==
  /\ \A k \in SeqID : \A j \in 1 .. Len(Results[k]) : <<k, j>> \in Items
  /\ \A d \in Items : /\ d[1] \in SeqID /\ d[2] \in 1 .. Len(Results[d[1]]) /\ d = <<d[1], d[2]>>
                      /\ Item(d).query \in Query /\ IsEOF(d) \in BOOLEAN
<1>1. \A k \in SeqID : \A j \in 1 .. Len(Results[k]) : <<k, j>> \in Items
  BY DEF Items
<1>2. ASSUME NEW d \in Items
      PROVE  d[1] \in SeqID /\ d[2] \in 1 .. Len(Results[d[1]]) /\ d = <<d[1], d[2]>>
  <2>1. PICK k \in SeqID : d \in {k} \X (1 .. Len(Results[k]))
    BY DEF Items
  <2> QED
    BY <2>1
<1>3. \A d \in Items : Item(d).query \in Query /\ IsEOF(d) \in BOOLEAN
  BY <1>2, ResultsAre DEF Item, IsEOF
<1> QED
  BY <1>1, <1>2, <1>3

(* The first point, and the ones that follow items and batches. *)
LEMMA PointsAre ==
  /\ <<1, 1>> \in Points
  /\ \A d \in Items : After(d) \in Points
  /\ \A p \in Points : p[1] \in Nat /\ p[2] \in Nat /\ p = <<p[1], p[2]>>
  /\ \A k \in SeqID : <<k + 1, 1>> \in Points
<1>1. ASSUME NEW k \in SeqID PROVE <<k + 1, 1>> \in Points
  <2>1. CASE k = Len(Results)
    BY <2>1 DEF Points
  <2>2. CASE k # Len(Results)
    <3>1. k + 1 \in SeqID
      BY <2>2, ResultsAre
    <3>2. 1 \in 1 .. Len(Results[k + 1])
      BY <3>1, ResultsAre
    <3> QED
      BY <3>1, <3>2, ItemsAre DEF Points
  <2> QED
    BY <2>1, <2>2
<1>2. <<1, 1>> \in Points
  <2>1. 1 \in SeqID
    BY ResultsAre
  <2>2. 1 \in 1 .. Len(Results[1])
    BY <2>1, ResultsAre
  <2> QED
    BY <2>1, <2>2, ItemsAre DEF Points
<1>3. ASSUME NEW d \in Items PROVE After(d) \in Points
  <2>1. d[1] \in SeqID /\ d[2] \in 1 .. Len(Results[d[1]]) /\ Len(Results[d[1]]) \in Nat
    BY ItemsAre, ResultsAre
  <2>2. CASE d[2] < Len(Results[d[1]])
    <3>1. d[2] + 1 \in 1 .. Len(Results[d[1]])
      BY <2>1, <2>2
    <3> QED
      BY <2>1, <2>2, <3>1, ItemsAre DEF After, Points
  <2>3. CASE ~(d[2] < Len(Results[d[1]]))
    BY <1>1, <2>1, <2>3 DEF After
  <2> QED
    BY <2>2, <2>3
<1>4. ASSUME NEW p \in Points PROVE p[1] \in Nat /\ p[2] \in Nat /\ p = <<p[1], p[2]>>
  <2>1. CASE p \in Items
    BY <2>1, ItemsAre, ResultsAre
  <2>2. CASE p = <<Len(Results) + 1, 1>>
    BY <2>2, ResultsAre
  <2> QED
    BY <2>1, <2>2 DEF Points
<1> QED
  BY <1>1, <1>2, <1>3, <1>4

(* Before, of pairs of numbers. *)
LEMMA Pairs ==
  \A k, j, n, i \in Nat : Before(<<k, j>>, <<n, i>>) <=> k < n \/ (k = n /\ j < i)
  BY DEF Before

(* The place after an item: the next one of its batch, or the first one of   *)
(* the next batch.                                                           *)
LEMMA Afters ==
  ASSUME NEW k \in Nat, NEW j \in Nat
  PROVE  /\ j < Len(Results[k]) => After(<<k, j>>) = <<k, j + 1>>
         /\ ~(j < Len(Results[k])) => After(<<k, j>>) = <<k + 1, 1>>
         /\ j + 1 \in Nat /\ k + 1 \in Nat /\ 1 \in Nat
  BY DEF After

(* The items and points are ordered by Before, and nothing is between an     *)
(* item and what comes after it.                                             *)
LEMMA Order ==
  ASSUME NEW d \in Items, NEW p \in Points
  PROVE  /\ ~Before(d, d)
         /\ \A e \in Points : Before(d, e) /\ Before(e, p) => Before(d, p)
         /\ p \in Items => (Before(d, After(p)) <=> Before(d, p) \/ d = p)
         /\ Before(d, p) \/ d = p \/ Before(p, d)
         /\ Before(d, p) => ~Before(p, d)
         /\ Before(d, After(d))
         /\ ~Before(d, <<1, 1>>)
<1>1. PICK k \in SeqID, j \in Nat : d = <<k, j>> /\ j \in 1 .. Len(Results[k])
  BY ItemsAre
<1>2. PICK n \in Nat, i \in Nat : p = <<n, i>>
  BY PointsAre
<1>3. k \in Nat /\ k >= 1 /\ Len(Results[k]) \in Nat
  BY ResultsAre
<1>4. Before(d, p) <=> k < n \/ (k = n /\ j < i)
  BY <1>1, <1>2, <1>3, Pairs
<1>5. Before(p, d) <=> n < k \/ (k = n /\ i < j)
  BY <1>1, <1>2, <1>3, Pairs
<1>6. ASSUME p \in Items PROVE Before(d, After(p)) <=> Before(d, p) \/ d = p
  <2>1. n \in SeqID /\ i \in 1 .. Len(Results[n]) /\ Len(Results[n]) \in Nat
    BY <1>2, <1>6, ItemsAre, ResultsAre
  <2>2. d = p <=> k = n /\ j = i
    BY <1>1, <1>2
  <2>3. CASE i < Len(Results[n])
    <3>1. After(p) = <<n, i + 1>> /\ i + 1 \in Nat
      BY <1>2, <2>3, Afters
    <3>2. Before(d, <<n, i + 1>>) <=> k < n \/ (k = n /\ j < i + 1)
      BY <1>1, <1>2, <1>3, <3>1, Pairs, Afters
    <3>3. Before(d, After(p)) <=> k < n \/ (k = n /\ j < i + 1)
      BY <3>1, <3>2, Zenon
    <3>4. (k < n \/ (k = n /\ j < i + 1)) <=> k < n \/ (k = n /\ j < i) \/ (k = n /\ j = i)
      BY <1>2, <1>3, <1>1
    <3> QED
      BY <1>4, <2>2, <3>3, <3>4, Zenon
  <2>4. CASE ~(i < Len(Results[n]))
    <3>1. After(p) = <<n + 1, 1>> /\ n + 1 \in Nat
      BY <1>2, <2>4, Afters
    <3>2. Before(d, <<n + 1, 1>>) <=> k < n + 1 \/ (k = n + 1 /\ j < 1)
      BY <1>1, <1>2, <1>3, <3>1, Pairs, Afters
    <3>3. i = Len(Results[n])
      BY <2>1, <2>4
    <3>4. k = n => j <= i
      BY <1>1, <3>3
    <3>5. Before(d, After(p)) <=> k < n + 1 \/ (k = n + 1 /\ j < 1)
      BY <3>1, <3>2, Zenon
    <3>6. (k < n + 1 \/ (k = n + 1 /\ j < 1)) <=> k < n \/ (k = n /\ j < i) \/ (k = n /\ j = i)
      BY <1>1, <1>2, <1>3, <3>4
    <3> QED
      BY <1>4, <2>2, <3>5, <3>6, Zenon
  <2> QED
    BY <2>3, <2>4
<1>7. ASSUME NEW e \in Points, Before(d, e), Before(e, p) PROVE Before(d, p)
  <2>1. PICK a \in Nat, b \in Nat : e = <<a, b>>
    BY PointsAre
  <2>2. k < a \/ (k = a /\ j < b)
    BY <1>1, <1>3, <1>7, <2>1, Pairs
  <2>3. a < n \/ (a = n /\ b < i)
    BY <1>2, <1>7, <2>1, Pairs
  <2> QED
    BY <1>3, <1>4, <2>2, <2>3
<1>8. ~Before(d, d) /\ ~Before(d, <<1, 1>>)
  <2>1. Before(d, d) <=> k < k \/ (k = k /\ j < j)
    BY <1>1, <1>3, Pairs
  <2>2. Before(d, <<1, 1>>) <=> k < 1 \/ (k = 1 /\ j < 1)
    BY <1>1, <1>3, Pairs
  <2> QED
    BY <1>1, <1>3, <2>1, <2>2
<1>9. Before(d, After(d))
  <2>1. CASE j < Len(Results[k])
    <3>1. After(d) = <<k, j + 1>> /\ j + 1 \in Nat
      BY <1>1, <1>3, <2>1, Afters
    <3>2. Before(d, <<k, j + 1>>) <=> k < k \/ (k = k /\ j < j + 1)
      BY <1>1, <1>2, <1>3, <3>1, Pairs, Afters
    <3> QED
      BY <1>3, <3>1, <3>2
  <2>2. CASE ~(j < Len(Results[k]))
    <3>1. After(d) = <<k + 1, 1>> /\ k + 1 \in Nat
      BY <1>1, <1>3, <2>2, Afters
    <3>2. Before(d, <<k + 1, 1>>) <=> k < k + 1 \/ (k = k + 1 /\ j < 1)
      BY <1>1, <1>2, <1>3, <3>1, Pairs, Afters
    <3> QED
      BY <1>3, <3>1, <3>2
  <2> QED
    BY <2>1, <2>2
<1>10. Before(d, p) \/ d = p \/ Before(p, d)
  BY <1>1, <1>2, <1>3, <1>4, <1>5
<1>11. Before(d, p) => ~Before(p, d)
  BY <1>3, <1>4, <1>5
<1> QED
  BY <1>6, <1>7, <1>8, <1>9, <1>10, <1>11

(* A set of numbers up to n has a greatest element. *)
LEMMA Greatest ==
  ASSUME NEW n \in Nat, NEW t \in SUBSET (1 .. n), t # {}
  PROVE  Max(t) \in t /\ \A x \in t : x <= Max(t)
<1> DEFINE S == {n - x : x \in t}
<1>1. S \subseteq Nat /\ S # {}
  <2>1. \A x \in t : n - x \in Nat
    OBVIOUS
  <2>2. PICK x \in t : TRUE
    OBVIOUS
  <2> QED
    BY <2>1, <2>2
<1> HIDE DEF S
<1>2. PICK m \in S : \A x \in S : m <= x
  BY <1>1, LeastNumber
<1>3. \E y \in t : \A x \in t : y >= x
  BY <1>2 DEF S
<1>4. Max(t) = CHOOSE y \in t : \A x \in t : y >= x
  BY DEF Max
<1>5. Max(t) \in t /\ \A x \in t : Max(t) >= x
  BY <1>3, <1>4
<1> QED
  BY <1>5

(* What a client has after the items of q. *)
Received(cl, q) == FoldLeft(Written, cl, q)

(* g[i] is what it has after the first i of them. *)
Folds(g, cl, q, n) ==
  /\ g[0] = cl
  /\ \A i \in 1 .. n : g[i] = Written(g[i - 1], q[i])
  /\ Received(cl, q) = g[n]

(* FoldLeft goes through the items one after the other. *)
LEMMA Folding ==
  ASSUME NEW cl, NEW q, NEW n \in Nat, DOMAIN q = 1 .. n
  PROVE  \E g : Folds(g, cl, q, n)
<1> DEFINE D == 1 .. n
           Less(t) == t \ {Max(t)}
           W(f, t) == IF t = {} THEN cl ELSE Written(f[Less(t)], q[Max(t)])
           Upto(k) == {t \in SUBSET D : Cardinality(t) <= k}
           Solves(f, k) == \A t \in Upto(k) : f[t] = W(f, t)
           S == {k \in Nat : \E f : Solves(f, k)}
           Iter == CHOOSE f : f = [t \in SUBSET D |-> IF t = {} THEN cl ELSE Written(f[t \ {Max(t)}], q[Max(t)])]
<1>1. Received(cl, q) = Iter[1 .. n]
  BY DEF Received, FoldLeft, MapThenFoldSet
<1> HIDE DEF Iter
<1>2. IsFiniteSet(D) /\ Cardinality(D) = n
  BY FS_Interval
<1>3. \A t \in SUBSET D : IsFiniteSet(t) /\ Cardinality(t) \in Nat /\ Cardinality(t) <= n
  BY <1>2, FS_Subset, FS_CardinalityType
<1>4. \A t \in SUBSET D : t # {} => /\ Less(t) \in SUBSET D /\ Cardinality(Less(t)) = Cardinality(t) - 1
  <2> SUFFICES ASSUME NEW t \in SUBSET D, t # {}
               PROVE  Less(t) \in SUBSET D /\ Cardinality(Less(t)) = Cardinality(t) - 1
    OBVIOUS
  <2>1. Max(t) \in t
    BY Greatest
  <2> QED
    BY <1>3, <2>1, FS_RemoveElement
<1> HIDE DEF D, Less
<1>5. 0 \in S
  <2> DEFINE f == [t \in SUBSET D |-> cl]
  <2>1. ASSUME NEW t \in Upto(0) PROVE f[t] = W(f, t)
    <3>1. t = {}
      BY <1>3, FS_EmptySet
    <3> QED
      BY <3>1
  <2> HIDE DEF f, W, Upto
  <2> QED
    BY <2>1
<1>6. ASSUME NEW k \in S \cap Nat PROVE k + 1 \in S
  <2>1. PICK f : Solves(f, k)
    OBVIOUS
  <2> DEFINE h == [t \in SUBSET D |-> W(f, t)]
  <2>2. ASSUME NEW t \in Upto(k + 1) PROVE h[t] = W(h, t)
    <3>1. t \in SUBSET D
      OBVIOUS
    <3>2. h[t] = W(f, t)
      BY <3>1
    <3>3. CASE t = {}
      BY <3>2, <3>3
    <3>4. CASE t # {}
      <4>1. Less(t) \in Upto(k)
        BY <1>3, <1>4, <3>1, <3>4
      <4>2. f[Less(t)] = W(f, Less(t))
        BY <2>1, <4>1
      <4>3. h[Less(t)] = W(f, Less(t))
        BY <4>1
      <4> HIDE DEF h
      <4> QED
        BY <3>2, <3>4, <4>2, <4>3
    <3> QED
      BY <3>3, <3>4
  <2> HIDE DEF h, W, Upto
  <2>3. Solves(h, k + 1)
    BY <2>2
  <2> QED
    BY <2>3
<1> HIDE DEF S
<1>7. n \in S
  BY <1>5, <1>6, Induction
<1>8. PICK f : Solves(f, n)
  BY <1>7 DEF S
<1>9. \E h : h = [t \in SUBSET D |-> W(h, t)]
  <2> DEFINE h == [t \in SUBSET D |-> f[t]]
  <2>1. ASSUME NEW t \in SUBSET D PROVE h[t] = W(h, t)
    <3>1. t \in Upto(n)
      BY <1>3
    <3>2. h[t] = W(f, t)
      BY <1>8, <3>1
    <3>3. t # {} => h[Less(t)] = f[Less(t)]
      BY <1>4
    <3> HIDE DEF h
    <3> QED
      BY <3>2, <3>3
  <2>2. h = [t \in SUBSET D |-> h[t]]
    OBVIOUS
  <2> HIDE DEF h, W
  <2>3. h = [t \in SUBSET D |-> W(h, t)]
    BY <2>1, <2>2
  <2> QED
    BY <2>3
<1>10. Iter = [t \in SUBSET D |-> W(Iter, t)]
  <2>1. Iter = CHOOSE h : h = [t \in SUBSET D |-> W(h, t)]
    BY DEF Iter, Less
  <2> QED
    BY <1>9, <2>1
<1>11. \A t \in SUBSET D : Iter[t] = W(Iter, t)
  <2> HIDE DEF W
  <2> QED
    BY <1>10
<1> DEFINE g == [i \in 0 .. n |-> Iter[1 .. i]]
<1>12. g[0] = cl
  <2>1. 1 .. 0 = {} /\ {} \in SUBSET D
    OBVIOUS
  <2>2. g[0] = Iter[{}]
    BY <2>1
  <2> QED
    BY <1>11, <2>1, <2>2
<1>13. ASSUME NEW i \in 1 .. n PROVE g[i] = Written(g[i - 1], q[i])
  <2>1. 1 .. i \in SUBSET D /\ 1 .. i # {} /\ 1 .. i \in SUBSET (1 .. n)
    <3>1. i \in 1 .. i /\ \A x \in 1 .. i : x \in 1 .. n
      OBVIOUS
    <3> QED
      BY <3>1 DEF D
  <2>2. Max(1 .. i) = i
    <3>1. Max(1 .. i) \in 1 .. i /\ \A x \in 1 .. i : x <= Max(1 .. i)
      BY <2>1, Greatest
    <3> QED
      BY <3>1
  <2>3. Less(1 .. i) = 1 .. i - 1
    BY <2>2 DEF Less
  <2>4. Iter[1 .. i] = Written(Iter[1 .. i - 1], q[i])
    BY <1>11, <2>1, <2>2, <2>3
  <2>5. g[i] = Iter[1 .. i] /\ g[i - 1] = Iter[1 .. i - 1]
    OBVIOUS
  <2> QED
    BY <2>4, <2>5
<1>14. g[n] = Iter[1 .. n]
  OBVIOUS
<1> HIDE DEF g
<1> QED
  BY <1>1, <1>12, <1>13, <1>14 DEF Folds

(* The rows of query q that a client has at place d, written on. *)
Kept(cl, q) == IF q \in cl.open THEN cl.rows[q] ELSE <<>>

(* consumeQueryResult writes one item to the files of its query, and leaves  *)
(* those of the others alone.                                                *)
LEMMA WrittenIs ==
  ASSUME NEW cl \in ClientState, NEW d \in Items
  PROVE  LET w == Written(cl, d)
             q == Item(d).query
         IN /\ w \in ClientState /\ w.phase = cl.phase /\ w.sid = cl.sid /\ w.sent = cl.sent
            /\ \A r \in Query \ {q} : /\ w.rows[r] = cl.rows[r]
                                      /\ r \in w.eofs <=> r \in cl.eofs
                                      /\ r \in w.open <=> r \in cl.open
            /\ IF IsEOF(d) THEN w.rows[q] = Kept(cl, q) /\ q \in w.eofs /\ q \notin w.open
               ELSE w.rows[q] = Append(Kept(cl, q), d) /\ (q \in w.eofs <=> q \in cl.eofs) /\ q \in w.open
<1> DEFINE w == Written(cl, d)
           q == Item(d).query
<1>1. q \in Query /\ IsEOF(d) \in BOOLEAN
  BY ItemsAre
<1>2. /\ cl.rows \in [Query -> Seq(Items)] /\ cl.open \in SUBSET Query /\ cl.eofs \in SUBSET Query
      /\ cl.phase \in {"idle", "connect", "send", "wait", "results", "done"}
      /\ cl.sid \in Session \cup {0} /\ cl.sent \in 0 .. Messages
  BY DEF ClientState
<1>3. Kept(cl, q) \in Seq(Items) /\ Append(Kept(cl, q), d) \in Seq(Items)
  BY <1>1, <1>2 DEF Kept
<1>4. CASE IsEOF(d)
  <2>1. w = [cl EXCEPT !.rows[q] = Kept(cl, q), !.open = cl.open \ {q}, !.eofs = cl.eofs \cup {q}]
    BY <1>4 DEF Written, Kept
  <2> HIDE DEF w, q
  <2>2. /\ w.phase = cl.phase /\ w.sid = cl.sid /\ w.sent = cl.sent
        /\ w.rows = [cl.rows EXCEPT ![q] = Kept(cl, q)] /\ w.open = cl.open \ {q} /\ w.eofs = cl.eofs \cup {q}
    BY <2>1 DEF ClientState
  <2>3. w.rows \in [Query -> Seq(Items)] /\ w.open \in SUBSET Query /\ w.eofs \in SUBSET Query
    BY <1>1, <1>2, <1>3, <2>2
  <2>4. w \in ClientState
    BY <1>2, <2>1, <2>2, <2>3 DEF ClientState
  <2> QED
    BY <1>1, <1>2, <1>4, <2>2, <2>4 DEF w, q
<1>5. CASE ~IsEOF(d)
  <2>1. w = [cl EXCEPT !.rows[q] = Append(Kept(cl, q), d), !.open = cl.open \cup {q}]
    BY <1>5 DEF Written, Kept
  <2> HIDE DEF w, q
  <2>2. /\ w.phase = cl.phase /\ w.sid = cl.sid /\ w.sent = cl.sent
        /\ w.rows = [cl.rows EXCEPT ![q] = Append(Kept(cl, q), d)] /\ w.open = cl.open \cup {q} /\ w.eofs = cl.eofs
    BY <2>1 DEF ClientState
  <2>3. w.rows \in [Query -> Seq(Items)] /\ w.open \in SUBSET Query /\ w.eofs \in SUBSET Query
    BY <1>1, <1>2, <1>3, <2>2
  <2>4. w \in ClientState
    BY <1>2, <2>1, <2>2, <2>3 DEF ClientState
  <2> QED
    BY <1>1, <1>2, <1>5, <2>2, <2>4 DEF w, q
<1> QED
  BY <1>1, <1>4, <1>5

(* No item of a query comes after its end. *)
LEMMA NothingAfterEnd ==
  ASSUME NEW d \in Items, NEW e \in Items, IsEOF(e), Item(d).query = Item(e).query
  PROVE  ~Before(e, d)
<1>1. PICK k \in SeqID, i \in Nat : e = <<k, i>> /\ i \in 1 .. Len(Results[k])
  BY ItemsAre
<1>2. PICK n \in SeqID, j \in Nat : d = <<n, j>> /\ j \in 1 .. Len(Results[n])
  BY ItemsAre
<1>3. n < k \/ (n = k /\ j <= i)
  <2>1. Results[k][i].eof /\ Results[k][i].query = Results[n][j].query
    BY <1>1, <1>2 DEF IsEOF, Item
  <2> QED
    BY <1>1, <1>2, <2>1, EndIsLast DEF EndIsLast
<1>4. Before(e, d) <=> k < n \/ (k = n /\ i < j)
  BY <1>1, <1>2, ResultsAre, Pairs
<1> QED
  BY <1>1, <1>2, <1>3, <1>4, ResultsAre

(* What a client has when it has written what comes next. *)
LEMMA WrittenHas ==
  ASSUME NEW cl \in ClientState, NEW d \in Items, Has(cl, d)
  PROVE  Has(Written(cl, d), After(d))
<1> DEFINE w == Written(cl, d)
           q == Item(d).query
<1>1. /\ w \in ClientState /\ q \in Query
      /\ \A r \in Query \ {q} : /\ w.rows[r] = cl.rows[r]
                                /\ r \in w.eofs <=> r \in cl.eofs
                                /\ r \in w.open <=> r \in cl.open
      /\ IF IsEOF(d) THEN w.rows[q] = Kept(cl, q) /\ q \in w.eofs /\ q \notin w.open
         ELSE w.rows[q] = Append(Kept(cl, q), d) /\ (q \in w.eofs <=> q \in cl.eofs) /\ q \in w.open
  BY WrittenIs, ItemsAre
<1> HIDE DEF w
<1>2. d \in Points /\ After(d) \in Points
  BY PointsAre DEF Points
<1>3. \A e \in Items : Before(e, After(d)) <=> Before(e, d) \/ e = d
  BY <1>2, Order
<1>4. ASSUME NEW r \in Query, r # q
      PROVE  /\ HasRows(w, r, After(d)) /\ (r \in w.eofs <=> HasEnd(r, After(d)))
             /\ (r \in w.open <=> r \notin w.eofs /\ w.rows[r] # <<>>)
  <2>1. /\ HasRows(cl, r, d) /\ (r \in cl.eofs <=> HasEnd(r, d))
        /\ (r \in cl.open <=> r \notin cl.eofs /\ cl.rows[r] # <<>>)
    BY DEF Has
  <2>2. \A e \in Items : Item(e).query = r => (Before(e, After(d)) <=> Before(e, d))
    BY <1>3, <1>4
  <2>3. HasEnd(r, After(d)) <=> HasEnd(r, d)
    BY <2>2 DEF HasEnd
  <2>4. {e \in RowsOf(r) : Before(e, After(d))} = {e \in RowsOf(r) : Before(e, d)}
    BY <2>2 DEF RowsOf
  <2>5. HasRows(w, r, After(d))
    BY <1>1, <1>4, <2>1, <2>4 DEF HasRows
  <2> QED
    BY <1>1, <1>4, <2>1, <2>3, <2>5
<1>5. /\ HasRows(cl, q, d) /\ (q \in cl.eofs <=> HasEnd(q, d))
      /\ (q \in cl.open <=> q \notin cl.eofs /\ cl.rows[q] # <<>>)
  BY <1>1 DEF Has
<1>6. ~HasEnd(q, d)
  BY NothingAfterEnd DEF HasEnd
<1>7. Kept(cl, q) = cl.rows[q] /\ cl.rows[q] \in Seq(Items)
  BY <1>1, <1>5, <1>6 DEF Kept, ClientState
<1>8. CASE IsEOF(d)
  <2>1. w.rows[q] = cl.rows[q] /\ q \in w.eofs /\ q \notin w.open
    BY <1>1, <1>7, <1>8
  <2>2. HasEnd(q, After(d))
    BY <1>3, <1>8 DEF HasEnd
  <2>3. {e \in RowsOf(q) : Before(e, After(d))} = {e \in RowsOf(q) : Before(e, d)}
    BY <1>3, <1>8 DEF RowsOf
  <2>4. HasRows(w, q, After(d))
    BY <1>5, <2>1, <2>3 DEF HasRows
  <2> QED
    BY <1>4, <2>1, <2>2, <2>4 DEF Has, w
<1>9. CASE ~IsEOF(d)
  <2>1. w.rows[q] = Append(cl.rows[q], d) /\ q \notin w.eofs /\ q \in w.open
    BY <1>1, <1>5, <1>6, <1>7, <1>9
  <2>2. ~HasEnd(q, After(d))
    BY <1>3, <1>6, <1>9 DEF HasEnd
  <2>3. d \in RowsOf(q)
    BY <1>9 DEF RowsOf
  <2>4. {e \in RowsOf(q) : Before(e, After(d))} = {e \in RowsOf(q) : Before(e, d)} \cup {d}
    BY <1>3, <2>3 DEF RowsOf
  <2> DEFINE old == cl.rows[q]
             new == w.rows[q]
  <2>5. /\ old \in Seq(Items) /\ new \in Seq(Items) /\ Len(new) = Len(old) + 1 /\ Len(old) \in Nat
        /\ \A i \in 1 .. Len(old) : new[i] = old[i] /\ old[i] \in Items
        /\ new[Len(old) + 1] = d
    BY <1>7, <2>1, AppendProperties, ElementOfSeq
  <2>6. ToSet(old) = {e \in RowsOf(q) : Before(e, d)} /\ InOrder(old)
    BY <1>5 DEF HasRows
  <2> HIDE DEF old, new
  <2>7. ToSet(new) = ToSet(old) \cup {d}
    <3>1. DOMAIN new = 1 .. Len(old) + 1 /\ DOMAIN old = 1 .. Len(old)
      BY <2>5
    <3> QED
      BY <2>5, <3>1 DEF ToSet
  <2>8. \A i \in 1 .. Len(old) : Before(old[i], d)
    <3>1. \A i \in 1 .. Len(old) : old[i] \in ToSet(old)
      BY <2>5 DEF ToSet
    <3> QED
      BY <2>6, <3>1
  <2>9. InOrder(new)
    <3> SUFFICES ASSUME NEW i \in 1 .. Len(new), NEW j \in 1 .. Len(new), i < j PROVE Before(new[i], new[j])
      BY DEF InOrder
    <3>1. i \in 1 .. Len(old)
      BY <2>5
    <3>2. CASE j \in 1 .. Len(old)
      BY <2>5, <2>6, <3>1, <3>2 DEF InOrder
    <3>3. CASE j = Len(old) + 1
      BY <2>5, <2>8, <3>1, <3>3
    <3> QED
      BY <2>5, <3>2, <3>3
  <2>10. HasRows(w, q, After(d))
    BY <2>4, <2>6, <2>7, <2>9 DEF HasRows, new
  <2>11. w.rows[q] # <<>>
    BY <2>5 DEF new
  <2> QED
    BY <1>4, <2>1, <2>2, <2>10, <2>11 DEF Has, w
<1> QED
  BY <1>8, <1>9

Place(q, a, i) == IF i = 0 THEN a ELSE After(q[i])

(* The places before and after the items of q. *)
LEMMA Places ==
  ASSUME NEW q \in Seq(Items), NEW a \in Points
  PROVE  /\ Len(q) \in Nat /\ DOMAIN q = 1 .. Len(q) /\ \A i \in 1 .. Len(q) : q[i] \in Items
         /\ End(q, a) = Place(q, a, Len(q)) /\ End(q, a) \in Points
         /\ \A i \in 0 .. Len(q) : Place(q, a, i) \in Points
         /\ Runs(q, a) => \A i \in 1 .. Len(q) : Place(q, a, i - 1) = q[i]
<1>1. Len(q) \in Nat /\ DOMAIN q = 1 .. Len(q) /\ \A i \in 1 .. Len(q) : q[i] \in Items
  BY ElementOfSeq
<1>2. End(q, a) = Place(q, a, Len(q))
  <2>1. q = <<>> <=> Len(q) = 0
    BY EmptySeq
  <2> QED
    BY <2>1 DEF End, Place
<1>3. \A i \in 0 .. Len(q) : Place(q, a, i) \in Points
  BY <1>1, PointsAre DEF Place
<1>4. ASSUME Runs(q, a), NEW i \in 1 .. Len(q) PROVE Place(q, a, i - 1) = q[i]
  <2>1. CASE i = 1
    <3>1. q # <<>>
      BY <1>1
    <3> QED
      BY <1>4, <2>1, <3>1 DEF Runs, Place
  <2>2. CASE i # 1
    <3>1. i - 1 \in 1 .. Len(q) - 1 /\ (i - 1) + 1 = i
      BY <1>1, <2>2
    <3>2. q[(i - 1) + 1] = After(q[i - 1])
      BY <1>4, <3>1 DEF Runs
    <3> QED
      BY <3>1, <3>2 DEF Place
  <2> QED
    BY <2>1, <2>2
<1> QED
  BY <1>1, <1>2, <1>3, <1>4

(* The item at the end of a run makes it longer. *)
LEMMA RunsAppend ==
  ASSUME NEW q \in Seq(Items), NEW a, Runs(q, a), End(q, a) \in Items
  PROVE  LET p == Append(q, End(q, a))
         IN p \in Seq(Items) /\ Runs(p, a) /\ End(p, a) = After(End(q, a))
<1> DEFINE d == End(q, a)
           p == Append(q, d)
<1>1. d \in Items
  OBVIOUS
<1>2. (q = <<>> => d = a) /\ (q # <<>> => d = After(q[Len(q)]))
  BY DEF End
<1> HIDE DEF d
<1>3. /\ p \in Seq(Items) /\ p # <<>> /\ Len(p) = Len(q) + 1 /\ Len(q) \in Nat
      /\ \A i \in 1 .. Len(q) : p[i] = q[i]
      /\ p[Len(q) + 1] = d
  BY <1>1, AppendProperties
<1> HIDE DEF p
<1>4. p[1] = a
  <2>1. CASE q = <<>>
    <3>1. Len(q) = 0
      BY <2>1
    <3> QED
      BY <1>2, <1>3, <2>1, <3>1
  <2>2. CASE q # <<>>
    <3>1. 1 \in 1 .. Len(q)
      BY <2>2, EmptySeq
    <3> QED
      BY <1>3, <2>2, <3>1 DEF Runs
  <2> QED
    BY <2>1, <2>2
<1>5. ASSUME NEW i \in 1 .. Len(p) - 1 PROVE p[i + 1] = After(p[i])
  <2>1. i \in 1 .. Len(q) /\ q # <<>>
    BY <1>3
  <2>2. CASE i = Len(q)
    BY <1>2, <1>3, <2>1, <2>2
  <2>3. CASE i # Len(q)
    <3>1. i \in 1 .. Len(q) - 1 /\ i + 1 \in 1 .. Len(q)
      BY <1>3, <2>1, <2>3
    <3> QED
      BY <1>3, <2>1, <3>1 DEF Runs
  <2> QED
    BY <2>2, <2>3
<1>6. End(p, a) = After(d)
  BY <1>3 DEF End
<1> QED
  BY <1>3, <1>4, <1>5, <1>6 DEF Runs, p, d

(* A run without its first item begins at the place after it. *)
LEMMA RunsTail ==
  ASSUME NEW q \in Seq(Items), NEW a, Runs(q, a), q # <<>>
  PROVE  /\ Head(q) = a /\ a \in Items /\ Tail(q) \in Seq(Items)
         /\ Runs(Tail(q), After(a)) /\ End(Tail(q), After(a)) = End(q, a)
<1> DEFINE t == Tail(q)
<1>1. Len(q) \in Nat /\ Len(q) >= 1 /\ \A i \in 1 .. Len(q) : q[i] \in Items
  BY EmptySeq, ElementOfSeq
<1>2. q[1] = a /\ Head(q) = a /\ a \in Items
  BY <1>1 DEF Runs
<1>3. t \in Seq(Items) /\ Len(t) = Len(q) - 1 /\ \A i \in 1 .. Len(t) : t[i] = q[i + 1]
  BY HeadTailProperties
<1> HIDE DEF t
<1>4. \A i \in 1 .. Len(q) - 1 : q[i + 1] = After(q[i])
  BY DEF Runs
<1>5. t # <<>> => t[1] = After(a)
  <2> SUFFICES ASSUME t # <<>> PROVE t[1] = After(a)
    OBVIOUS
  <2>1. 1 \in 1 .. Len(t) /\ 1 \in 1 .. Len(q) - 1
    BY <1>1, <1>3, EmptySeq
  <2> QED
    BY <1>2, <1>3, <1>4, <2>1
<1>6. ASSUME NEW i \in 1 .. Len(t) - 1 PROVE t[i + 1] = After(t[i])
  <2>1. i \in 1 .. Len(t) /\ i + 1 \in 1 .. Len(t) /\ i + 1 \in 1 .. Len(q) - 1
    BY <1>1, <1>3
  <2> QED
    BY <1>3, <1>4, <2>1
<1>7. End(t, After(a)) = End(q, a)
  <2>1. CASE t = <<>>
    <3>1. Len(q) = 1
      BY <1>1, <1>3, <2>1
    <3> QED
      BY <1>2, <2>1, <3>1 DEF End
  <2>2. CASE t # <<>>
    <3>1. Len(t) \in 1 .. Len(t)
      BY <1>1, <1>3, <2>2, EmptySeq
    <3>2. t[Len(t)] = q[Len(q)]
      BY <1>1, <1>3, <3>1
    <3> QED
      BY <2>2, <3>2 DEF End
  <2> QED
    BY <2>1, <2>2
<1> QED
  BY <1>2, <1>3, <1>5, <1>6, <1>7 DEF Runs, t

(* One item is a run. *)
LEMMA RunsOne ==
  ASSUME NEW d \in Items
  PROVE  <<d>> \in Seq(Items) /\ Runs(<<d>>, d) /\ End(<<d>>, d) = After(d)
<1>1. Len(<<d>>) = 1 /\ <<d>>[1] = d /\ <<d>> \in Seq(Items) /\ <<d>> # <<>>
  OBVIOUS
<1> QED
  BY <1>1 DEF Runs, End

(* No item is a run, anywhere. *)
LEMMA RunsNone ==
  ASSUME NEW a
  PROVE  <<>> \in Seq(Items) /\ Runs(<<>>, a) /\ End(<<>>, a) = a
  BY DEF Runs, End

(* What a client has when it has read a whole batch. *)
LEMMA ReceivedType ==
  ASSUME NEW cl \in ClientState, NEW q \in Seq(Items)
  PROVE  LET w == Received(cl, q)
         IN w \in ClientState /\ w.phase = cl.phase /\ w.sid = cl.sid /\ w.sent = cl.sent
<1> DEFINE n == Len(q)
<1>1. n \in Nat /\ DOMAIN q = 1 .. n /\ \A i \in 1 .. n : q[i] \in Items
  BY ElementOfSeq
<1> HIDE DEF n
<1>0. PICK g : Folds(g, cl, q, n)
  BY <1>1, Folding
<1>2. /\ g[0] = cl
      /\ \A i \in 1 .. n : g[i] = Written(g[i - 1], q[i])
      /\ Received(cl, q) = g[n]
  BY <1>0 DEF Folds
<1> DEFINE Good(w) == w \in ClientState /\ w.phase = cl.phase /\ w.sid = cl.sid /\ w.sent = cl.sent
           S == {i \in Nat : i <= n => Good(g[i])}
<1>3. 0 \in S
  BY <1>2
<1>4. ASSUME NEW i \in S \cap Nat PROVE i + 1 \in S
  <2> SUFFICES ASSUME i + 1 <= n PROVE Good(g[i + 1])
    OBVIOUS
  <2>1. Good(g[i]) /\ i + 1 \in 1 .. n /\ (i + 1) - 1 = i
    BY <1>1
  <2>2. g[i + 1] = Written(g[i], q[i + 1]) /\ q[i + 1] \in Items
    BY <1>1, <1>2, <2>1
  <2> QED
    <3>1. g[i] \in ClientState
      BY <2>1
    <3> HIDE DEF Good
    <3>2. Good(Written(g[i], q[i + 1]))
      BY <2>1, <2>2, <3>1, WrittenIs DEF Good
    <3> QED
      BY <2>2, <3>2
<1> HIDE DEF S
<1>5. n \in S
  BY <1>1, <1>3, <1>4, Induction
<1>6. Good(g[n])
  BY <1>1, <1>5 DEF S
<1> QED
  BY <1>2, <1>6

(* A client that reads a run from the place it has come to has come to the   *)
(* end of the run.                                                           *)
LEMMA ReceivedHas ==
  ASSUME NEW cl \in ClientState, NEW q \in Seq(Items), NEW a \in Points, Has(cl, a), Runs(q, a)
  PROVE  Has(Received(cl, q), End(q, a))
<1> DEFINE n == Len(q)
<1>1. /\ n \in Nat /\ DOMAIN q = 1 .. n /\ \A i \in 1 .. n : q[i] \in Items
      /\ End(q, a) = Place(q, a, n) /\ \A i \in 1 .. n : Place(q, a, i - 1) = q[i]
  BY Places
<1> HIDE DEF n
<1>0. PICK g : Folds(g, cl, q, n)
  BY <1>1, Folding
<1>2. /\ g[0] = cl
      /\ \A i \in 1 .. n : g[i] = Written(g[i - 1], q[i])
      /\ Received(cl, q) = g[n]
  BY <1>0 DEF Folds
<1> DEFINE Good(i) == g[i] \in ClientState /\ Has(g[i], Place(q, a, i))
           S == {i \in Nat : i <= n => Good(i)}
<1>3. 0 \in S
  BY <1>2 DEF Place
<1>4. ASSUME NEW i \in S \cap Nat PROVE i + 1 \in S
  <2> SUFFICES ASSUME i + 1 <= n PROVE Good(i + 1)
    OBVIOUS
  <2>1. Good(i) /\ i + 1 \in 1 .. n /\ (i + 1) - 1 = i
    BY <1>1
  <2>2. g[i + 1] = Written(g[i], q[i + 1]) /\ q[i + 1] \in Items /\ Place(q, a, i) = q[i + 1]
    BY <1>1, <1>2, <2>1
  <2>3. g[i + 1] \in ClientState
    BY <2>1, <2>2, WrittenIs
  <2>4. Has(g[i + 1], After(q[i + 1]))
    BY <2>1, <2>2, WrittenHas
  <2>5. Place(q, a, i + 1) = After(q[i + 1])
    BY DEF Place
  <2> QED
    BY <2>3, <2>4, <2>5
<1> HIDE DEF S
<1>5. n \in S
  BY <1>1, <1>3, <1>4, Induction
<1>6. Good(n)
  BY <1>1, <1>5 DEF S
<1> QED
  BY <1>1, <1>2, <1>6

-----------------------------------------------------------------------------
(* The items of batch k that are not before a. *)
Rest(k, a) == {j \in 1 .. Len(Results[k]) : ~Before(<<k, j>>, a)}

(* The items of a run rise, from where it begins to where it ends. *)
LEMMA RunsRise ==
  ASSUME NEW q \in Seq(Items), NEW a \in Points, Runs(q, a)
  PROVE  /\ \A i, j \in 1 .. Len(q) : i < j => Before(q[i], q[j])
         /\ \A i \in 1 .. Len(q) : ~Before(q[i], a) /\ Before(q[i], End(q, a))
         /\ \A d \in Items : Before(d, a) => Before(d, End(q, a))
<1> DEFINE n == Len(q)
           P(i) == Place(q, a, i)
<1>1. /\ n \in Nat /\ \A i \in 1 .. n : q[i] \in Items
      /\ End(q, a) = P(n) /\ (\A i \in 1 .. n : P(i - 1) = q[i]) /\ \A i \in 0 .. n : P(i) \in Points
  BY Places
<1> HIDE DEF n
<1> DEFINE Good(i) == /\ \A j \in 1 .. i : Before(q[j], P(i))
                      /\ \A d \in Items : Before(d, a) => Before(d, P(i))
           S == {i \in Nat : i <= n => Good(i)}
<1>2. 0 \in S
  BY DEF Place
<1>3. ASSUME NEW i \in S \cap Nat PROVE i + 1 \in S
  <2> SUFFICES ASSUME i + 1 <= n PROVE Good(i + 1)
    OBVIOUS
  <2>1. Good(i) /\ i + 1 \in 1 .. n /\ (i + 1) - 1 = i /\ i + 1 # 0
    BY <1>1
  <2>2. q[i + 1] \in Items /\ P(i) = q[i + 1] /\ P(i + 1) = After(q[i + 1])
    BY <1>1, <2>1 DEF Place
  <2>3. \A d \in Items : Before(d, P(i)) \/ d = P(i) => Before(d, P(i + 1))
    BY <2>2, Order DEF Points
  <2>4. \A j \in 1 .. i + 1 : j \in 1 .. i \/ j = i + 1
    BY <2>1
  <2>5. \A j \in 1 .. i : q[j] \in Items
    BY <1>1, <2>1
  <2> HIDE DEF P
  <2> QED
    BY <2>1, <2>2, <2>3, <2>4, <2>5
<1> HIDE DEF S
<1>4. Nat \subseteq S
  BY <1>2, <1>3, Induction
<1>5. \A i \in 0 .. n : Good(i)
  BY <1>1, <1>4 DEF S
<1>6. ASSUME NEW i \in 1 .. n, NEW j \in 1 .. n, i < j PROVE Before(q[i], q[j])
  <2>1. j - 1 \in 0 .. n /\ i \in 1 .. j - 1
    BY <1>1, <1>6
  <2> HIDE DEF P
  <2> QED
    BY <1>1, <1>5, <2>1
<1>7. ASSUME NEW i \in 1 .. n PROVE ~Before(q[i], a) /\ Before(q[i], End(q, a))
  <2>1. i - 1 \in 0 .. n /\ q[i] \in Items
    BY <1>1
  <2>2. Before(q[i], a) => Before(q[i], P(i - 1))
    BY <1>5, <2>1
  <2>3. ~Before(q[i], q[i])
    BY <2>1, Order DEF Points
  <2>4. P(i - 1) = q[i] /\ n \in 0 .. n /\ i \in 1 .. n
    BY <1>1
  <2> HIDE DEF P
  <2> QED
    BY <1>1, <1>5, <2>2, <2>3, <2>4
<1>8. ASSUME NEW d \in Items, Before(d, a) PROVE Before(d, End(q, a))
  <2>1. n \in 0 .. n
    BY <1>1
  <2> HIDE DEF P
  <2> QED
    BY <1>1, <1>5, <1>8, <2>1
<1> QED
  BY <1>6, <1>7, <1>8 DEF n

(* An acknowledged batch leaves as much as it did not have. *)
LEMMA RestShrinks ==
  ASSUME NEW q \in Seq(Items), NEW a \in Points, Runs(q, a), NEW k \in SeqID
  PROVE  LET n == Cardinality({i \in DOMAIN q : q[i][1] = k})
         IN /\ n \in Nat /\ Cardinality(Rest(k, a)) \in Nat
            /\ Cardinality(Rest(k, End(q, a))) \in Nat
            /\ Cardinality(Rest(k, End(q, a))) + n <= Cardinality(Rest(k, a))
<1> DEFINE I == {i \in DOMAIN q : q[i][1] = k}
           b == End(q, a)
           F == [i \in I |-> q[i][2]]
           J == {q[i][2] : i \in I}
<1>1. DOMAIN q = 1 .. Len(q) /\ Len(q) \in Nat /\ b \in Points /\ \A i \in 1 .. Len(q) : q[i] \in Items
  BY Places
<1>2. /\ \A i, j \in 1 .. Len(q) : i < j => Before(q[i], q[j])
      /\ \A i \in 1 .. Len(q) : ~Before(q[i], a) /\ Before(q[i], b)
      /\ \A d \in Items : Before(d, a) => Before(d, b)
  BY RunsRise
<1> HIDE DEF b
<1>3. \A i \in I : i \in 1 .. Len(q) /\ q[i] \in Items /\ q[i] = <<k, q[i][2]>> /\ q[i][2] \in 1 .. Len(Results[k])
  BY <1>1, ItemsAre
<1>4. IsFiniteSet(I)
  <2>1. IsFiniteSet(1 .. Len(q))
    BY <1>1, FS_Interval
  <2> QED
    BY <1>1, <2>1, FS_Subset
<1>5. \A i, j \in I : q[i][2] = q[j][2] => i = j
  <2> SUFFICES ASSUME NEW i \in I, NEW j \in I, q[i][2] = q[j][2], i # j PROVE FALSE
    OBVIOUS
  <2>1. q[i] = q[j] /\ q[i] \in Items
    BY <1>3
  <2>2. ~Before(q[i], q[i])
    BY <2>1, Order DEF Points
  <2>3. i < j \/ j < i
    BY <1>3
  <2> QED
    BY <1>2, <1>3, <2>1, <2>2, <2>3
<1>6. IsFiniteSet(J) /\ Cardinality(J) = Cardinality(I)
  <2>1. F \in Bijection(I, J)
    BY <1>5 DEF Bijection, Injection, Surjection, IsInjective
  <2> QED
    BY <1>4, <2>1, FS_Bijection DEF ExistsBijection
<1>7. J \subseteq Rest(k, a) /\ J \cap Rest(k, b) = {}
  BY <1>2, <1>3 DEF Rest
<1>8. Rest(k, b) \subseteq Rest(k, a)
  BY <1>2, ItemsAre DEF Rest
<1>9. IsFiniteSet(Rest(k, a))
  <2>1. 1 \in Int /\ Len(Results[k]) \in Int
    BY ResultsAre
  <2>2. IsFiniteSet(1 .. Len(Results[k]))
    BY <2>1, FS_Interval
  <2> QED
    BY <2>2, FS_Subset DEF Rest
<1> HIDE DEF I, J
<1>10. /\ Cardinality(I) \in Nat /\ Cardinality(Rest(k, a)) \in Nat /\ IsFiniteSet(Rest(k, b))
       /\ Cardinality(Rest(k, b)) \in Nat
  BY <1>4, <1>8, <1>9, FS_CardinalityType, FS_Subset
<1>11. Cardinality(J \cup Rest(k, b)) = Cardinality(J) + Cardinality(Rest(k, b)) - Cardinality(J \cap Rest(k, b))
  BY <1>6, <1>10, FS_Union
<1>12. Cardinality(J \cup Rest(k, b)) <= Cardinality(Rest(k, a))
  BY <1>7, <1>8, <1>9, FS_Subset
<1>13. Cardinality(J \cap Rest(k, b)) = 0
  BY <1>7, FS_EmptySet
<1> QED
  BY <1>6, <1>10, <1>11, <1>12, <1>13 DEF I, b

Sets == INSTANCE IntervalSetProofs WITH MaxID <- Len(Results)

(* What the proofs about IntervalSet say about the SeqIDs of a session. *)
LEMMA SeenIs ==
  ASSUME NEW seen, Dedup!Canonical(seen), NEW k \in SeqID
  PROVE  /\ Dedup!Contains(seen, k) <=> k \in Dedup!Values(seen)
         /\ Dedup!Canonical(Dedup!Add(seen, k))
         /\ Dedup!Values(Dedup!Add(seen, k)) = Dedup!Values(seen) \cup {k}
<1>1. Len(Results) \in Nat /\ k \in Sets!ID
  BY ResultsAre DEF Sets!ID
<1>2. \A r, i : Dedup!Search(r, i) = Sets!Search(r, i)
  BY DEF Dedup!Search, Sets!Search
<1>3. \A r, i : Dedup!Contains(r, i) <=> Sets!Contains(r, i)
  BY <1>2 DEF Dedup!Contains, Sets!Contains
<1>4. \A i : Dedup!Succ(i) = Sets!Succ(i)
  BY DEF Dedup!Succ, Sets!Succ
<1>5. \A r, i, j : /\ Dedup!MergePrev(r, i, j) <=> Sets!MergePrev(r, i, j)
                   /\ Dedup!MergeNext(r, i, j) <=> Sets!MergeNext(r, i, j)
                   /\ Dedup!Before(r, i) = Sets!Before(r, i) /\ Dedup!From(r, i) = Sets!From(r, i)
  BY <1>4 DEF Dedup!MergePrev, Sets!MergePrev, Dedup!MergeNext, Sets!MergeNext,
              Dedup!Before, Sets!Before, Dedup!From, Sets!From
<1>6. \A r, i : Dedup!Merged(r, i) = Sets!Merged(r, i)
  BY <1>2, <1>5 DEF Dedup!Merged, Sets!Merged
<1>7. \A r, i : Dedup!Add(r, i) = Sets!Add(r, i)
  BY <1>3, <1>6 DEF Dedup!Add, Sets!Add
<1>8. Dedup!ID = Sets!ID /\ Dedup!Interval = Sets!Interval
  BY DEF Dedup!ID, Sets!ID, Dedup!Interval, Sets!Interval
<1>9. \A r : Dedup!Values(r) = Sets!Values(r)
  BY <1>8 DEF Dedup!Values, Sets!Values
<1>10. \A r : Dedup!Canonical(r) <=> Sets!Canonical(r)
  BY <1>8 DEF Dedup!Canonical, Sets!Canonical
<1>11. Sets!Canonical(seen)
  BY <1>10
<1>12. Sets!Contains(seen, k) <=> k \in Sets!Values(seen)
  BY <1>1, <1>11, Sets!ContainsIsMembership
<1>13. Sets!Canonical(Sets!Add(seen, k)) /\ Sets!Values(Sets!Add(seen, k)) = Sets!Values(seen) \cup {k}
  BY <1>1, <1>11, Sets!AddIsUnion
<1> QED
  BY <1>3, <1>7, <1>9, <1>10, <1>12, <1>13

(* A new session has seen nothing. *)
LEMMA NothingSeen == Dedup!Canonical(<<>>) /\ Dedup!Values(<<>>) = {}
  BY DEF Dedup!Canonical, Dedup!Values

-----------------------------------------------------------------------------
(* What there is of a session: its goroutines, its connection and its        *)
(* client.                                                                   *)

Batches == [type : {"results"}, items : Seq(Items)]
Replies == [type : {"connectAck", "ingestAck"}]
Acks == {"resultAck"}

SessionState == [reader : {"none", "handshake", "register", "read", "cleanup", "unregister", "remove", "closed"},
                 out : {"off", "dequeue", "flush", "wait", "done"}, queue : Seq(Items), ackCh : BOOLEAN,
                 seen : Seq(Dedup!Interval), pending : Seq(Items), next : Seq(Items), eofsSent : Nat]
Connection == [clOpen : BOOLEAN, gwOpen : BOOLEAN, toGateway : Seq({"connect", "data", "resultAck"}),
               toClient : Seq(Batches \cup Replies)]

(* What the goroutine of the output has in each of its phases. *)
OutputOK(r) ==
  /\ Len(r.queue) <= QueueSize /\ Len(r.pending) <= BatchLimit /\ Len(r.next) <= 1
  /\ Dedup!Canonical(r.seen)
  /\ r.reader \in {"none", "handshake", "register"} => r.out = "off"
  /\ r.out \in {"off", "dequeue"} => r.next = <<>>
  /\ r.out = "flush" => r.pending # <<>>

(* At most one element of q is in S. *)
Once(q, S) == \A i, j \in 1 .. Len(q) : q[i] \in S /\ q[j] \in S => i = j
Of(q, S) == ToSet(q) \cap S

TailOf(h, m) == IF h # <<>> THEN <<h[2], h[3]>> ELSE <<m + 1, 1>>
Pending(r, a) == End(r.pending, a)
Taken(r, a) == End(r.next, Pending(r, a))

(* The items of a session in the order of Results, from the one that follows *)
(* the acknowledged ones (a) to the one that forwardFinalMessage comes to    *)
(* next: h is the delivery that it works on, m the last one it has taken, l  *)
(* what is not acknowledged of each.                                         *)
Line(r, h, l, m, a) ==
  /\ Dedup!Values(r.seen) = 1 .. m
  /\ h # <<>> => h[2] = m
  /\ Runs(r.pending, a) /\ Runs(r.next, Pending(r, a)) /\ Runs(r.queue, Taken(r, a))
  /\ End(r.queue, Taken(r, a)) = TailOf(h, m)
  /\ \A k \in 1 .. m : l[k] >= Cardinality(Rest(k, a))

(* The n batches of session s that the pipeline has sent are taken or in the *)
(* FINAL queue f, each behind the one before it.                             *)
Ordered(s, f, n, m) ==
  /\ \A k \in m + 1 .. n : <<s, k>> \in ToSet(f)
  /\ \A i \in 1 .. Len(f) :
       f[i][1] = s /\ f[i][2] > m + 1 => \E j \in 1 .. i - 1 : f[j] = <<s, f[i][2] - 1>>

(* The batch that waits for its acknowledgement is on its way to the client, *)
(* or has been read, and its acknowledgement is on its way back.             *)
Sent(r, x, cl, a) ==
  /\ Has(cl, a)
  /\ ~r.ackCh /\ Of(x.toGateway, Acks) = {}
  /\ Once(x.toClient, Batches) /\ \A b \in Of(x.toClient, Batches) : b.items = r.pending
  /\ r.out = "wait" <=> Of(x.toClient, Batches) # {}
Read(r, x, cl, a) ==
  /\ r.out = "wait" /\ Has(cl, Pending(r, a))
  /\ Once(x.toGateway, Acks) /\ (r.ackCh <=> Of(x.toGateway, Acks) = {})
  /\ Of(x.toClient, Batches) = {}

Delivering(s, r, h, l, n, f, x, cl) ==
  /\ r.out # "done"
  /\ \E m \in 0 .. Len(Results), a \in Points :
       /\ Line(r, h, l, m, a) /\ Ordered(s, f, n, m)
       /\ Sent(r, x, cl, a) \/ Read(r, x, cl, a)

(* The gateway has given up the session, and the client reads what is left. *)
Ending(x, cl) ==
  \E a \in Points :
    /\ Has(cl, a) /\ Once(x.toClient, Batches)
    /\ \A b \in Of(x.toClient, Batches) : Runs(b.items, a)

-----------------------------------------------------------------------------
(* What a queue has of S when its head was taken. *)
LEMMA OfTail ==
  ASSUME NEW T, NEW S, NEW q \in Seq(T), q # <<>>
  PROVE  /\ Once(q, S) => Once(Tail(q), S)
         /\ Of(Tail(q), S) \subseteq Of(q, S)
         /\ Head(q) \in ToSet(q)
         /\ Head(q) \notin S => Of(Tail(q), S) = Of(q, S)
         /\ Head(q) \in S /\ Once(q, S) => Of(Tail(q), S) = {}
<1> DEFINE t == Tail(q)
<1>1. Len(q) \in Nat /\ Len(q) >= 1 /\ Head(q) = q[1] /\ DOMAIN q = 1 .. Len(q)
  BY EmptySeq
<1>2. t \in Seq(T) /\ Len(t) = Len(q) - 1 /\ DOMAIN t = 1 .. Len(t) /\ \A i \in 1 .. Len(t) : t[i] = q[i + 1]
  BY HeadTailProperties
<1> HIDE DEF t
<1>3. ToSet(q) = {Head(q)} \cup ToSet(t)
  <2>1. ToSet(q) = {q[i] : i \in 1 .. Len(q)} /\ ToSet(t) = {t[i] : i \in 1 .. Len(t)}
    BY <1>1, <1>2 DEF ToSet
  <2>2. ASSUME NEW i \in 1 .. Len(q) PROVE q[i] \in {Head(q)} \cup ToSet(t)
    <3>1. CASE i = 1
      BY <1>1, <3>1
    <3>2. CASE i # 1
      <4>1. i - 1 \in 1 .. Len(t) /\ (i - 1) + 1 = i
        BY <1>1, <1>2, <3>2
      <4>2. t[i - 1] = q[i]
        BY <1>2, <4>1
      <4> QED
        BY <2>1, <4>1, <4>2
    <3> QED
      BY <3>1, <3>2
  <2>3. ASSUME NEW i \in 1 .. Len(t) PROVE t[i] \in ToSet(q)
    <3>1. i + 1 \in 1 .. Len(q)
      BY <1>1, <1>2
    <3> QED
      BY <1>2, <2>1, <3>1
  <2>4. Head(q) \in ToSet(q)
    BY <1>1, <2>1
  <2> QED
    BY <2>1, <2>2, <2>3, <2>4
<1>4. ASSUME Once(q, S) PROVE Once(t, S)
  <2> SUFFICES ASSUME NEW i \in 1 .. Len(t), NEW j \in 1 .. Len(t), t[i] \in S, t[j] \in S PROVE i = j
    BY DEF Once
  <2>1. i + 1 \in 1 .. Len(q) /\ j + 1 \in 1 .. Len(q)
    BY <1>1, <1>2
  <2>2. i + 1 = j + 1
    BY <1>2, <1>4, <2>1 DEF Once
  <2> QED
    BY <2>2
<1>5. ASSUME Head(q) \in S, Once(q, S) PROVE Of(t, S) = {}
  <2>1. \A i \in 1 .. Len(t) : i + 1 \in 1 .. Len(q) /\ i + 1 # 1 /\ 1 \in 1 .. Len(q)
    BY <1>1, <1>2
  <2>2. \A i \in 1 .. Len(t) : t[i] \notin S
    BY <1>1, <1>2, <1>5, <2>1 DEF Once
  <2>3. ToSet(t) = {t[i] : i \in 1 .. Len(t)}
    BY <1>2 DEF ToSet
  <2> QED
    BY <2>2, <2>3 DEF Of
<1>6. Head(q) \notin S => Of(t, S) = Of(q, S)
  BY <1>3 DEF Of
<1>7. Of(t, S) \subseteq Of(q, S) /\ Head(q) \in ToSet(q)
  BY <1>3 DEF Of
<1> QED
  BY <1>4, <1>5, <1>6, <1>7 DEF t

(* The elements of a queue that something was put in. *)
LEMMA SetAppend ==
  ASSUME NEW T, NEW q \in Seq(T), NEW e \in T
  PROVE  ToSet(Append(q, e)) = ToSet(q) \cup {e}
<1> DEFINE p == Append(q, e)
<1>1. /\ Len(q) \in Nat /\ Len(p) = Len(q) + 1 /\ DOMAIN q = 1 .. Len(q) /\ DOMAIN p = 1 .. Len(p)
      /\ \A i \in 1 .. Len(q) : p[i] = q[i]
      /\ p[Len(q) + 1] = e
  BY AppendProperties
<1> HIDE DEF p
<1>2. \A i \in 1 .. Len(p) : i \in 1 .. Len(q) \/ i = Len(q) + 1
  BY <1>1
<1>3. ToSet(p) = {p[i] : i \in 1 .. Len(p)} /\ ToSet(q) = {q[i] : i \in 1 .. Len(q)}
  BY <1>1 DEF ToSet
<1>4. \A i \in 1 .. Len(q) : i \in 1 .. Len(p)
  BY <1>1
<1>5. Len(q) + 1 \in 1 .. Len(p)
  BY <1>1
<1> QED
  BY <1>1, <1>2, <1>3, <1>4, <1>5 DEF p

(* What a queue has of S when something was put in. *)
LEMMA OfAppend ==
  ASSUME NEW T, NEW S, NEW q \in Seq(T), NEW e \in T
  PROVE  /\ e \notin S => Of(Append(q, e), S) = Of(q, S)
         /\ e \notin S /\ Once(q, S) => Once(Append(q, e), S)
         /\ Of(q, S) = {} => Once(Append(q, e), S)
         /\ e \in S => Of(Append(q, e), S) = Of(q, S) \cup {e}
<1> DEFINE p == Append(q, e)
<1>1. /\ Len(q) \in Nat /\ Len(p) = Len(q) + 1 /\ DOMAIN q = 1 .. Len(q) /\ DOMAIN p = 1 .. Len(p)
      /\ \A i \in 1 .. Len(q) : p[i] = q[i]
      /\ p[Len(q) + 1] = e
  BY AppendProperties
<1>3. ToSet(p) = ToSet(q) \cup {e}
  BY SetAppend
<1> HIDE DEF p
<1>2. \A i \in 1 .. Len(p) : i \in 1 .. Len(q) \/ i = Len(q) + 1
  BY <1>1
<1>4. ASSUME e \notin S, Once(q, S) PROVE Once(p, S)
  BY <1>1, <1>2, <1>4 DEF Once
<1>5. ASSUME Of(q, S) = {} PROVE Once(p, S)
  <2>1. \A i \in 1 .. Len(q) : q[i] \notin S
    BY <1>1, <1>5 DEF Of, ToSet
  <2> QED
    BY <1>1, <1>2, <2>1 DEF Once
<1> QED
  BY <1>3, <1>4, <1>5 DEF Of, p

(* An empty queue has nothing. *)
LEMMA OfNothing == \A S : Once(<<>>, S) /\ Of(<<>>, S) = {}
  BY DEF Once, Of, ToSet

(* A batch is told from the other messages by its type. *)
LEMMA MessagesAre ==
  /\ \A m \in Replies : m \notin Batches
  /\ \A q \in Seq(Items) : [type |-> "results", items |-> q] \in Batches
  /\ \A b \in Batches : b.type = "results" /\ b.items \in Seq(Items)
  /\ \A m \in Batches \cup Replies : m.type = "results" => m \in Batches
  /\ [type |-> "connectAck"] \in Replies /\ [type |-> "ingestAck"] \in Replies
  BY DEF Replies, Batches

Serving(s, r, h, l, n, f, x, cl) ==
  IF x.gwOpen THEN Delivering(s, r, h, l, n, f, x, cl) ELSE Ending(x, cl)

(* Has is about the files. *)
LEMMA SameHas ==
  ASSUME NEW cl, NEW w, w.rows = cl.rows, w.open = cl.open, w.eofs = cl.eofs, NEW p, Has(cl, p)
  PROVE  Has(w, p)
  BY Zenon DEF Has, HasRows

(* The connection y brings and takes neither results nor acknowledgements. *)
SameLine(x, y) ==
  /\ Of(y.toClient, Batches) = Of(x.toClient, Batches) /\ (Once(x.toClient, Batches) => Once(y.toClient, Batches))
  /\ Of(y.toGateway, Acks) = Of(x.toGateway, Acks) /\ (Once(x.toGateway, Acks) => Once(y.toGateway, Acks))

(* Delivering is about the queues of a session and the messages of results   *)
(* on its connection: steps that keep them keep it.                          *)
LEMMA SameDelivering ==
  ASSUME NEW s, NEW r, NEW h, NEW l, NEW n, NEW f, NEW x, NEW cl, NEW t, NEW y, NEW w, NEW g,
         Delivering(s, r, h, l, n, f, x, cl),
         t.seen = r.seen, t.pending = r.pending, t.next = r.next, t.queue = r.queue, t.ackCh = r.ackCh,
         t.out # "done", t.out = "wait" <=> r.out = "wait", SameLine(x, y),
         w.rows = cl.rows, w.open = cl.open, w.eofs = cl.eofs,
         \A m \in 0 .. Len(Results) : Ordered(s, f, n, m) => Ordered(s, g, n, m)
  PROVE  Delivering(s, t, h, l, n, g, y, w)
<1>1. PICK m \in 0 .. Len(Results), a \in Points :
         Line(r, h, l, m, a) /\ Ordered(s, f, n, m) /\ (Sent(r, x, cl, a) \/ Read(r, x, cl, a))
  BY Zenon DEF Delivering
<1>2. Line(t, h, l, m, a)
  BY <1>1, Zenon DEF Line, Pending, Taken
<1>3. Has(cl, a) => Has(w, a)
  BY SameHas
<1>4. Has(cl, Pending(r, a)) => Has(w, Pending(r, a))
  BY SameHas
<1>5. Sent(r, x, cl, a) => Sent(t, y, w, a)
  BY <1>3 DEF Sent, SameLine
<1>6. Read(r, x, cl, a) => Read(t, y, w, a)
  BY <1>4 DEF Read, SameLine, Pending
<1> QED
  BY <1>1, <1>2, <1>5, <1>6 DEF Delivering

(* So is Ending. *)
LEMMA SameEnding ==
  ASSUME NEW x, NEW cl, NEW y, NEW w, Ending(x, cl),
         Of(y.toClient, Batches) \subseteq Of(x.toClient, Batches), Once(x.toClient, Batches) => Once(y.toClient, Batches),
         w.rows = cl.rows, w.open = cl.open, w.eofs = cl.eofs
  PROVE  Ending(y, w)
<1>1. PICK a \in Points : Has(cl, a) /\ Once(x.toClient, Batches) /\ \A b \in Of(x.toClient, Batches) : Runs(b.items, a)
  BY Zenon DEF Ending
<1>2. Has(w, a)
  BY <1>1, SameHas
<1> QED
  BY <1>1, <1>2 DEF Ending

(* When the gateway gives up a session, the client can read on what was sent *)
(* to it.                                                                    *)
LEMMA GatewayGivesUp ==
  ASSUME NEW s, NEW r \in SessionState, NEW h, NEW l, NEW n, NEW f, NEW x, NEW cl, NEW y,
         Delivering(s, r, h, l, n, f, x, cl), y.toClient = x.toClient
  PROVE  Ending(y, cl)
<1>1. PICK m \in 0 .. Len(Results), a \in Points :
         Line(r, h, l, m, a) /\ Ordered(s, f, n, m) /\ (Sent(r, x, cl, a) \/ Read(r, x, cl, a))
  BY Zenon DEF Delivering
<1>2. CASE Sent(r, x, cl, a)
  BY <1>1, <1>2 DEF Sent, Line, Ending
<1>3. CASE Read(r, x, cl, a)
  <2>1. Pending(r, a) \in Points
    BY Places DEF Pending, SessionState
  <2>2. Once(y.toClient, Batches)
    <3>1. Of(x.toClient, Batches) = {}
      BY <1>3 DEF Read
    <3> QED
      BY <1>3, <3>1 DEF Of, Once, ToSet
  <2> QED
    BY <1>3, <2>1, <2>2 DEF Read, Ending
<1> QED
  BY <1>1, <1>2, <1>3

-----------------------------------------------------------------------------
(* What each step of the output, and of the client, does to the delivery of  *)
(* a session.                                                                *)

(* DequeueResult *)
LEMMA DequeueMoves ==
  ASSUME NEW s, NEW r \in SessionState, OutputOK(r), NEW h, NEW l, NEW n, NEW f, NEW x, NEW cl,
         r.out = "dequeue", r.queue # <<>>, NEW t \in SessionState,
         t.seen = r.seen, t.ackCh = r.ackCh, t.queue = Tail(r.queue), t.out \in {"dequeue", "flush"},
         \/ t.pending = Append(r.pending, Head(r.queue)) /\ t.next = <<>>
         \/ t.pending = r.pending /\ t.next = <<Head(r.queue)>>,
         Delivering(s, r, h, l, n, f, x, cl)
  PROVE  Delivering(s, t, h, l, n, f, x, cl)
<1>1. PICK m \in 0 .. Len(Results), a \in Points :
         Line(r, h, l, m, a) /\ Ordered(s, f, n, m) /\ (Sent(r, x, cl, a) \/ Read(r, x, cl, a))
  BY Zenon DEF Delivering
<1>2. r.next = <<>> /\ r.queue \in Seq(Items) /\ r.pending \in Seq(Items)
  BY DEF OutputOK, SessionState
<1> DEFINE b == Pending(r, a)
<1>3. Taken(r, a) = b /\ Runs(r.pending, a) /\ Runs(r.queue, b) /\ End(r.queue, b) = TailOf(h, m)
  BY <1>1, <1>2 DEF Line, Taken, End
<1>4. b = End(r.pending, a)
  BY DEF Pending
<1> HIDE DEF b
<1>5. /\ Head(r.queue) = b /\ b \in Items
      /\ Runs(t.queue, After(b)) /\ End(t.queue, After(b)) = TailOf(h, m)
  BY <1>2, <1>3, RunsTail
<1>6. Sent(r, x, cl, a)
  BY <1>1 DEF Read
<1>7. Runs(t.pending, a) /\ Runs(t.next, Pending(t, a)) /\ Taken(t, a) = After(b)
  <2>1. CASE t.pending = Append(r.pending, Head(r.queue)) /\ t.next = <<>>
    <3>1. Runs(t.pending, a) /\ End(t.pending, a) = After(b)
      BY <1>2, <1>3, <1>4, <1>5, <2>1, RunsAppend
    <3> QED
      BY <2>1, <3>1, RunsNone DEF Pending, Taken
  <2>2. CASE t.pending = r.pending /\ t.next = <<Head(r.queue)>>
    <3>1. Pending(t, a) = b
      BY <1>4, <2>2 DEF Pending
    <3>2. Runs(<<b>>, b) /\ End(<<b>>, b) = After(b)
      BY <1>5, RunsOne
    <3> QED
      BY <1>3, <1>5, <2>2, <3>1, <3>2 DEF Taken
  <2> QED
    BY <2>1, <2>2
<1>8. Line(t, h, l, m, a)
  BY <1>1, <1>5, <1>7 DEF Line
<1>9. Sent(t, x, cl, a)
  BY <1>6 DEF Sent
<1> QED
  BY <1>1, <1>8, <1>9 DEF Delivering

(* Flush *)
LEMMA FlushSends ==
  ASSUME NEW s, NEW r \in SessionState, NEW h, NEW l, NEW n, NEW f, NEW x \in Connection, NEW cl,
         r.out = "flush", NEW t, t.out = "wait",
         t.seen = r.seen, t.ackCh = r.ackCh, t.queue = r.queue, t.pending = r.pending, t.next = r.next,
         NEW y, y.toGateway = x.toGateway,
         y.toClient = Append(x.toClient, [type |-> "results", items |-> r.pending]),
         Delivering(s, r, h, l, n, f, x, cl)
  PROVE  Delivering(s, t, h, l, n, f, y, cl)
<1>1. PICK m \in 0 .. Len(Results), a \in Points :
         Line(r, h, l, m, a) /\ Ordered(s, f, n, m) /\ (Sent(r, x, cl, a) \/ Read(r, x, cl, a))
  BY Zenon DEF Delivering
<1>2. Sent(r, x, cl, a)
  BY <1>1 DEF Read
<1> DEFINE e == [type |-> "results", items |-> r.pending]
<1>3. e \in Batches /\ e.items = r.pending /\ x.toClient \in Seq(Batches \cup Replies)
  BY MessagesAre DEF SessionState, Connection
<1>4. Of(x.toClient, Batches) = {}
  BY <1>2 DEF Sent
<1> HIDE DEF e
<1>5. Once(y.toClient, Batches) /\ Of(y.toClient, Batches) = {e}
  <2>1. y.toClient = Append(x.toClient, e) /\ e \in Batches \cup Replies
    BY <1>3 DEF e
  <2>2. Once(Append(x.toClient, e), Batches)
    BY <1>3, <1>4, <2>1, OfAppend
  <2>3. Of(Append(x.toClient, e), Batches) = Of(x.toClient, Batches) \cup {e}
    BY <1>3, <2>1, OfAppend
  <2> QED
    BY <1>4, <2>1, <2>2, <2>3
<1>6. Sent(t, y, cl, a)
  BY <1>2, <1>3, <1>5 DEF Sent
<1>7. Line(t, h, l, m, a)
  BY <1>1, Zenon DEF Line, Pending, Taken
<1> QED
  BY <1>1, <1>6, <1>7 DEF Delivering

(* What the acknowledgement of pending leaves of each delivery. *)
LEMMA AckCounts ==
  ASSUME NEW q \in Seq(Items), NEW a \in Points, Runs(q, a), NEW k \in SeqID, NEW v \in Nat,
         v >= Cardinality(Rest(k, a))
  PROVE  LET n == Cardinality({i \in DOMAIN q : q[i][1] = k})
         IN /\ n \in Nat
            /\ (IF v > n THEN v - n ELSE 0) \in Nat /\ (IF v > n THEN v - n ELSE 0) <= v
            /\ (IF v > n THEN v - n ELSE 0) >= Cardinality(Rest(k, End(q, a)))
<1> DEFINE n == Cardinality({i \in DOMAIN q : q[i][1] = k})
           b == Cardinality(Rest(k, End(q, a)))
           c == Cardinality(Rest(k, a))
<1>1. n \in Nat /\ b \in Nat /\ c \in Nat /\ b + n <= c
  BY RestShrinks, Zenon
<1> HIDE DEF n, b, c
<1>2. v >= c
  BY DEF c
<1>3. (IF v > n THEN v - n ELSE 0) \in Nat /\ (IF v > n THEN v - n ELSE 0) <= v /\ (IF v > n THEN v - n ELSE 0) >= b
  BY <1>1, <1>2
<1> QED
  BY <1>1, <1>3, Zenon DEF n, b

(* AckedFirst and Acked: the batch leaves pending, and what is in next or    *)
(* nothing begins the next one.                                              *)
LEMMA AckedMoves ==
  ASSUME NEW s, NEW r \in SessionState, OutputOK(r), NEW h, NEW l \in [SeqID -> Nat], NEW n, NEW f,
         NEW x, NEW cl, r.out = "wait", r.ackCh, NEW t \in SessionState, ~t.ackCh,
         t.seen = r.seen, t.queue = r.queue, t.pending = r.next, t.next = <<>>, t.out \in {"dequeue", "flush"},
         NEW v \in [SeqID -> Nat],
         \A k \in SeqID : LET c == Cardinality({i \in DOMAIN r.pending : r.pending[i][1] = k})
                          IN v[k] = IF l[k] > c THEN l[k] - c ELSE 0,
         Delivering(s, r, h, l, n, f, x, cl)
  PROVE  Delivering(s, t, h, v, n, f, x, cl)
<1>1. PICK m \in 0 .. Len(Results), a \in Points :
         Line(r, h, l, m, a) /\ Ordered(s, f, n, m) /\ (Sent(r, x, cl, a) \/ Read(r, x, cl, a))
  BY Zenon DEF Delivering
<1>2. Read(r, x, cl, a)
  BY <1>1 DEF Sent
<1> DEFINE b == Pending(r, a)
<1>3. /\ r.pending \in Seq(Items) /\ Runs(r.pending, a) /\ Runs(r.next, b)
      /\ Runs(r.queue, Taken(r, a)) /\ End(r.queue, Taken(r, a)) = TailOf(h, m)
      /\ \A k \in 1 .. m : l[k] >= Cardinality(Rest(k, a))
  BY <1>1 DEF Line, SessionState
<1>4. b \in Points /\ b = End(r.pending, a)
  BY <1>3, Places DEF Pending
<1>5. Taken(r, a) = End(r.next, b)
  BY DEF Taken
<1> HIDE DEF b
<1>6. Pending(t, b) = Taken(r, a) /\ Taken(t, b) = Taken(r, a)
  BY <1>5, RunsNone DEF Pending, Taken
<1>7. Runs(t.pending, b) /\ Runs(t.next, Pending(t, b)) /\ Runs(t.queue, Taken(t, b)) /\ End(t.queue, Taken(t, b)) = TailOf(h, m)
  BY <1>3, <1>6, RunsNone
<1>8. ASSUME NEW k \in 1 .. m PROVE v[k] >= Cardinality(Rest(k, b))
  <2>1. k \in SeqID /\ l[k] \in Nat /\ l[k] >= Cardinality(Rest(k, a))
    BY <1>3 DEF SeqID
  <2>2. LET c == Cardinality({i \in DOMAIN r.pending : r.pending[i][1] = k})
        IN (IF l[k] > c THEN l[k] - c ELSE 0) >= Cardinality(Rest(k, b))
    BY <1>3, <1>4, <2>1, AckCounts
  <2> QED
    BY <2>1, <2>2
<1>9. Line(t, h, v, m, b)
  BY <1>1, <1>7, <1>8 DEF Line
<1>10. Sent(t, x, cl, b)
  <2>1. Once(x.toClient, Batches)
    BY <1>2 DEF Read, Of, Once, ToSet
  <2>2. Of(x.toClient, Batches) = {} /\ Of(x.toGateway, Acks) = {} /\ Has(cl, b)
    BY <1>2 DEF Read, b
  <2> QED
    BY <2>1, <2>2 DEF Sent
<1> QED
  BY <1>1, <1>4, <1>9, <1>10 DEF Delivering

(* NotifyAck *)
LEMMA NotifyMoves ==
  ASSUME NEW s, NEW r, NEW h, NEW l, NEW n, NEW f, NEW x \in Connection, NEW cl,
         x.toGateway # <<>>, Head(x.toGateway) = "resultAck",
         NEW t, t.out = r.out, t.ackCh,
         t.seen = r.seen, t.queue = r.queue, t.pending = r.pending, t.next = r.next,
         NEW y, y.toGateway = Tail(x.toGateway), y.toClient = x.toClient,
         Delivering(s, r, h, l, n, f, x, cl)
  PROVE  Delivering(s, t, h, l, n, f, y, cl)
<1>1. PICK m \in 0 .. Len(Results), a \in Points :
         Line(r, h, l, m, a) /\ Ordered(s, f, n, m) /\ (Sent(r, x, cl, a) \/ Read(r, x, cl, a))
  BY Zenon DEF Delivering
<1>2. x.toGateway \in Seq({"connect", "data", "resultAck"}) /\ Head(x.toGateway) \in Acks
  BY DEF Connection, Acks
<1>3. Head(x.toGateway) \in Of(x.toGateway, Acks)
  <2>1. Head(x.toGateway) \in ToSet(x.toGateway)
    BY <1>2, OfTail
  <2> QED
    BY <1>2, <2>1 DEF Of
<1>4. Read(r, x, cl, a)
  BY <1>1, <1>3 DEF Sent
<1>5. Of(y.toGateway, Acks) = {} /\ Once(y.toGateway, Acks)
  BY <1>2, <1>4, OfTail DEF Read
<1>6. Read(t, y, cl, a)
  BY <1>4, <1>5 DEF Read, Pending
<1>7. Line(t, h, l, m, a)
  BY <1>1, Zenon DEF Line, Pending, Taken
<1> QED
  BY <1>1, <1>6, <1>7 DEF Delivering

(* ReceiveResults, while the gateway serves and when it has given up. *)
LEMMA HeadOfBatches ==
  ASSUME NEW x \in Connection, x.toClient # <<>>, Head(x.toClient).type = "results"
  PROVE  Head(x.toClient) \in Of(x.toClient, Batches) /\ Head(x.toClient).items \in Seq(Items)
<1>1. x.toClient \in Seq(Batches \cup Replies)
  BY DEF Connection
<1>2. Head(x.toClient) \in ToSet(x.toClient)
  BY <1>1, OfTail
<1>3. Head(x.toClient) \in Batches \cup Replies
  <2>1. Len(x.toClient) \in Nat /\ 1 \in 1 .. Len(x.toClient) /\ Head(x.toClient) = x.toClient[1]
    BY <1>1, EmptySeq
  <2> QED
    BY <1>1, <2>1, ElementOfSeq
<1>4. Head(x.toClient) \in Batches
  BY <1>3, MessagesAre
<1> QED
  BY <1>2, <1>4, MessagesAre DEF Of

(* While the gateway serves: the client has what it read, and its            *)
(* acknowledgement is under way.                                             *)
LEMMA ReceiveReads ==
  ASSUME NEW s, NEW r \in SessionState, NEW h, NEW l, NEW n, NEW f, NEW x \in Connection, NEW cl \in ClientState,
         x.toClient # <<>>, Head(x.toClient).type = "results",
         NEW y, y.toGateway = Append(x.toGateway, "resultAck"), y.toClient = Tail(x.toClient),
         Delivering(s, r, h, l, n, f, x, cl)
  PROVE  Delivering(s, r, h, l, n, f, y, Received(cl, Head(x.toClient).items))
<1>1. PICK m \in 0 .. Len(Results), a \in Points :
         Line(r, h, l, m, a) /\ Ordered(s, f, n, m) /\ (Sent(r, x, cl, a) \/ Read(r, x, cl, a))
  BY Zenon DEF Delivering
<1> DEFINE e == Head(x.toClient)
           w == Received(cl, e.items)
<1>2. e \in Of(x.toClient, Batches) /\ e.items \in Seq(Items)
  BY HeadOfBatches
<1>3. x.toClient \in Seq(Batches \cup Replies) /\ x.toGateway \in Seq({"connect", "data", "resultAck"})
  BY DEF Connection
<1>4. Sent(r, x, cl, a)
  BY <1>1, <1>2 DEF Read
<1>5. e.items = r.pending /\ r.out = "wait" /\ Has(cl, a) /\ ~r.ackCh /\ Of(x.toGateway, Acks) = {}
      /\ Once(x.toClient, Batches) /\ e \in Batches
  BY <1>2, <1>4 DEF Sent, Of
<1>6. Has(w, Pending(r, a))
  <2>1. Runs(e.items, a) /\ Pending(r, a) = End(e.items, a)
    BY <1>1, <1>5 DEF Line, Pending
  <2> QED
    BY <1>2, <1>5, <2>1, ReceivedHas
<1>7. Of(y.toClient, Batches) = {}
  BY <1>3, <1>5, OfTail
<1>8. Once(y.toGateway, Acks) /\ Of(y.toGateway, Acks) # {}
  <2>1. "resultAck" \in {"connect", "data", "resultAck"} /\ "resultAck" \in Acks
    BY DEF Acks
  <2> DEFINE T == {"connect", "data", "resultAck"}
             a1 == "resultAck"
  <2>4. x.toGateway \in Seq(T) /\ a1 \in T /\ y.toGateway = Append(x.toGateway, a1)
    BY <1>3
  <2> HIDE DEF T, a1
  <2>2. Once(y.toGateway, Acks)
    BY <1>5, <2>4, OfAppend
  <2>3. a1 \in ToSet(y.toGateway)
    BY <2>4, SetAppend
  <2> USE DEF a1
  <2> QED
    BY <2>1, <2>2, <2>3 DEF Of
<1> HIDE DEF w
<1>9. Read(r, y, w, a)
  BY <1>5, <1>6, <1>7, <1>8 DEF Read
<1> QED
  BY <1>1, <1>9 DEF Delivering, w

(* When the gateway has given up: the client has what it read. *)
LEMMA ReceiveEnding ==
  ASSUME NEW x \in Connection, NEW cl \in ClientState, x.toClient # <<>>, Head(x.toClient).type = "results",
         NEW y, y.toClient = Tail(x.toClient), Ending(x, cl)
  PROVE  Ending(y, Received(cl, Head(x.toClient).items))
<1>1. PICK a \in Points : Has(cl, a) /\ Once(x.toClient, Batches) /\ \A b \in Of(x.toClient, Batches) : Runs(b.items, a)
  BY Zenon DEF Ending
<1> DEFINE e == Head(x.toClient)
           w == Received(cl, e.items)
<1>2. e \in Of(x.toClient, Batches) /\ e.items \in Seq(Items) /\ x.toClient \in Seq(Batches \cup Replies)
  BY HeadOfBatches DEF Connection
<1>3. Has(w, End(e.items, a)) /\ End(e.items, a) \in Points
  BY <1>1, <1>2, ReceivedHas, Places
<1>4. Of(y.toClient, Batches) = {} /\ Once(y.toClient, Batches)
  BY <1>1, <1>2, OfTail DEF Of
<1> HIDE DEF w
<1> QED
  BY <1>3, <1>4 DEF Ending, w

(* A client that has the ends of all queries has all of their rows. *)
Exact(cl) == \A q \in Query : ToSet(cl.rows[q]) = RowsOf(q) /\ InOrder(cl.rows[q])

(* Once the end of each query has come all rows have come. *)
LEMMA AllEndsAllRows ==
  ASSUME NEW cl \in ClientState, NEW p \in Points, Has(cl, p), Query \subseteq cl.eofs
  PROVE  Exact(cl)
<1> SUFFICES ASSUME NEW q \in Query PROVE ToSet(cl.rows[q]) = RowsOf(q) /\ InOrder(cl.rows[q])
  BY DEF Exact
<1>1. HasRows(cl, q, p) /\ HasEnd(q, p)
  BY DEF Has
<1>2. PICK e \in Items : Item(e).query = q /\ IsEOF(e) /\ Before(e, p)
  BY <1>1 DEF HasEnd
<1>3. ASSUME NEW d \in RowsOf(q) PROVE Before(d, p)
  <2>1. d \in Items /\ Item(d).query = q
    BY DEF RowsOf
  <2>2. ~Before(e, d) /\ e \in Points
    BY <1>2, <2>1, NothingAfterEnd DEF Points
  <2>3. Before(d, e) \/ d = e \/ Before(e, d)
    BY <2>1, <2>2, Order
  <2> QED
    BY <1>2, <2>1, <2>2, <2>3, Order
<1> QED
  BY <1>1, <1>3 DEF HasRows

-----------------------------------------------------------------------------
(* The FINAL queue. *)
LEMMA OrderedTail ==
  ASSUME NEW s, NEW f \in Seq(Session \X SeqID), f # <<>>, NEW n, NEW m \in Nat, Ordered(s, f, n, m),
         Head(f)[1] = s => Head(f)[2] \in Nat /\ Head(f)[2] <= m
  PROVE  Ordered(s, Tail(f), n, m)
<1> DEFINE t == Tail(f)
<1>1. Len(f) \in Nat /\ Len(f) >= 1 /\ Head(f) = f[1] /\ DOMAIN f = 1 .. Len(f)
  BY EmptySeq
<1>2. t \in Seq(Session \X SeqID) /\ Len(t) = Len(f) - 1 /\ DOMAIN t = 1 .. Len(t) /\ \A i \in 1 .. Len(t) : t[i] = f[i + 1]
  BY HeadTailProperties
<1> HIDE DEF t
<1>3. ToSet(f) = {f[i] : i \in 1 .. Len(f)} /\ ToSet(t) = {t[i] : i \in 1 .. Len(t)}
  BY <1>1, <1>2 DEF ToSet
<1>4. \A i \in 1 .. Len(f) : i = 1 \/ (i - 1 \in 1 .. Len(t) /\ (i - 1) + 1 = i)
  BY <1>1, <1>2
<1>5. \A i \in 1 .. Len(f) : i = 1 \/ (i - 1 \in 1 .. Len(t) /\ f[i] = t[i - 1])
  BY <1>2, <1>4
<1>6. ASSUME NEW k \in m + 1 .. n PROVE <<s, k>> \in ToSet(t)
  <2>1. PICK i \in 1 .. Len(f) : f[i] = <<s, k>>
    BY <1>3 DEF Ordered
  <2>2. i # 1
    <3>1. <<s, k>>[1] = s /\ <<s, k>>[2] = k /\ k > m
      OBVIOUS
    <3> QED
      BY <1>1, <2>1, <3>1
  <2>3. i - 1 \in 1 .. Len(t) /\ t[i - 1] = <<s, k>>
    BY <1>5, <2>1, <2>2
  <2> QED
    BY <1>3, <2>3
<1>7. ASSUME NEW i \in 1 .. Len(t), t[i][1] = s, t[i][2] > m + 1
      PROVE  \E j \in 1 .. i - 1 : t[j] = <<s, t[i][2] - 1>>
  <2>1. i + 1 \in 1 .. Len(f) /\ f[i + 1] = t[i]
    BY <1>1, <1>2
  <2>2. PICK j \in 1 .. (i + 1) - 1 : f[j] = <<s, t[i][2] - 1>>
    BY <1>7, <2>1 DEF Ordered
  <2>3. j # 1
    <3> SUFFICES ASSUME j = 1 PROVE FALSE
      OBVIOUS
    <3>1. Head(f)[1] = s /\ Head(f)[2] = t[i][2] - 1
      BY <1>1, <2>2
    <3>2. t[i][2] - 1 \in Nat /\ t[i][2] - 1 <= m
      BY <3>1
    <3>3. t[i] \in Session \X SeqID
      BY <1>2, ElementOfSeq
    <3>4. t[i][2] \in Nat
      BY <3>3, ResultsAre
    <3> QED
      BY <1>7, <3>2, <3>4
  <2>4. j \in 1 .. Len(f) /\ j - 1 \in 1 .. i - 1
    BY <1>1, <1>2, <2>3
  <2>5. t[j - 1] = f[j]
    BY <1>5, <2>3, <2>4
  <2> QED
    BY <2>2, <2>4, <2>5
<1> QED
  BY <1>6, <1>7 DEF Ordered, t

(* The pipeline repeats a batch, or sends the next one, of this session or   *)
(* of another one.                                                           *)
LEMMA OrderedAppend ==
  ASSUME NEW s \in Session, NEW f \in Seq(Session \X SeqID), NEW e \in Session \X SeqID,
         NEW n \in Nat, NEW m \in Nat, Ordered(s, f, n, m)
  PROVE  /\ e[1] # s => Ordered(s, Append(f, e), n, m)
         /\ e[1] = s /\ e[2] <= n => Ordered(s, Append(f, e), n, m)
         /\ e = <<s, n + 1>> => Ordered(s, Append(f, e), n + 1, m)
<1> DEFINE p == Append(f, e)
<1>1. /\ Len(f) \in Nat /\ Len(p) = Len(f) + 1 /\ DOMAIN f = 1 .. Len(f) /\ DOMAIN p = 1 .. Len(p)
      /\ \A i \in 1 .. Len(f) : p[i] = f[i]
      /\ p[Len(f) + 1] = e
  BY AppendProperties
<1>2. ToSet(p) = ToSet(f) \cup {e}
  <2> DEFINE T == Session \X SeqID
  <2>1. f \in Seq(T) /\ e \in T
    OBVIOUS
  <2> HIDE DEF T
  <2> QED
    BY <2>1, SetAppend
<1>3. ToSet(f) = {f[i] : i \in 1 .. Len(f)}
  BY <1>1 DEF ToSet
<1> HIDE DEF p
<1>4. \A i \in 1 .. Len(f) : p[i][1] = s /\ p[i][2] > m + 1 => \E j \in 1 .. i - 1 : p[j] = <<s, p[i][2] - 1>>
  <2> SUFFICES ASSUME NEW i \in 1 .. Len(f), p[i][1] = s, p[i][2] > m + 1
               PROVE  \E j \in 1 .. i - 1 : p[j] = <<s, p[i][2] - 1>>
    OBVIOUS
  <2>1. PICK j \in 1 .. i - 1 : f[j] = <<s, f[i][2] - 1>>
    BY <1>1 DEF Ordered
  <2>2. j \in 1 .. Len(f)
    BY <1>1
  <2> QED
    BY <1>1, <2>1, <2>2
<1>5. \A i \in 1 .. Len(p) : i \in 1 .. Len(f) \/ i = Len(f) + 1
  BY <1>1
<1>6. \A k \in m + 1 .. n : <<s, k>> \in ToSet(p)
  BY <1>2 DEF Ordered
<1>7. ASSUME NEW N \in {n, n + 1}, e[1] # s \/ (e[1] = s /\ e[2] <= N), N = n + 1 => e = <<s, N>>
      PROVE  Ordered(s, p, N, m)
  <2>1. \A k \in m + 1 .. N : <<s, k>> \in ToSet(p)
    <3> SUFFICES ASSUME NEW k \in m + 1 .. N PROVE <<s, k>> \in ToSet(p)
      OBVIOUS
    <3>1. k \in m + 1 .. n \/ (k = n + 1 /\ N = n + 1)
      OBVIOUS
    <3> QED
      BY <1>2, <1>6, <1>7, <3>1
  <2>2. e[1] = s /\ e[2] > m + 1 => \E j \in 1 .. Len(f) : p[j] = <<s, e[2] - 1>>
    <3> SUFFICES ASSUME e[1] = s, e[2] > m + 1 PROVE \E j \in 1 .. Len(f) : p[j] = <<s, e[2] - 1>>
      OBVIOUS
    <3>4. e[2] \in Nat
      BY ResultsAre
    <3>1. e[2] \in Nat /\ e[2] <= n + 1
      <4>1. CASE N = n
        BY <1>7, <3>4, <4>1
      <4>2. CASE N = n + 1
        BY <1>7, <3>4, <4>2
      <4> QED
        BY <4>1, <4>2
    <3>2. e[2] - 1 \in m + 1 .. n
      BY <3>1
    <3>3. <<s, e[2] - 1>> \in ToSet(f)
      BY <3>2 DEF Ordered
    <3> QED
      BY <1>1, <1>3, <3>3
  <2>3. \A i \in 1 .. Len(p) : p[i][1] = s /\ p[i][2] > m + 1 => \E j \in 1 .. i - 1 : p[j] = <<s, p[i][2] - 1>>
    <3> SUFFICES ASSUME NEW i \in 1 .. Len(p), p[i][1] = s, p[i][2] > m + 1
                 PROVE  \E j \in 1 .. i - 1 : p[j] = <<s, p[i][2] - 1>>
      OBVIOUS
    <3>1. CASE i \in 1 .. Len(f)
      BY <1>4, <3>1
    <3>2. CASE i = Len(f) + 1
      <4>1. p[i] = e /\ i - 1 = Len(f)
        BY <1>1, <3>2
      <4> QED
        BY <2>2, <4>1
    <3> QED
      BY <1>5, <3>1, <3>2
  <2> QED
    BY <2>1, <2>3 DEF Ordered
<1>8. e = <<s, n + 1>> => e[1] = s /\ e[2] = n + 1
  OBVIOUS
<1> QED
  BY <1>7, <1>8 DEF p

(* Batches of other sessions go back to the head of the FINAL queue. *)
LEMMA OrderedBehind ==
  ASSUME NEW s, NEW p \in Seq(Session \X SeqID), NEW f \in Seq(Session \X SeqID),
         \A i \in 1 .. Len(p) : p[i][1] # s, NEW n, NEW m, Ordered(s, f, n, m)
  PROVE  Ordered(s, p \o f, n, m)
<1> DEFINE g == p \o f
<1>1. /\ Len(p) \in Nat /\ Len(f) \in Nat /\ Len(g) = Len(p) + Len(f) /\ g \in Seq(Session \X SeqID)
      /\ \A i \in 1 .. Len(g) : g[i] = IF i <= Len(p) THEN p[i] ELSE f[i - Len(p)]
  BY ConcatProperties
<1>6. DOMAIN f = 1 .. Len(f) /\ DOMAIN g = 1 .. Len(g)
  BY <1>1
<1> HIDE DEF g
<1>2. ToSet(f) = {f[i] : i \in 1 .. Len(f)} /\ ToSet(g) = {g[i] : i \in 1 .. Len(g)}
  BY <1>6 DEF ToSet
<1>3. \A i \in 1 .. Len(f) : Len(p) + i \in 1 .. Len(g) /\ g[Len(p) + i] = f[i]
  <2> SUFFICES ASSUME NEW i \in 1 .. Len(f) PROVE Len(p) + i \in 1 .. Len(g) /\ g[Len(p) + i] = f[i]
    OBVIOUS
  <2>1. Len(p) + i \in 1 .. Len(g) /\ ~(Len(p) + i <= Len(p)) /\ (Len(p) + i) - Len(p) = i
    BY <1>1
  <2> QED
    BY <1>1, <2>1
<1>4. ASSUME NEW k \in m + 1 .. n PROVE <<s, k>> \in ToSet(g)
  <2>1. PICK i \in 1 .. Len(f) : f[i] = <<s, k>>
    BY <1>2 DEF Ordered
  <2> QED
    BY <1>2, <1>3, <2>1
<1>5. ASSUME NEW i \in 1 .. Len(g), g[i][1] = s, g[i][2] > m + 1
      PROVE  \E j \in 1 .. i - 1 : g[j] = <<s, g[i][2] - 1>>
  <2>1. ~(i <= Len(p))
    <3> SUFFICES ASSUME i <= Len(p) PROVE FALSE
      OBVIOUS
    <3>1. i \in 1 .. Len(p) /\ g[i] = p[i]
      BY <1>1
    <3> QED
      BY <1>5, <3>1
  <2>2. i - Len(p) \in 1 .. Len(f) /\ g[i] = f[i - Len(p)]
    BY <1>1, <2>1
  <2>3. PICK j \in 1 .. (i - Len(p)) - 1 : f[j] = <<s, g[i][2] - 1>>
    BY <1>5, <2>2 DEF Ordered
  <2>4. j \in 1 .. Len(f) /\ Len(p) + j \in 1 .. i - 1
    BY <1>1, <2>2
  <2> QED
    BY <1>3, <2>3, <2>4
<1> QED
  BY <1>4, <1>5 DEF Ordered, g

(* SetToSeq lists elements of the set. *)
LEMMA SequenceOfSet ==
  ASSUME NEW T, NEW S \in SUBSET T, IsFiniteSet(S)
  PROVE  /\ SetToSeq(S) \in Seq(T)
         /\ \A i \in 1 .. Len(SetToSeq(S)) : SetToSeq(S)[i] \in S
<1>1. Cardinality(S) \in Nat /\ ExistsBijection(1 .. Cardinality(S), S)
  BY FS_CardinalityType
<1>2. PICK g \in Bijection(1 .. Cardinality(S), S) : TRUE
  BY <1>1 DEF ExistsBijection
<1>3. g \in [1 .. Cardinality(S) -> S] /\ \A a, b \in 1 .. Cardinality(S) : g[a] = g[b] => a = b
  BY <1>2 DEF Bijection, Injection, IsInjective
<1>4. IsInjective(g)
  BY <1>3 DEF IsInjective
<1> DEFINE f == SetToSeq(S)
<1>5. f \in [1 .. Cardinality(S) -> S]
  BY <1>3, <1>4 DEF SetToSeq
<1> HIDE DEF f
<1>6. f \in [1 .. Cardinality(S) -> T]
  BY <1>5
<1>7. f \in Seq(T)
  BY <1>1, <1>6, SeqDef
<1>8. Len(f) = Cardinality(S)
  BY <1>1, <1>6, <1>7
<1> QED
  BY <1>5, <1>7, <1>8 DEF f

(* ForwardFinal takes the next batch of a session. *)
LEMMA ForwardTakes ==
  ASSUME NEW s \in Session, NEW r \in SessionState, OutputOK(r), NEW l \in [SeqID -> Nat], NEW n,
         NEW f \in Seq(Session \X SeqID), NEW x, NEW cl, f # <<>>, NEW k \in SeqID, Head(f) = <<s, k>>,
         Delivering(s, r, <<>>, l, n, f, x, cl),
         NEW t, NEW v, NEW h
  PROVE  /\ Dedup!Contains(r.seen, k) => Delivering(s, r, <<>>, l, n, Tail(f), x, cl)
         /\ ~Dedup!Contains(r.seen, k) /\ t = [r EXCEPT !.seen = Dedup!Add(r.seen, k)] /\ h = <<s, k, 1>>
              /\ v = [l EXCEPT ![k] = Len(Results[k])]
            => Delivering(s, t, h, v, n, Tail(f), x, cl)
<1>1. PICK m \in 0 .. Len(Results), a \in Points :
         Line(r, <<>>, l, m, a) /\ Ordered(s, f, n, m) /\ (Sent(r, x, cl, a) \/ Read(r, x, cl, a))
  BY Zenon DEF Delivering
<1>2. /\ k \in Nat /\ k >= 1 /\ m \in Nat /\ Len(Results[k]) \in Nat
      /\ Head(f)[1] = s /\ Head(f)[2] = k
  BY ResultsAre
<1>3. Dedup!Values(r.seen) = 1 .. m /\ Dedup!Canonical(r.seen)
  BY <1>1 DEF Line, OutputOK
<1>4. Dedup!Contains(r.seen, k) <=> k <= m
  BY <1>2, <1>3, SeenIs
<1>5. CASE Dedup!Contains(r.seen, k)
  <2>1. Ordered(s, Tail(f), n, m)
    BY <1>1, <1>2, <1>4, <1>5, OrderedTail
  <2> QED
    BY <1>1, <1>5, <2>1 DEF Delivering
<1>6. ASSUME ~Dedup!Contains(r.seen, k), t = [r EXCEPT !.seen = Dedup!Add(r.seen, k)], h = <<s, k, 1>>,
             v = [l EXCEPT ![k] = Len(Results[k])]
      PROVE  Delivering(s, t, h, v, n, Tail(f), x, cl)
  <2>1. k = m + 1
    <3> SUFFICES ASSUME k > m + 1 PROVE FALSE
      BY <1>2, <1>4, <1>6
    <3>1. 1 \in 1 .. Len(f) /\ f[1] = Head(f)
      BY EmptySeq
    <3>2. \E j \in 1 .. 1 - 1 : f[j] = <<s, f[1][2] - 1>>
      BY <1>1, <1>2, <3>1 DEF Ordered
    <3> QED
      BY <3>2
  <2>2. /\ t.seen = Dedup!Add(r.seen, k) /\ t.pending = r.pending /\ t.next = r.next /\ t.queue = r.queue
        /\ t.out = r.out /\ t.ackCh = r.ackCh
    BY <1>6 DEF SessionState
  <2>3. Dedup!Values(t.seen) = 1 .. k
    <3>1. Dedup!Values(t.seen) = (1 .. m) \cup {k}
      BY <1>3, <2>2, SeenIs
    <3>2. 1 .. k = (1 .. m) \cup {k}
      BY <1>2, <2>1
    <3> QED
      BY <3>1, <3>2
  <2>4. TailOf(h, k) = TailOf(<<>>, m) /\ h # <<>> /\ h[2] = k
    BY <1>6, <2>1 DEF TailOf
  <2>5. ASSUME NEW i \in 1 .. k PROVE v[i] >= Cardinality(Rest(i, a))
    <3>1. CASE i = k
      <4>1. v[i] = Len(Results[k])
        BY <1>6, <3>1
      <4>2. Rest(k, a) \subseteq 1 .. Len(Results[k])
        BY DEF Rest
      <4>3. IsFiniteSet(1 .. Len(Results[k])) /\ Cardinality(1 .. Len(Results[k])) = Len(Results[k])
        <5> DEFINE L == Len(Results[k])
        <5>1. L \in Int /\ 1 \in Int /\ L \in Nat
          BY <1>2
        <5> HIDE DEF L
        <5>2. IsFiniteSet(1 .. L) /\ Cardinality(1 .. L) = IF 1 > L THEN 0 ELSE L - 1 + 1
          BY <5>1, FS_Interval
        <5>3. Cardinality(1 .. L) = L
          BY <5>1, <5>2
        <5> QED
          BY <5>2, <5>3 DEF L
      <4>4. Cardinality(Rest(k, a)) <= Len(Results[k])
        BY <4>2, <4>3, FS_Subset
      <4>5. Cardinality(Rest(k, a)) \in Nat
        BY <4>2, <4>3, FS_Subset, FS_CardinalityType
      <4> QED
        BY <1>2, <3>1, <4>1, <4>4, <4>5
    <3>2. CASE i # k
      <4>1. i \in 1 .. m
        BY <1>2, <2>1, <3>2
      <4>2. v[i] = l[i]
        BY <1>6, <3>2
      <4> QED
        BY <1>1, <4>1, <4>2 DEF Line
    <3> QED
      BY <3>1, <3>2
  <2>6. Line(t, h, v, k, a)
    <3>1. Pending(t, a) = Pending(r, a) /\ Taken(t, a) = Taken(r, a)
      BY <2>2 DEF Pending, Taken
    <3> QED
      BY <1>1, <2>2, <2>3, <2>4, <2>5, <3>1 DEF Line
  <2>7. Ordered(s, Tail(f), n, k)
    <3>1. Ordered(s, f, n, k)
      <4>1. \A i \in k + 1 .. n : i \in m + 1 .. n
        BY <1>2, <2>1
      <4>2. \A i \in 1 .. Len(f) : f[i][1] = s /\ f[i][2] > k + 1 => f[i][2] > m + 1
        <5> SUFFICES ASSUME NEW i \in 1 .. Len(f), f[i][2] > k + 1 PROVE f[i][2] > m + 1
          OBVIOUS
        <5>1. f[i] \in Session \X SeqID
          BY ElementOfSeq
        <5>2. f[i][2] \in Nat
          BY <5>1, ResultsAre
        <5> QED
          BY <1>2, <2>1, <5>2
      <4> QED
        BY <1>1, <4>1, <4>2 DEF Ordered
    <3> QED
      BY <1>2, <3>1, OrderedTail
  <2>8. Sent(t, x, cl, a) \/ Read(t, x, cl, a)
    <3>1. CASE Sent(r, x, cl, a)
      BY <2>2, <3>1 DEF Sent
    <3>2. CASE Read(r, x, cl, a)
      BY <2>2, <3>2 DEF Read, Pending
    <3> QED
      BY <1>1, <3>1, <3>2
  <2>9. t.out # "done" /\ k \in 0 .. Len(Results)
    BY <2>2, ResultsAre DEF Delivering
  <2> QED
    BY <2>6, <2>7, <2>8, <2>9 DEF Delivering
<1> QED
  BY <1>5, <1>6

(* EnqueueResult puts the next item in the queue. *)
LEMMA EnqueueAdds ==
  ASSUME NEW s, NEW r \in SessionState, NEW k \in SeqID, NEW j \in 1 .. Len(Results[k]),
         NEW l, NEW n, NEW f, NEW x, NEW cl,
         NEW t, t.seen = r.seen, t.pending = r.pending, t.next = r.next, t.queue = Append(r.queue, <<k, j>>),
         t.out = r.out, t.ackCh = r.ackCh,
         NEW h, j < Len(Results[k]) => h = <<s, k, j + 1>>, ~(j < Len(Results[k])) => h = <<>>,
         Delivering(s, r, <<s, k, j>>, l, n, f, x, cl)
  PROVE  Delivering(s, t, h, l, n, f, x, cl)
<1>1. PICK m \in 0 .. Len(Results), a \in Points :
         Line(r, <<s, k, j>>, l, m, a) /\ Ordered(s, f, n, m) /\ (Sent(r, x, cl, a) \/ Read(r, x, cl, a))
  BY Zenon DEF Delivering
<1>2. /\ t.seen = r.seen /\ t.pending = r.pending /\ t.next = r.next /\ t.queue = Append(r.queue, <<k, j>>)
      /\ t.out = r.out /\ t.ackCh = r.ackCh /\ r.queue \in Seq(Items)
  BY DEF SessionState
<1> DEFINE b == Taken(r, a)
<1>3. /\ m = k /\ Runs(r.queue, b) /\ End(r.queue, b) = <<k, j>>
  <2>1. <<s, k, j>> # <<>> /\ <<s, k, j>>[2] = k /\ <<s, k, j>>[3] = j
    OBVIOUS
  <2> QED
    BY <1>1, <2>1 DEF Line, TailOf
<1>4. <<k, j>> \in Items /\ k \in Nat /\ j \in Nat
  BY ItemsAre, ResultsAre
<1> HIDE DEF b
<1>5. Runs(t.queue, b) /\ End(t.queue, b) = After(<<k, j>>)
  <2> DEFINE e == End(r.queue, b)
  <2>1. e = <<k, j>> /\ e \in Items /\ r.queue \in Seq(Items) /\ Runs(r.queue, b)
    BY <1>2, <1>3, <1>4
  <2>2. Runs(Append(r.queue, e), b) /\ End(Append(r.queue, e), b) = After(e)
    BY <2>1, RunsAppend
  <2> HIDE DEF e
  <2> QED
    BY <1>2, <2>1, <2>2
<1>6. TailOf(h, m) = After(<<k, j>>)
  <2>1. CASE j < Len(Results[k])
    <3>1. h = <<s, k, j + 1>> /\ h # <<>> /\ h[2] = k /\ h[3] = j + 1
      BY <2>1
    <3> QED
      BY <1>4, <2>1, <3>1, Afters DEF TailOf
  <2>2. CASE ~(j < Len(Results[k]))
    BY <1>3, <1>4, <2>2, Afters DEF TailOf
  <2> QED
    BY <2>1, <2>2
<1>7. h # <<>> => h[2] = m
  BY <1>3
<1>8. Pending(t, a) = Pending(r, a) /\ Taken(t, a) = b
  BY <1>2 DEF Pending, Taken, b
<1>9. Line(t, h, l, m, a)
  BY <1>1, <1>2, <1>5, <1>6, <1>7, <1>8 DEF Line, b
<1>10. Sent(t, x, cl, a) \/ Read(t, x, cl, a)
  <2>1. CASE Sent(r, x, cl, a)
    BY <1>2, <2>1 DEF Sent
  <2>2. CASE Read(r, x, cl, a)
    BY <1>2, <2>2 DEF Read, Pending
  <2> QED
    BY <1>1, <2>1, <2>2
<1>11. t.out # "done"
  BY <1>2 DEF Delivering
<1> QED
  BY <1>1, <1>9, <1>10, <1>11 DEF Delivering

(* Accept *)
LEMMA AcceptBegins ==
  ASSUME NEW s \in Session, NEW f \in Seq(Session \X SeqID), \A i \in 1 .. Len(f) : f[i][1] # s,
         NEW l, NEW x, x.toGateway = <<"connect">>, x.toClient = <<>>,
         NEW r, r.seen = <<>>, r.pending = <<>>, r.next = <<>>, r.queue = <<>>, r.out = "off", r.ackCh = FALSE,
         NEW cl, cl.rows = [q \in Query |-> <<>>], cl.open = {}, cl.eofs = {}
  PROVE  Delivering(s, r, <<>>, l, 0, f, x, cl)
<1> DEFINE a == <<1, 1>>
<1>1. a \in Points /\ 0 \in 0 .. Len(Results)
  BY PointsAre, ResultsAre
<1>2. \A d \in Items : ~Before(d, a)
  BY <1>1, Order
<1>3. Has(cl, a)
  <2> SUFFICES ASSUME NEW q \in Query
               PROVE  /\ HasRows(cl, q, a) /\ (q \in cl.eofs <=> HasEnd(q, a))
                      /\ (q \in cl.open <=> q \notin cl.eofs /\ cl.rows[q] # <<>>)
    BY DEF Has
  <2>1. cl.rows[q] = <<>> /\ ToSet(<<>>) = {} /\ InOrder(<<>>)
    BY DEF ToSet, InOrder
  <2>2. {d \in RowsOf(q) : Before(d, a)} = {}
    BY <1>2 DEF RowsOf
  <2>3. ~HasEnd(q, a)
    BY <1>2 DEF HasEnd
  <2> QED
    BY <2>1, <2>2, <2>3 DEF HasRows
<1> HIDE DEF a
<1>4. Pending(r, a) = a /\ Taken(r, a) = a /\ Runs(<<>>, a) /\ End(<<>>, a) = a
  BY RunsNone DEF Pending, Taken
<1>5. TailOf(<<>>, 0) = a
  BY DEF TailOf, a
<1>6. Line(r, <<>>, l, 0, a)
  BY <1>4, <1>5, NothingSeen DEF Line
<1>7. Ordered(s, f, 0, 0)
  BY DEF Ordered
<1>8. Of(x.toGateway, Acks) = {}
  BY DEF Of, ToSet, Acks
<1>9. Sent(r, x, cl, a)
  BY <1>3, <1>8, OfNothing DEF Sent
<1> QED
  BY <1>1, <1>6, <1>7, <1>9 DEF Delivering

-----------------------------------------------------------------------------
(* The inductive invariant of the delivery. *)

HandFor(s) == IF gw.hand # <<>> /\ gw.hand[1] = s THEN gw.hand ELSE <<>>

GatewayState == [phase : {"down", "reviving", "serving"}, clients : SUBSET Session, registry : SUBSET Session,
                 toAbort : SUBSET Session, hand : {<<>>} \cup (Session \X SeqID \X Nat)]

Typed ==
  /\ client \in [Client -> ClientState] /\ conn \in [Session -> Connection] /\ sess \in [Session -> SessionState]
  /\ gw \in GatewayState /\ produced \in [Session -> 0 .. Len(Results)]
  /\ final \in Seq(Session \X SeqID) /\ left \in [Session -> [SeqID -> Nat]]
  /\ opened \in 0 .. MaxSessions /\ faults \in 0 .. MaxFaults + 1

Phases ==
  \A c \in Client :
    /\ client[c].phase = "idle" => client[c] = NoClient
    /\ client[c].phase \in {"connect", "send"} => client[c].sent < Messages
    /\ client[c].phase = "done" => Exact(client[c])

(* Each client has a session of its own. *)
Sids ==
  /\ \A c \in Client : client[c].phase # "idle" => client[c].sid \in 1 .. opened
  /\ \A c, d \in Client :
       client[c].phase # "idle" /\ client[d].phase # "idle" /\ client[c].sid = client[d].sid => c = d

(* What the gateway knows of each session. *)
Registered ==
  /\ gw.registry \subseteq 1 .. opened /\ gw.toAbort \subseteq gw.clients
  /\ gw.hand # <<>> => gw.hand[1] <= opened
  /\ \A s \in Session : /\ conn[s].gwOpen => s \in gw.registry
                        /\ OutputOK(sess[s])
                        /\ s > opened => sess[s] = NewSession /\ produced[s] = 0

Counted ==
  /\ \A s \in Session, k \in SeqID : left[s][k] <= Len(Results[k]) /\ (left[s][k] > 0 => k <= produced[s])
  /\ \A i \in 1 .. Len(final) : final[i][2] <= produced[final[i][1]]

Busy(c) == client[c].phase \notin {"idle", "done"}
ServingOf(s, cl) == Serving(s, sess[s], HandFor(s), left[s], produced[s], final, conn[s], cl)
Streaming == \A c \in Client : Busy(c) /\ conn[client[c].sid].clOpen => ServingOf(client[c].sid, client[c])

DeliveryInv == Typed /\ Phases /\ Sids /\ Registered /\ Counted /\ Streaming

-----------------------------------------------------------------------------
(* The session of a client. *)
LEMMA SidsAre ==
  ASSUME DeliveryInv, NEW c \in Client
  PROVE  /\ client[c] \in ClientState
         /\ client[c].phase # "idle" => client[c].sid \in Session /\ client[c].sid <= opened
         /\ client[c].phase # "idle" => client[c].sid # 0
<1>1. client[c] \in ClientState
  BY DEF DeliveryInv, Typed
<1>2. client[c].phase # "idle" => client[c].sid \in 1 .. opened
  BY DEF DeliveryInv, Sids
<1>3. opened \in 0 .. MaxSessions /\ MaxSessions \in Nat
  BY ConstantsAssumption DEF DeliveryInv, Typed, ConstantsAssumption
<1> QED
  BY <1>1, <1>2, <1>3 DEF Session

(* Steps of a session s that leave the others as they are: r, x, l, n and h  *)
(* are what there is of s afterwards.                                        *)
OthersStay(s, r, x, l, n, h) ==
  /\ sess' = [sess EXCEPT ![s] = r] /\ conn' = [conn EXCEPT ![s] = x] /\ left' = [left EXCEPT ![s] = l]
  /\ produced' = [produced EXCEPT ![s] = n]
  /\ \A t \in Session : HandFor(t)' = IF t = s THEN h ELSE HandFor(t)
  /\ \A t \in Session \ {s}, m \in 0 .. Len(Results) :
       Ordered(t, final, produced[t], m) => Ordered(t, final', produced[t], m)

(* A step of session s leaves the others as they are. *)
LEMMA Others ==
  ASSUME DeliveryInv, NEW s \in Session, NEW r, NEW x, NEW l, NEW n, NEW h, OthersStay(s, r, x, l, n, h)
  PROVE  /\ sess'[s] = r /\ conn'[s] = x /\ left'[s] = l /\ produced'[s] = n /\ HandFor(s)' = h
         /\ \A t \in Session \ {s} : /\ sess'[t] = sess[t] /\ conn'[t] = conn[t] /\ left'[t] = left[t]
                                     /\ produced'[t] = produced[t] /\ HandFor(t)' = HandFor(t)
         /\ \A t \in Session \ {s} : \A cl : ServingOf(t, cl) =>
              Serving(t, sess'[t], HandFor(t)', left'[t], produced'[t], final', conn'[t], cl)
<1>1. /\ sess'[s] = r /\ conn'[s] = x /\ left'[s] = l /\ produced'[s] = n
      /\ \A t \in Session \ {s} : /\ sess'[t] = sess[t] /\ conn'[t] = conn[t] /\ left'[t] = left[t]
                                  /\ produced'[t] = produced[t]
  BY DEF DeliveryInv, Typed, OthersStay
<1>2. HandFor(s)' = h /\ \A t \in Session \ {s} : HandFor(t)' = HandFor(t)
  BY DEF OthersStay
<1>3. ASSUME NEW t \in Session \ {s}, NEW cl, ServingOf(t, cl)
      PROVE  Serving(t, sess[t], HandFor(t), left[t], produced[t], final', conn[t], cl)
  <2>1. CASE conn[t].gwOpen
    <3>1. Delivering(t, sess[t], HandFor(t), left[t], produced[t], final, conn[t], cl)
      BY <1>3, <2>1 DEF ServingOf, Serving
    <3>2. \A m \in 0 .. Len(Results) : Ordered(t, final, produced[t], m) => Ordered(t, final', produced[t], m)
      BY DEF OthersStay
    <3>3. Delivering(t, sess[t], HandFor(t), left[t], produced[t], final', conn[t], cl)
      BY <3>1, <3>2 DEF Delivering
    <3> QED
      BY <2>1, <3>3 DEF Serving
  <2>2. CASE ~conn[t].gwOpen
    BY <1>3, <2>2 DEF ServingOf, Serving
  <2> QED
    BY <2>1, <2>2
<1> QED
  BY <1>1, <1>2, <1>3

(* A step of session s keeps the invariant, when it keeps what the invariant *)
(* says of s.                                                                *)
LEMMA SessionStep ==
  ASSUME DeliveryInv, NEW s \in Session, NEW r \in SessionState, NEW x \in Connection, NEW l \in [SeqID -> Nat],
         NEW n \in 0 .. Len(Results), NEW h, OthersStay(s, r, x, l, n, h),
         OutputOK(r), s <= opened, n >= produced[s],
         \A k \in SeqID : l[k] <= Len(Results[k]) /\ (l[k] > 0 => k <= n),
         x.clOpen => conn[s].clOpen, x.gwOpen => conn[s].gwOpen,
         UNCHANGED <<client, opened>>, faults' \in 0 .. MaxFaults + 1,
         gw' \in GatewayState, gw'.toAbort \subseteq gw'.clients, gw'.registry \subseteq gw.registry,
         gw.registry \ {s} \subseteq gw'.registry, x.gwOpen => s \in gw'.registry,
         final' \in Seq(Session \X SeqID),
         \A i \in 1 .. Len(final') : final'[i][2] <= produced[final'[i][1]] \/ (final'[i][1] = s /\ final'[i][2] <= n),
         \A cl \in ClientState : x.clOpen /\ ServingOf(s, cl) => Serving(s, r, h, l, n, final', x, cl)
  PROVE  DeliveryInv'
<1>1. /\ sess'[s] = r /\ conn'[s] = x /\ left'[s] = l /\ produced'[s] = n /\ HandFor(s)' = h
      /\ \A t \in Session \ {s} : /\ sess'[t] = sess[t] /\ conn'[t] = conn[t] /\ left'[t] = left[t]
                                  /\ produced'[t] = produced[t] /\ HandFor(t)' = HandFor(t)
      /\ \A t \in Session \ {s} : \A cl : ServingOf(t, cl) =>
           Serving(t, sess'[t], HandFor(t)', left'[t], produced'[t], final', conn'[t], cl)
  BY Others
<1>2. Typed'
  BY DEF DeliveryInv, Typed, OthersStay
<1>3. Phases' /\ Sids'
  BY DEF DeliveryInv, Phases, Sids
<1>4. Registered'
  <2>1. gw'.registry \subseteq 1 .. opened'
    BY DEF DeliveryInv, Registered
  <2>2. gw'.hand # <<>> => gw'.hand[1] <= opened'
    <3> SUFFICES ASSUME gw'.hand # <<>> PROVE gw'.hand[1] <= opened
      OBVIOUS
    <3>1. PICK t \in Session : t = gw'.hand[1]
      BY DEF GatewayState
    <3>2. CASE t = s
      BY <3>1, <3>2
    <3>3. CASE t # s
      <4>1. HandFor(t)' = gw'.hand
        BY <3>1 DEF HandFor
      <4>2. HandFor(t) = gw'.hand
        BY <1>1, <3>3, <4>1
      <4>3. gw.hand = gw'.hand
        BY <4>2 DEF HandFor
      <4> QED
        BY <4>3 DEF DeliveryInv, Registered
    <3> QED
      BY <3>2, <3>3
  <2>3. ASSUME NEW t \in Session
        PROVE  /\ conn'[t].gwOpen => t \in gw'.registry
               /\ OutputOK(sess'[t])
               /\ t > opened' => sess'[t] = NewSession /\ produced'[t] = 0
    <3>1. CASE t = s
      <4>1. s \in Int /\ opened \in Int
        BY DEF DeliveryInv, Typed, Session
      <4> QED
        BY <1>1, <3>1, <4>1
    <3>2. CASE t # s
      BY <1>1, <3>2 DEF DeliveryInv, Registered
    <3> QED
      BY <3>1, <3>2
  <2> QED
    BY <2>1, <2>2, <2>3 DEF Registered
<1>5. Counted'
  <2>1. ASSUME NEW t \in Session, NEW k \in SeqID
        PROVE  left'[t][k] <= Len(Results[k]) /\ (left'[t][k] > 0 => k <= produced'[t])
    <3>1. CASE t = s
      BY <1>1, <3>1
    <3>2. CASE t # s
      BY <1>1, <3>2 DEF DeliveryInv, Counted
    <3> QED
      BY <3>1, <3>2
  <2>2. ASSUME NEW i \in 1 .. Len(final') PROVE final'[i][2] <= produced'[final'[i][1]]
    <3>1. final'[i] \in Session \X SeqID
      BY ElementOfSeq
    <3>2. final'[i][2] \in Nat /\ final'[i][1] \in Session /\ produced[s] \in Nat
      <4>1. final'[i][2] \in SeqID /\ final'[i][1] \in Session
        BY <3>1
      <4>2. produced[s] \in 0 .. Len(Results)
        BY DEF DeliveryInv, Typed
      <4> QED
        BY <4>1, <4>2, ResultsAre
    <3>3. CASE final'[i][1] = s
      BY <1>1, <3>2, <3>3
    <3>4. CASE final'[i][1] # s
      BY <1>1, <3>2, <3>4
    <3> QED
      BY <3>3, <3>4
  <2> QED
    BY <2>1, <2>2 DEF Counted
<1>6. Streaming'
  <2> SUFFICES ASSUME NEW c \in Client, client[c].phase \notin {"idle", "done"}, conn'[client[c].sid].clOpen
               PROVE  LET t == client[c].sid
                      IN Serving(t, sess'[t], HandFor(t)', left'[t], produced'[t], final', conn'[t], client[c])
    BY DEF Streaming, Busy, ServingOf
  <2>1. client[c] \in ClientState /\ client[c].sid \in Session
    BY SidsAre
  <2>2. conn[client[c].sid].clOpen
    BY <1>1, <2>1
  <2>3. ServingOf(client[c].sid, client[c])
    BY <2>2 DEF DeliveryInv, Streaming, Busy
  <2>4. CASE client[c].sid = s
    BY <1>1, <2>1, <2>3, <2>4
  <2>5. CASE client[c].sid # s
    BY <1>1, <2>1, <2>3, <2>5
  <2> QED
    BY <2>4, <2>5
<1> QED
  BY <1>2, <1>3, <1>4, <1>5, <1>6 DEF DeliveryInv

(* Steps of a client c that leave the others, and the gateway, as they are:  *)
(* w and x are what there is of it and of its connection afterwards.         *)
LEMMA ClientMoves ==
  ASSUME DeliveryInv, NEW c \in Client, NEW s \in Session, client[c].phase # "idle", client[c].sid = s,
         NEW w \in ClientState, NEW x \in Connection,
         client' = [client EXCEPT ![c] = w], conn' = [conn EXCEPT ![s] = x],
         UNCHANGED <<sess, gw, left, produced, final, opened, faults>>,
         x.clOpen => conn[s].clOpen, x.gwOpen => conn[s].gwOpen,
         w.phase = "idle" => w = NoClient, w.phase \in {"connect", "send"} => w.sent < Messages,
         w.phase = "done" => Exact(w), w.phase # "idle" => w.sid = s,
         w.phase \notin {"idle", "done"} /\ x.clOpen =>
           /\ client[c].phase # "done"
           /\ ServingOf(s, client[c]) => Serving(s, sess[s], HandFor(s), left[s], produced[s], final, x, w)
  PROVE  DeliveryInv'
<1>1. /\ client'[c] = w /\ \A d \in Client \ {c} : client'[d] = client[d]
      /\ conn'[s] = x /\ \A t \in Session \ {s} : conn'[t] = conn[t]
  BY DEF DeliveryInv, Typed
<1>2. Typed'
  BY DEF DeliveryInv, Typed, GatewayState
<1>3. Phases'
  BY <1>1 DEF DeliveryInv, Phases
<1>4. Sids'
  <2>1. \A d \in Client : client'[d].phase # "idle" => client[d].phase # "idle" /\ client'[d].sid = client[d].sid
    BY <1>1
  <2> QED
    BY <2>1 DEF DeliveryInv, Sids
<1>5. Registered' /\ Counted'
  BY <1>1 DEF DeliveryInv, Registered, Counted
<1>6. Streaming'
  <2> SUFFICES ASSUME NEW d \in Client, client'[d].phase \notin {"idle", "done"}, conn'[client'[d].sid].clOpen
               PROVE  LET t == client'[d].sid
                      IN Serving(t, sess[t], HandFor(t), left[t], produced[t], final, conn'[t], client'[d])
    BY DEF Streaming, Busy, ServingOf, HandFor
  <2>1. CASE d = c
    <3>1. client'[d] = w /\ w.sid = s
      BY <1>1, <2>1
    <3>2. ServingOf(s, client[c])
      BY <1>1, <2>1, <3>1 DEF DeliveryInv, Streaming, Busy
    <3> QED
      BY <1>1, <2>1, <3>1, <3>2
  <2>2. CASE d # c
    <3>1. client'[d] = client[d] /\ client[d].sid \in Session
      BY <1>1, <2>2, SidsAre
    <3>2. client[d].sid # s
      BY <2>2, <3>1 DEF DeliveryInv, Sids
    <3>3. conn'[client[d].sid] = conn[client[d].sid]
      BY <1>1, <3>1, <3>2
    <3> QED
      BY <3>1, <3>3 DEF DeliveryInv, Streaming, Busy, ServingOf
  <2> QED
    BY <2>1, <2>2
<1> QED
  BY <1>2, <1>3, <1>4, <1>5, <1>6 DEF DeliveryInv

(* Steps of the gateway that concern no session. *)
LEMMA GatewayMoves ==
  ASSUME DeliveryInv, gw' \in GatewayState, gw'.registry = gw.registry, gw'.hand = gw.hand,
         gw'.toAbort \subseteq gw'.clients,
         UNCHANGED <<client, conn, sess, left, produced, final, opened, faults>>
  PROVE  DeliveryInv'
<1>1. Typed' /\ Phases' /\ Sids' /\ Counted'
  BY DEF DeliveryInv, Typed, Phases, Sids, Counted
<1>2. Registered'
  BY DEF DeliveryInv, Registered
<1>3. \A s : HandFor(s)' = HandFor(s)
  BY DEF HandFor
<1>4. Streaming'
  BY <1>3 DEF DeliveryInv, Streaming, Busy, ServingOf
<1> QED
  BY <1>1, <1>2, <1>4 DEF DeliveryInv

(* The invariant holds in the beginning. *)
LEMMA InitDelivery == Init => DeliveryInv
<1> SUFFICES ASSUME Init PROVE DeliveryInv
  OBVIOUS
<1>1. 0 \in 0 .. MaxSessions /\ 0 \in 0 .. MaxFaults + 1 /\ 0 \in 0 .. Len(Results) /\ 0 \in 0 .. Messages /\ 0 < Messages
  BY ConstantsAssumption, ResultsAre DEF ConstantsAssumption
<1>2. /\ NoClient \in ClientState /\ NoClient.phase = "idle"
  BY <1>1 DEF NoClient, ClientState
<1>3. NewSession \in SessionState /\ OutputOK(NewSession)
  <2>1. NewSession \in SessionState
    BY DEF NewSession, SessionState
  <2>2. OutputOK(NewSession)
    BY ConstantsAssumption, NothingSeen DEF NewSession, OutputOK, ConstantsAssumption
  <2> QED
    BY <2>1, <2>2
<1>4. [clOpen |-> FALSE, gwOpen |-> FALSE, toGateway |-> <<>>, toClient |-> <<>>] \in Connection
  BY DEF Connection
<1>5. Typed
  <2>1. gw \in GatewayState
    BY DEF Init, GatewayState
  <2>2. client \in [Client -> ClientState] /\ conn \in [Session -> Connection] /\ sess \in [Session -> SessionState]
    BY <1>2, <1>3, <1>4 DEF Init
  <2>3. final \in Seq(Session \X SeqID) /\ left \in [Session -> [SeqID -> Nat]] /\ produced \in [Session -> 0 .. Len(Results)]
    BY <1>1 DEF Init
  <2> QED
    BY <1>1, <2>1, <2>2, <2>3 DEF Init, Typed
<1>6. Phases /\ Sids /\ Streaming
  BY <1>2 DEF Init, Phases, Sids, Streaming, Busy
<1>7. Registered
  BY <1>3 DEF Init, Registered
<1>8. Counted
  BY ResultsAre DEF Init, Counted
<1> QED
  BY <1>5, <1>6, <1>7, <1>8 DEF DeliveryInv

-----------------------------------------------------------------------------
(* The steps of the sessions. *)

ConnectionMessages == {"connect", "data", "resultAck"}

(* HasRead: a message is at the head of a connection that is open. *)
LEMMA HasReadIs ==
  ASSUME DeliveryInv, NEW s \in Session, NEW m, HasRead(s, m)
  PROVE  /\ conn[s] \in Connection /\ conn[s].gwOpen /\ conn[s].toGateway # <<>> /\ Head(conn[s].toGateway) = m
         /\ conn[s].toGateway \in Seq(ConnectionMessages) /\ conn[s].toClient \in Seq(Batches \cup Replies)
  BY DEF DeliveryInv, Typed, HasRead, Connection, ConnectionMessages

(* Take changes one connection. *)
LEMMA TakeIs ==
  ASSUME DeliveryInv, NEW s \in Session, conn[s].toGateway # <<>>
  PROVE  \E x \in Connection :
           /\ Take(s) = [conn EXCEPT ![s] = x]
           /\ x.clOpen = conn[s].clOpen /\ x.gwOpen = conn[s].gwOpen
           /\ x.toGateway = Tail(conn[s].toGateway) /\ x.toClient = conn[s].toClient
<1> DEFINE x == [conn[s] EXCEPT !.toGateway = Tail(conn[s].toGateway)]
<1>1. conn \in [Session -> Connection] /\ conn[s] \in Connection
  BY DEF DeliveryInv, Typed
<1>2. Tail(conn[s].toGateway) \in Seq(ConnectionMessages)
  BY <1>1 DEF Connection, ConnectionMessages
<1>3. x \in Connection /\ x.clOpen = conn[s].clOpen /\ x.gwOpen = conn[s].gwOpen
      /\ x.toGateway = Tail(conn[s].toGateway) /\ x.toClient = conn[s].toClient
  BY <1>1, <1>2 DEF Connection, ConnectionMessages
<1>4. Take(s) = [conn EXCEPT ![s] = x]
  BY <1>1 DEF Take
<1> HIDE DEF x
<1> QED
  BY <1>3, <1>4

(* Reply changes one connection. *)
LEMMA ReplyIs ==
  ASSUME DeliveryInv, NEW s \in Session, conn[s].toGateway # <<>>, NEW m \in {"connectAck", "ingestAck"}
  PROVE  \E x \in Connection :
           /\ Reply(s, m) = [conn EXCEPT ![s] = x]
           /\ x.clOpen = conn[s].clOpen /\ x.gwOpen = conn[s].gwOpen
           /\ x.toGateway = Tail(conn[s].toGateway)
           /\ x.toClient = IF conn[s].clOpen THEN Append(conn[s].toClient, [type |-> m]) ELSE conn[s].toClient
<1> DEFINE c == IF conn[s].clOpen THEN Append(conn[s].toClient, [type |-> m]) ELSE conn[s].toClient
<1>1. conn \in [Session -> Connection] /\ conn[s] \in Connection
  BY DEF DeliveryInv, Typed
<1>2. c \in Seq(Batches \cup Replies)
  <2>1. [type |-> m] \in Replies /\ conn[s].toClient \in Seq(Batches \cup Replies)
    BY <1>1, MessagesAre DEF Connection
  <2> QED
    BY <2>1
<1> HIDE DEF c
<1>3. PICK y \in Connection :
           /\ Take(s) = [conn EXCEPT ![s] = y]
           /\ y.clOpen = conn[s].clOpen /\ y.gwOpen = conn[s].gwOpen
           /\ y.toGateway = Tail(conn[s].toGateway) /\ y.toClient = conn[s].toClient
  BY TakeIs
<1> DEFINE x == [y EXCEPT !.toClient = c]
<1>4. /\ x \in Connection /\ x.clOpen = conn[s].clOpen /\ x.gwOpen = conn[s].gwOpen
      /\ x.toGateway = Tail(conn[s].toGateway) /\ x.toClient = c
  BY <1>2, <1>3 DEF Connection
<1>5. Reply(s, m) = [conn EXCEPT ![s] = x]
  <2>1. Reply(s, m) = [Take(s) EXCEPT ![s].toClient = c]
    BY <1>1, <1>3 DEF Reply, c
  <2> QED
    BY <1>1, <1>3, <2>1
<1> HIDE DEF x
<1> QED
  BY <1>4, <1>5 DEF c

(* GatewayCloses, ClientCloses and TakeReply change one connection. *)
LEMMA ClosesIs ==
  ASSUME DeliveryInv, NEW s \in Session
  PROVE  /\ \E x \in Connection :
              /\ GatewayCloses(s) = [conn EXCEPT ![s] = x]
              /\ x.clOpen = conn[s].clOpen /\ x.gwOpen = FALSE /\ x.toClient = conn[s].toClient
         /\ \E x \in Connection :
              /\ ClientCloses(s) = [conn EXCEPT ![s] = x]
              /\ x.clOpen = FALSE /\ x.gwOpen = conn[s].gwOpen /\ x.toGateway = conn[s].toGateway
         /\ \E x \in Connection :
              /\ conn[s].toClient # <<>> => TakeReply(s) = [conn EXCEPT ![s] = x]
              /\ conn[s].toClient # <<>> => x.toClient = Tail(conn[s].toClient)
              /\ x.clOpen = conn[s].clOpen /\ x.gwOpen = conn[s].gwOpen /\ x.toGateway = conn[s].toGateway
<1>1. conn \in [Session -> Connection] /\ conn[s] \in Connection
  BY DEF DeliveryInv, Typed
<1>2. \E x \in Connection :
              /\ GatewayCloses(s) = [conn EXCEPT ![s] = x]
              /\ x.clOpen = conn[s].clOpen /\ x.gwOpen = FALSE /\ x.toClient = conn[s].toClient
  <2> DEFINE x == [conn[s] EXCEPT !.gwOpen = FALSE, !.toGateway = <<>>]
  <2>0. <<>> \in Seq({"connect", "data", "resultAck"}) /\ FALSE \in BOOLEAN
    OBVIOUS
  <2>1. x \in Connection /\ x.clOpen = conn[s].clOpen /\ x.gwOpen = FALSE /\ x.toClient = conn[s].toClient
    BY <1>1, <2>0 DEF Connection
  <2>2. GatewayCloses(s) = [conn EXCEPT ![s] = x]
    BY <1>1 DEF GatewayCloses
  <2> HIDE DEF x
  <2> QED
    BY <2>1, <2>2
<1>3. \E x \in Connection :
              /\ ClientCloses(s) = [conn EXCEPT ![s] = x]
              /\ x.clOpen = FALSE /\ x.gwOpen = conn[s].gwOpen /\ x.toGateway = conn[s].toGateway
  <2> DEFINE x == [conn[s] EXCEPT !.clOpen = FALSE, !.toClient = <<>>]
  <2>0. <<>> \in Seq(Batches \cup Replies) /\ FALSE \in BOOLEAN
    OBVIOUS
  <2>1. x \in Connection /\ x.clOpen = FALSE /\ x.gwOpen = conn[s].gwOpen /\ x.toGateway = conn[s].toGateway
    BY <1>1, <2>0 DEF Connection
  <2>2. ClientCloses(s) = [conn EXCEPT ![s] = x]
    BY <1>1 DEF ClientCloses
  <2> HIDE DEF x
  <2> QED
    BY <2>1, <2>2
<1>4. \E x \in Connection :
              /\ conn[s].toClient # <<>> => TakeReply(s) = [conn EXCEPT ![s] = x]
              /\ conn[s].toClient # <<>> => x.toClient = Tail(conn[s].toClient)
              /\ x.clOpen = conn[s].clOpen /\ x.gwOpen = conn[s].gwOpen /\ x.toGateway = conn[s].toGateway
  <2>1. CASE conn[s].toClient # <<>>
    <3> DEFINE x == [conn[s] EXCEPT !.toClient = Tail(conn[s].toClient)]
    <3>1. Tail(conn[s].toClient) \in Seq(Batches \cup Replies)
      BY <1>1, <2>1 DEF Connection
    <3>2. /\ x \in Connection /\ x.clOpen = conn[s].clOpen /\ x.gwOpen = conn[s].gwOpen
          /\ x.toGateway = conn[s].toGateway /\ x.toClient = Tail(conn[s].toClient)
      BY <1>1, <3>1 DEF Connection
    <3>3. TakeReply(s) = [conn EXCEPT ![s] = x]
      BY <1>1 DEF TakeReply
    <3> HIDE DEF x
    <3> QED
      BY <3>2, <3>3
  <2>2. CASE conn[s].toClient = <<>>
    BY <1>1, <2>2
  <2> QED
    BY <2>1, <2>2
<1> QED
  BY <1>2, <1>3, <1>4

(* Taking a message that is no acknowledgement, and answering it. *)
LEMMA TakeSame ==
  ASSUME NEW x \in Connection, NEW y \in Connection, x.toGateway # <<>>, Head(x.toGateway) \notin Acks,
         y.toGateway = Tail(x.toGateway),
         y.toClient = x.toClient \/ \E m \in Replies : y.toClient = Append(x.toClient, m)
  PROVE  SameLine(x, y)
<1>1. x.toGateway \in Seq(ConnectionMessages) /\ x.toClient \in Seq(Batches \cup Replies)
  BY DEF Connection, ConnectionMessages
<1>2. Of(y.toGateway, Acks) = Of(x.toGateway, Acks) /\ (Once(x.toGateway, Acks) => Once(y.toGateway, Acks))
  <2>1. Of(Tail(x.toGateway), Acks) = Of(x.toGateway, Acks)
    BY <1>1, OfTail
  <2>2. Once(x.toGateway, Acks) => Once(Tail(x.toGateway), Acks)
    BY <1>1, OfTail
  <2> QED
    BY <2>1, <2>2
<1>3. Of(y.toClient, Batches) = Of(x.toClient, Batches) /\ (Once(x.toClient, Batches) => Once(y.toClient, Batches))
  <2>1. CASE y.toClient = x.toClient
    BY <2>1
  <2>2. ASSUME NEW m \in Replies, y.toClient = Append(x.toClient, m)
        PROVE  Of(y.toClient, Batches) = Of(x.toClient, Batches) /\ (Once(x.toClient, Batches) => Once(y.toClient, Batches))
    <3>1. m \notin Batches /\ m \in Batches \cup Replies
      BY MessagesAre
    <3>2. Of(Append(x.toClient, m), Batches) = Of(x.toClient, Batches)
      BY <1>1, <3>1, OfAppend
    <3>3. Once(x.toClient, Batches) => Once(Append(x.toClient, m), Batches)
      BY <1>1, <3>1, OfAppend
    <3> QED
      BY <2>2, <3>2, <3>3
  <2> QED
    BY <2>1, <2>2
<1> QED
  BY <1>2, <1>3 DEF SameLine

(* What the invariant says of one session. *)
LEMMA SessionIs ==
  ASSUME DeliveryInv, NEW s \in Session
  PROVE  /\ sess[s] \in SessionState /\ conn[s] \in Connection /\ OutputOK(sess[s])
         /\ left[s] \in [SeqID -> Nat] /\ produced[s] \in 0 .. Len(Results)
         /\ s \in Int /\ opened \in Int
         /\ sess[s] # NewSession \/ conn[s].gwOpen \/ produced[s] # 0 \/ s \in gw.registry => s <= opened
         /\ \A k \in SeqID : left[s][k] <= Len(Results[k]) /\ (left[s][k] > 0 => k <= produced[s])
<1>1. sess[s] \in SessionState /\ conn[s] \in Connection /\ OutputOK(sess[s])
      /\ left[s] \in [SeqID -> Nat] /\ produced[s] \in 0 .. Len(Results)
  BY DEF DeliveryInv, Typed, Registered
<1>2. s \in Int /\ opened \in Int
  BY DEF DeliveryInv, Typed, Session
<1>3. sess[s] # NewSession \/ produced[s] # 0 => s <= opened
  BY <1>2 DEF DeliveryInv, Registered
<1>4. conn[s].gwOpen \/ s \in gw.registry => s <= opened
  BY <1>2 DEF DeliveryInv, Registered
<1>5. \A k \in SeqID : left[s][k] <= Len(Results[k]) /\ (left[s][k] > 0 => k <= produced[s])
  BY DEF DeliveryInv, Counted
<1> QED
  BY <1>1, <1>2, <1>3, <1>4, <1>5

(* What the invariant says of the FINAL queue. *)
LEMMA FinalIs ==
  ASSUME DeliveryInv
  PROVE  final \in Seq(Session \X SeqID) /\ \A i \in 1 .. Len(final) : final[i][2] <= produced[final[i][1]]
  BY DEF DeliveryInv, Typed, Counted

(* Steps of a session in which nothing moves towards the client. *)
LEMMA QuietStep ==
  ASSUME DeliveryInv, NEW s \in Session, sess[s] # NewSession, NEW r \in SessionState, OutputOK(r),
         r.seen = sess[s].seen, r.pending = sess[s].pending, r.next = sess[s].next, r.queue = sess[s].queue,
         r.ackCh = sess[s].ackCh,
         conn[s].gwOpen => r.out = sess[s].out \/ (r.out = "dequeue" /\ sess[s].out = "off"),
         NEW x \in Connection, x.clOpen = conn[s].clOpen, x.gwOpen = conn[s].gwOpen, SameLine(conn[s], x),
         sess' = [sess EXCEPT ![s] = r], conn' = [conn EXCEPT ![s] = x],
         UNCHANGED <<client, produced, final, left, opened, faults>>,
         gw' \in GatewayState, gw'.registry = gw.registry, gw'.hand = gw.hand, gw'.toAbort \subseteq gw'.clients
  PROVE  DeliveryInv'
<1> DEFINE l == left[s]
           n == produced[s]
           h == HandFor(s)
<1>1. /\ s <= opened /\ l \in [SeqID -> Nat] /\ n \in 0 .. Len(Results)
      /\ \A k \in SeqID : l[k] <= Len(Results[k]) /\ (l[k] > 0 => k <= n)
  BY SessionIs
<1>2. left = [left EXCEPT ![s] = l] /\ produced = [produced EXCEPT ![s] = n]
  BY DEF DeliveryInv, Typed
<1>3. \A t \in Session : HandFor(t)' = IF t = s THEN h ELSE HandFor(t)
  BY DEF HandFor
<1> HIDE DEF h
<1>4. OthersStay(s, r, x, l, n, h)
  BY <1>2, <1>3 DEF OthersStay
<1>5. ASSUME NEW cl \in ClientState, ServingOf(s, cl) PROVE Serving(s, r, h, l, n, final, x, cl)
  <2>1. CASE conn[s].gwOpen
    <3>1. Delivering(s, sess[s], h, l, n, final, conn[s], cl)
      BY <1>5, <2>1 DEF ServingOf, Serving, h
    <3>2. sess[s].out # "done"
      BY <3>1 DEF Delivering
    <3>3. r.out # "done" /\ (r.out = "wait" <=> sess[s].out = "wait")
      BY <2>1, <3>2
    <3>4. Delivering(s, r, h, l, n, final, x, cl)
      BY <3>1, <3>3, SameDelivering
    <3> QED
      BY <2>1, <3>4 DEF Serving
  <2>2. CASE ~conn[s].gwOpen
    <3>1. Ending(conn[s], cl)
      BY <1>5, <2>2 DEF ServingOf, Serving
    <3>2. Ending(x, cl)
      BY <3>1, SameEnding DEF SameLine
    <3> QED
      BY <2>2, <3>2 DEF Serving
  <2> QED
    BY <2>1, <2>2
<1>6. \A i \in 1 .. Len(final') : final'[i][2] <= produced[final'[i][1]] \/ (final'[i][1] = s /\ final'[i][2] <= n)
  BY FinalIs
<1>7. final' \in Seq(Session \X SeqID) /\ faults' \in 0 .. MaxFaults + 1 /\ gw'.registry \subseteq gw.registry
      /\ gw.registry \ {s} \subseteq gw'.registry /\ (x.gwOpen => s \in gw'.registry)
  BY DEF DeliveryInv, Typed, Registered
<1>8. \A cl \in ClientState : x.clOpen /\ ServingOf(s, cl) => Serving(s, r, h, l, n, final', x, cl)
  BY <1>5
<1>9. n >= produced[s]
  BY <1>1
<1> HIDE DEF l, n
<1> QED
  BY <1>1, <1>4, <1>6, <1>7, <1>8, <1>9, SessionStep

(* Closing a session from the gateway's side: the client reads what is left. *)
LEMMA ClosedServing ==
  ASSUME DeliveryInv, NEW s \in Session, NEW cl, ServingOf(s, cl), NEW y, ~y.gwOpen, y.toClient = conn[s].toClient,
         NEW r, NEW h, NEW l, NEW n, NEW f
  PROVE  Serving(s, r, h, l, n, f, y, cl)
<1>1. CASE conn[s].gwOpen
  <2>1. Delivering(s, sess[s], HandFor(s), left[s], produced[s], final, conn[s], cl)
    BY <1>1 DEF ServingOf, Serving
  <2>2. sess[s] \in SessionState
    BY SessionIs
  <2> QED
    BY <2>1, <2>2, GatewayGivesUp DEF Serving
<1>2. CASE ~conn[s].gwOpen
  <2>1. Ending(conn[s], cl)
    BY <1>2 DEF ServingOf, Serving
  <2>2. Ending(y, cl)
    BY <2>1, SameEnding
  <2> QED
    BY <2>2 DEF Serving
<1> QED
  BY <1>1, <1>2

(* A connection that does not change. *)
LEMMA SameLineIs == \A x : SameLine(x, x)
  BY DEF SameLine

(* What the invariant says of the gateway. *)
LEMMA GatewayIs ==
  ASSUME DeliveryInv
  PROVE  gw \in GatewayState /\ gw.toAbort \subseteq gw.clients /\ gw.registry \subseteq 1 .. opened
  BY DEF DeliveryInv, Typed, Registered

(* A session that does not change. *)
LEMMA SameConn ==
  ASSUME DeliveryInv, NEW s \in Session
  PROVE  conn = [conn EXCEPT ![s] = conn[s]] /\ sess = [sess EXCEPT ![s] = sess[s]]
         /\ left = [left EXCEPT ![s] = left[s]] /\ produced = [produced EXCEPT ![s] = produced[s]]
  BY DEF DeliveryInv, Typed

(* A step of the reader that has read m and perhaps answered it, or that     *)
(* leaves the connection alone, and after which it is in v.                  *)
LEMMA ReaderStep ==
  ASSUME DeliveryInv, NEW s \in Session, NEW v \in {"register", "read", "cleanup", "unregister", "remove"}, NEW o,
         sess[s].reader # "none",
         (o = sess[s].out /\ (v = "register" => sess[s].reader = "handshake"))
           \/ (o = "dequeue" /\ sess[s].reader = "register" /\ v = "read"),
         sess' = [sess EXCEPT ![s].reader = v, ![s].out = o],
         conn' = conn \/ \E m \in {"connectAck", "ingestAck"} :
                           conn[s].toGateway # <<>> /\ Head(conn[s].toGateway) # "resultAck" /\ conn' = Reply(s, m),
         UNCHANGED <<client, produced, final, left, opened, faults>>,
         gw' \in GatewayState, gw'.registry = gw.registry, gw'.hand = gw.hand, gw'.toAbort \subseteq gw'.clients
  PROVE  DeliveryInv'
<1> DEFINE r == [sess[s] EXCEPT !.reader = v, !.out = o]
<1>4. sess[s] \in SessionState /\ OutputOK(sess[s])
  BY SessionIs
<1>5. o \in {"off", "dequeue", "flush", "wait", "done"} /\ v \in {"none", "handshake", "register", "read", "cleanup", "unregister", "remove", "closed"}
  BY <1>4 DEF SessionState
<1>6. /\ r \in SessionState /\ r.reader = v /\ r.out = o
      /\ r.seen = sess[s].seen /\ r.pending = sess[s].pending /\ r.next = sess[s].next /\ r.queue = sess[s].queue
      /\ r.ackCh = sess[s].ackCh
  BY <1>4, <1>5 DEF SessionState
<1>2. sess' = [sess EXCEPT ![s] = r]
  <2>1. sess \in [Session -> SessionState]
    BY DEF DeliveryInv, Typed
  <2> QED
    BY <2>1
<1> HIDE DEF r
<1>1. /\ sess[s] # NewSession /\ r \in SessionState /\ OutputOK(r)
      /\ r.seen = sess[s].seen /\ r.pending = sess[s].pending /\ r.next = sess[s].next /\ r.queue = sess[s].queue
      /\ r.ackCh = sess[s].ackCh
      /\ r.out = sess[s].out \/ (r.out = "dequeue" /\ sess[s].out = "off")
  <2>1. sess[s].reader \in {"handshake", "register"} => sess[s].out = "off"
    BY <1>4 DEF OutputOK
  <2>2. o = sess[s].out \/ (o = "dequeue" /\ sess[s].out = "off")
    BY <2>1
  <2>3. OutputOK(r)
    BY <1>4, <1>6, <2>1, <2>2 DEF OutputOK
  <2>4. sess[s] # NewSession
    BY DEF NewSession
  <2> QED
    BY <1>6, <2>2, <2>3, <2>4
<1>3. PICK x \in Connection : /\ conn' = [conn EXCEPT ![s] = x] /\ x.clOpen = conn[s].clOpen
                              /\ x.gwOpen = conn[s].gwOpen /\ SameLine(conn[s], x)
  <2>1. CASE conn' = conn
    BY <2>1, SameConn, SessionIs, SameLineIs
  <2>2. ASSUME NEW m \in {"connectAck", "ingestAck"}, conn[s].toGateway # <<>>,
               Head(conn[s].toGateway) # "resultAck", conn' = Reply(s, m)
        PROVE  \E x \in Connection : /\ conn' = [conn EXCEPT ![s] = x] /\ x.clOpen = conn[s].clOpen
                                     /\ x.gwOpen = conn[s].gwOpen /\ SameLine(conn[s], x)
    <3>1. PICK x \in Connection :
           /\ Reply(s, m) = [conn EXCEPT ![s] = x]
           /\ x.clOpen = conn[s].clOpen /\ x.gwOpen = conn[s].gwOpen
           /\ x.toGateway = Tail(conn[s].toGateway)
           /\ x.toClient = IF conn[s].clOpen THEN Append(conn[s].toClient, [type |-> m]) ELSE conn[s].toClient
      BY <2>2, ReplyIs
    <3>2. [type |-> m] \in Replies /\ conn[s] \in Connection /\ Head(conn[s].toGateway) \notin Acks
      BY <2>2, MessagesAre, SessionIs DEF Acks
    <3>3. x.toClient = conn[s].toClient \/ \E e \in Replies : x.toClient = Append(conn[s].toClient, e)
      BY <3>1, <3>2
    <3>4. SameLine(conn[s], x)
      BY <2>2, <3>1, <3>2, <3>3, TakeSame
    <3> QED
      BY <2>2, <3>1, <3>4
  <2> QED
    BY <2>1, <2>2
<1> QED
  BY <1>1, <1>2, <1>3, QuietStep

(* The steps of the reader. *)
LEMMA ReaderDelivers ==
  ASSUME DeliveryInv, IndInv, NEW s \in Session
  PROVE  Reader(s) => DeliveryInv'
<1>1. /\ sess[s] \in SessionState /\ conn[s] \in Connection /\ OutputOK(sess[s])
      /\ gw \in GatewayState /\ gw.toAbort \subseteq gw.clients
      /\ sess \in [Session -> SessionState]
  BY SessionIs, GatewayIs DEF DeliveryInv, Typed
<1>2. CASE Handshake(s)
  <2>1. conn[s].toGateway # <<>> /\ Head(conn[s].toGateway) # "resultAck"
    BY <1>2 DEF Handshake, HasRead
  <2>2. sess' = [sess EXCEPT ![s].reader = "register", ![s].out = sess[s].out]
    BY <1>1, <1>2 DEF Handshake, SessionState
  <2>3. sess[s].reader = "handshake" /\ conn' = Reply(s, "connectAck") /\ UNCHANGED <<client, gw, produced, final, left, opened, faults>>
    BY <1>2 DEF Handshake, pipeline
  <2> QED
    BY <1>1, <2>1, <2>2, <2>3, ReaderStep
<1>3. CASE RegisterClient(s)
  <2>1. sess' = [sess EXCEPT ![s].reader = "read", ![s].out = "dequeue"] /\ sess[s].reader = "register"
        /\ gw' = [gw EXCEPT !.clients = gw.clients \cup {s}]
        /\ UNCHANGED <<client, conn, produced, final, left, opened, faults>>
    BY <1>3 DEF RegisterClient, pipeline
  <2>2. gw' \in GatewayState /\ gw'.registry = gw.registry /\ gw'.hand = gw.hand /\ gw'.toAbort \subseteq gw'.clients
    BY <1>1, <2>1 DEF GatewayState
  <2> QED
    BY <2>1, <2>2, ReaderStep
<1>4. CASE Ingest(s)
  <2>1. conn[s].toGateway # <<>> /\ Head(conn[s].toGateway) # "resultAck"
    BY <1>4 DEF Ingest, HasRead
  <2>2. sess[s].reader = "read" /\ conn' = Reply(s, "ingestAck")
        /\ UNCHANGED <<client, gw, sess, produced, final, left, opened, faults>>
    BY <1>4 DEF Ingest
  <2>3. sess' = [sess EXCEPT ![s].reader = "read", ![s].out = sess[s].out]
    BY <1>1, <2>2 DEF SessionState
  <2> QED
    BY <1>1, <2>1, <2>2, <2>3, ReaderStep
<1>5. CASE ReadFails(s)
  <2>1. sess[s].reader # "none" /\ UNCHANGED <<client, conn, gw, produced, final, left, opened, faults>>
    BY <1>5 DEF ReadFails, pipeline
  <2>2. sess' = [sess EXCEPT ![s].reader = "cleanup", ![s].out = sess[s].out]
    BY <1>1, <1>5 DEF ReadFails, SessionState
  <2> QED
    BY <1>1, <2>1, <2>2, ReaderStep
<1>6. CASE PublishAborted(s)
  <2>1. sess[s].reader # "none" /\ UNCHANGED <<client, conn, gw, produced, final, left, opened, faults>>
    BY <1>6 DEF PublishAborted
  <2>2. \E v \in {"unregister", "remove"} : sess' = [sess EXCEPT ![s].reader = v, ![s].out = sess[s].out]
    BY <1>1, <1>6 DEF PublishAborted, SessionState
  <2>3. PICK v \in {"unregister", "remove"} : sess' = [sess EXCEPT ![s].reader = v, ![s].out = sess[s].out]
    BY <2>2
  <2> QED
    BY <1>1, <2>1, <2>3, ReaderStep
<1>7. CASE UnregisterClient(s)
  <2>1. sess' = [sess EXCEPT ![s].reader = "remove"] /\ sess[s].reader = "unregister"
        /\ gw' = [gw EXCEPT !.clients = gw.clients \ {s}]
        /\ UNCHANGED <<client, conn, produced, final, left, opened, faults>>
    BY <1>7 DEF UnregisterClient, pipeline
  <2>2. gw.toAbort = {}
    <3>1. gw.phase = "serving"
      BY <2>1 DEF IndInv, NoSessionUnlessServing
    <3> QED
      BY <3>1 DEF IndInv, FileFollowsMap
  <2>3. gw' \in GatewayState /\ gw'.registry = gw.registry /\ gw'.hand = gw.hand /\ gw'.toAbort \subseteq gw'.clients
    BY <1>1, <2>1, <2>2 DEF GatewayState
  <2>4. sess' = [sess EXCEPT ![s].reader = "remove", ![s].out = sess[s].out]
    BY <1>1, <2>1 DEF SessionState
  <2> QED
    BY <2>1, <2>3, <2>4, ReaderStep
<1>8. CASE NotifyAck(s)
  <2> DEFINE r == [sess[s] EXCEPT !.ackCh = TRUE]
             l == left[s]
             n == produced[s]
             h == HandFor(s)
  <2>1. /\ HasRead(s, "resultAck") /\ conn' = Take(s) /\ sess[s] # NewSession
        /\ UNCHANGED <<client, gw, produced, final, left, opened, faults>>
    BY <1>8 DEF NotifyAck, pipeline, NewSession
  <2>2. sess' = [sess EXCEPT ![s] = r]
    BY <1>1, <1>8 DEF NotifyAck
  <2>3. /\ r \in SessionState /\ r.ackCh = TRUE /\ r.out = sess[s].out /\ r.reader = sess[s].reader
        /\ r.seen = sess[s].seen /\ r.pending = sess[s].pending /\ r.next = sess[s].next /\ r.queue = sess[s].queue
    BY <1>1 DEF SessionState
  <2>4. OutputOK(r)
    BY <1>1, <2>3 DEF OutputOK
  <2> HIDE DEF r
  <2>5. PICK x \in Connection :
           /\ conn' = [conn EXCEPT ![s] = x]
           /\ x.clOpen = conn[s].clOpen /\ x.gwOpen = conn[s].gwOpen
           /\ x.toGateway = Tail(conn[s].toGateway) /\ x.toClient = conn[s].toClient
    BY <2>1, HasReadIs, TakeIs
  <2>6. /\ s <= opened /\ l \in [SeqID -> Nat] /\ n \in 0 .. Len(Results)
        /\ \A k \in SeqID : l[k] <= Len(Results[k]) /\ (l[k] > 0 => k <= n)
    BY <2>1, SessionIs
  <2>7. left' = [left EXCEPT ![s] = l] /\ produced' = [produced EXCEPT ![s] = n]
    BY <2>1, SameConn
  <2>8. \A t \in Session : HandFor(t)' = IF t = s THEN h ELSE HandFor(t)
    BY <2>1 DEF HandFor
  <2> HIDE DEF h
  <2>9. OthersStay(s, r, x, l, n, h)
    BY <2>1, <2>2, <2>5, <2>7, <2>8 DEF OthersStay
  <2>10. ASSUME NEW cl \in ClientState, ServingOf(s, cl) PROVE Serving(s, r, h, l, n, final', x, cl)
    <3>1. conn[s].gwOpen /\ conn[s].toGateway # <<>> /\ Head(conn[s].toGateway) = "resultAck"
      BY <2>1 DEF HasRead
    <3>2. Delivering(s, sess[s], h, l, n, final, conn[s], cl)
      BY <2>10, <3>1 DEF ServingOf, Serving, h
    <3>3. Delivering(s, r, h, l, n, final, x, cl)
      BY <1>1, <2>3, <2>5, <3>1, <3>2, NotifyMoves
    <3> QED
      BY <2>1, <2>5, <3>1, <3>3 DEF Serving
  <2>11. /\ final' \in Seq(Session \X SeqID) /\ faults' \in 0 .. MaxFaults + 1
         /\ \A i \in 1 .. Len(final') : final'[i][2] <= produced[final'[i][1]] \/ (final'[i][1] = s /\ final'[i][2] <= n)
    BY <2>1, FinalIs DEF DeliveryInv, Typed
  <2>12. x.gwOpen => s \in gw.registry
    BY <2>5 DEF DeliveryInv, Registered
  <2>13. n >= produced[s]
    BY <2>6
  <2> HIDE DEF l, n
  <2> QED
    BY <1>1, <2>1, <2>3, <2>4, <2>5, <2>6, <2>9, <2>10, <2>11, <2>12, <2>13, SessionStep
<1>9. CASE RemoveClient(s)
  <2> DEFINE r == [sess[s] EXCEPT !.reader = "closed"]
             l == left[s]
             n == produced[s]
             h == HandFor(s)
  <2>1. /\ conn' = GatewayCloses(s) /\ sess[s] # NewSession /\ sess[s].reader = "remove"
        /\ gw' = [gw EXCEPT !.registry = gw.registry \ {s}]
        /\ UNCHANGED <<client, produced, final, left, opened, faults>>
    BY <1>9 DEF RemoveClient, pipeline, NewSession
  <2>2. sess' = [sess EXCEPT ![s] = r]
    BY <1>1, <1>9 DEF RemoveClient
  <2>3. /\ r \in SessionState /\ r.ackCh = sess[s].ackCh /\ r.out = sess[s].out /\ r.reader = "closed"
        /\ r.seen = sess[s].seen /\ r.pending = sess[s].pending /\ r.next = sess[s].next /\ r.queue = sess[s].queue
    BY <1>1 DEF SessionState
  <2>4. OutputOK(r)
    BY <1>1, <2>3 DEF OutputOK
  <2> HIDE DEF r
  <2>5. PICK x \in Connection :
           /\ conn' = [conn EXCEPT ![s] = x]
           /\ x.clOpen = conn[s].clOpen /\ x.gwOpen = FALSE /\ x.toClient = conn[s].toClient
    BY <2>1, ClosesIs
  <2>6. /\ s <= opened /\ l \in [SeqID -> Nat] /\ n \in 0 .. Len(Results)
        /\ \A k \in SeqID : l[k] <= Len(Results[k]) /\ (l[k] > 0 => k <= n)
    BY <2>1, SessionIs
  <2>7. left' = [left EXCEPT ![s] = l] /\ produced' = [produced EXCEPT ![s] = n]
    BY <2>1, SameConn
  <2>14. /\ gw' \in GatewayState /\ gw'.registry = gw.registry \ {s} /\ gw'.hand = gw.hand
         /\ gw'.toAbort \subseteq gw'.clients
    BY <1>1, <2>1 DEF GatewayState
  <2>8. \A t \in Session : HandFor(t)' = IF t = s THEN h ELSE HandFor(t)
    BY <2>14 DEF HandFor
  <2> HIDE DEF h
  <2>9. OthersStay(s, r, x, l, n, h)
    BY <2>1, <2>2, <2>5, <2>7, <2>8 DEF OthersStay
  <2>10. ASSUME NEW cl \in ClientState, ServingOf(s, cl) PROVE Serving(s, r, h, l, n, final', x, cl)
    BY <2>5, <2>10, ClosedServing
  <2>11. /\ final' \in Seq(Session \X SeqID) /\ faults' \in 0 .. MaxFaults + 1
         /\ \A i \in 1 .. Len(final') : final'[i][2] <= produced[final'[i][1]] \/ (final'[i][1] = s /\ final'[i][2] <= n)
    BY <2>1, FinalIs DEF DeliveryInv, Typed
  <2>13. n >= produced[s]
    BY <2>6
  <2> HIDE DEF l, n
  <2> QED
    BY <2>1, <2>3, <2>4, <2>5, <2>6, <2>9, <2>10, <2>11, <2>13, <2>14, SessionStep
<1> QED
  BY <1>2, <1>3, <1>4, <1>5, <1>6, <1>7, <1>8, <1>9 DEF Reader

-----------------------------------------------------------------------------
(* The consumer of the FINAL queue. *)

(* The delivery at the head of the FINAL queue is taken. *)
LEMMA FinalTail ==
  ASSUME DeliveryInv, final # <<>>
  PROVE  \E s \in Session, k \in SeqID :
           /\ Head(final) = <<s, k>> /\ s <= opened /\ k <= produced[s]
           /\ Tail(final) \in Seq(Session \X SeqID)
           /\ \A i \in 1 .. Len(Tail(final)) : Tail(final)[i][2] <= produced[Tail(final)[i][1]]
           /\ \A t \in Session \ {s}, m \in 0 .. Len(Results) :
                Ordered(t, final, produced[t], m) => Ordered(t, Tail(final), produced[t], m)
<1>1. final \in Seq(Session \X SeqID) /\ \A i \in 1 .. Len(final) : final[i][2] <= produced[final[i][1]]
  BY FinalIs
<1>2. 1 \in 1 .. Len(final) /\ Head(final) = final[1] /\ Len(final) \in Nat
  BY <1>1, EmptySeq
<1>3. final[1] \in Session \X SeqID
  BY <1>1, <1>2, ElementOfSeq
<1>4. PICK s \in Session, k \in SeqID : final[1] = <<s, k>>
  BY <1>3
<1>5. k <= produced[s]
  <2>1. final[1][2] = k /\ final[1][1] = s
    BY <1>4
  <2> QED
    BY <1>1, <1>2, <2>1
<1>6. s <= opened
  <2>1. produced[s] # 0
    BY <1>5, ResultsAre
  <2> QED
    BY <2>1, SessionIs
<1>7. /\ Tail(final) \in Seq(Session \X SeqID) /\ Len(Tail(final)) = Len(final) - 1
      /\ \A i \in 1 .. Len(Tail(final)) : Tail(final)[i] = final[i + 1]
  BY <1>1, <1>2, HeadTailProperties
<1>8. \A i \in 1 .. Len(Tail(final)) : Tail(final)[i][2] <= produced[Tail(final)[i][1]]
  <2> SUFFICES ASSUME NEW i \in 1 .. Len(Tail(final)) PROVE Tail(final)[i][2] <= produced[Tail(final)[i][1]]
    OBVIOUS
  <2>1. i + 1 \in 1 .. Len(final) /\ Tail(final)[i] = final[i + 1]
    BY <1>2, <1>7
  <2> QED
    BY <1>1, <2>1
<1>9. ASSUME NEW t \in Session \ {s}, NEW m \in 0 .. Len(Results), Ordered(t, final, produced[t], m)
      PROVE  Ordered(t, Tail(final), produced[t], m)
  <2>1. Head(final)[1] # t /\ m \in Nat
    BY <1>2, <1>4, ResultsAre
  <2> QED
    BY <1>1, <1>9, <2>1, OrderedTail
<1> QED
  BY <1>2, <1>4, <1>5, <1>6, <1>7, <1>8, <1>9

(* ForwardFinal: the delivery is one that was seen, or of a session that is  *)
(* over, or the next one.                                                    *)
LEMMA ForwardDelivers ==
  ASSUME DeliveryInv, ForwardFinal
  PROVE  DeliveryInv'
<1>1. /\ gw.hand = <<>> /\ final # <<>> /\ final' = Tail(final)
      /\ UNCHANGED <<client, conn, produced, opened, faults>>
  BY DEF ForwardFinal, pipeline
<1>2. PICK s \in Session, k \in SeqID :
           /\ Head(final) = <<s, k>> /\ s <= opened /\ k <= produced[s]
           /\ Tail(final) \in Seq(Session \X SeqID)
           /\ \A i \in 1 .. Len(Tail(final)) : Tail(final)[i][2] <= produced[Tail(final)[i][1]]
           /\ \A t \in Session \ {s}, m \in 0 .. Len(Results) :
                Ordered(t, final, produced[t], m) => Ordered(t, Tail(final), produced[t], m)
  BY <1>1, FinalTail
<1>3. Head(final)[1] = s /\ Head(final)[2] = k
  BY <1>2
<1> DEFINE n == produced[s]
           x == conn[s]
<1>4. /\ sess[s] \in SessionState /\ x \in Connection /\ OutputOK(sess[s]) /\ left[s] \in [SeqID -> Nat]
      /\ n \in 0 .. Len(Results) /\ \A i \in SeqID : left[s][i] <= Len(Results[i]) /\ (left[s][i] > 0 => i <= n)
  BY SessionIs
<1>5. gw \in GatewayState /\ gw.toAbort \subseteq gw.clients
  BY GatewayIs
<1>6. \A t \in Session : HandFor(t) = <<>>
  BY <1>1 DEF HandFor
<1>7. x.gwOpen => s \in gw.registry
  BY DEF DeliveryInv, Registered
<1>8. conn' = [conn EXCEPT ![s] = x] /\ produced' = [produced EXCEPT ![s] = n]
  BY <1>1, SameConn
<1>9. final' \in Seq(Session \X SeqID) /\ faults' \in 0 .. MaxFaults + 1
      /\ \A i \in 1 .. Len(final') : final'[i][2] <= produced[final'[i][1]] \/ (final'[i][1] = s /\ final'[i][2] <= n)
  BY <1>1, <1>2 DEF DeliveryInv, Typed
<1>10. final \in Seq(Session \X SeqID) /\ n >= produced[s]
  BY <1>4 DEF DeliveryInv, Typed
<1>11. CASE s \notin gw.registry \/ Dedup!Contains(sess[s].seen, k)
  <2>1. UNCHANGED <<gw, sess, left>>
    BY <1>3, <1>11 DEF ForwardFinal
  <2>2. sess' = [sess EXCEPT ![s] = sess[s]] /\ left' = [left EXCEPT ![s] = left[s]]
    BY <2>1, SameConn
  <2>3. \A t \in Session : HandFor(t)' = IF t = s THEN <<>> ELSE HandFor(t)
    BY <1>6, <2>1 DEF HandFor
  <2>4. OthersStay(s, sess[s], x, left[s], n, <<>>)
    BY <1>1, <1>2, <1>8, <2>2, <2>3 DEF OthersStay
  <2>5. ASSUME NEW cl \in ClientState, ServingOf(s, cl)
        PROVE  Serving(s, sess[s], <<>>, left[s], n, final', x, cl)
    <3>1. CASE x.gwOpen
      <4>1. Delivering(s, sess[s], <<>>, left[s], n, final, x, cl)
        BY <1>6, <2>5, <3>1 DEF ServingOf, Serving
      <4>2. Dedup!Contains(sess[s].seen, k)
        BY <1>7, <1>11, <3>1
      <4>3. Delivering(s, sess[s], <<>>, left[s], n, Tail(final), x, cl)
        BY <1>1, <1>2, <1>4, <1>10, <4>1, <4>2, ForwardTakes
      <4> QED
        BY <1>1, <3>1, <4>3 DEF Serving
    <3>2. CASE ~x.gwOpen
      BY <2>5, <3>2 DEF ServingOf, Serving
    <3> QED
      BY <3>1, <3>2
  <2> HIDE DEF n, x
  <2> QED
    BY <1>1, <1>2, <1>4, <1>5, <1>7, <1>9, <1>10, <2>1, <2>4, <2>5, SessionStep DEF x
<1>12. CASE ~(s \notin gw.registry \/ Dedup!Contains(sess[s].seen, k))
  <2> DEFINE r == [sess[s] EXCEPT !.seen = Dedup!Add(sess[s].seen, k)]
             l == [left[s] EXCEPT ![k] = Len(Results[k])]
             h == <<s, k, 1>>
  <2>1. /\ gw' = [gw EXCEPT !.hand = h] /\ sess' = [sess EXCEPT ![s].seen = Dedup!Add(sess[s].seen, k)]
        /\ left' = [left EXCEPT ![s][k] = Len(Results[k])]
    BY <1>3, <1>12 DEF ForwardFinal
  <2>2. sess' = [sess EXCEPT ![s] = r] /\ left' = [left EXCEPT ![s] = l]
    BY <2>1 DEF DeliveryInv, Typed
  <2>3. Dedup!Canonical(Dedup!Add(sess[s].seen, k))
    BY <1>4, SeenIs DEF OutputOK
  <2>4. Dedup!Add(sess[s].seen, k) \in Seq(Dedup!Interval)
    BY <2>3 DEF Dedup!Canonical
  <2>5. /\ r \in SessionState /\ r.seen = Dedup!Add(sess[s].seen, k) /\ r.out = sess[s].out /\ r.reader = sess[s].reader
        /\ r.pending = sess[s].pending /\ r.next = sess[s].next /\ r.queue = sess[s].queue
    BY <1>4, <2>4 DEF SessionState
  <2>6. OutputOK(r)
    BY <1>4, <2>3, <2>5 DEF OutputOK
  <2>7. /\ l \in [SeqID -> Nat] /\ \A i \in SeqID : l[i] <= Len(Results[i]) /\ (l[i] > 0 => i <= n)
    <3>1. Len(Results[k]) \in Nat
      BY ResultsAre
    <3>2. l \in [SeqID -> Nat]
      BY <1>4, <3>1
    <3>3. ASSUME NEW i \in SeqID PROVE l[i] <= Len(Results[i]) /\ (l[i] > 0 => i <= n)
      <4>1. CASE i = k
        BY <1>2, <1>4, <3>1, <4>1
      <4>2. CASE i # k
        BY <1>4, <4>2
      <4> QED
        BY <4>1, <4>2
    <3> QED
      BY <3>2, <3>3
  <2>8. /\ gw' \in GatewayState /\ gw'.registry = gw.registry /\ gw'.toAbort \subseteq gw'.clients /\ gw'.hand = h
    BY <1>5, <2>1 DEF GatewayState
  <2>9. h # <<>> /\ h[1] = s
    OBVIOUS
  <2>10. \A t \in Session : HandFor(t)' = IF t = s THEN h ELSE HandFor(t)
    <3> HIDE DEF h
    <3> QED
      BY <1>6, <2>8, <2>9 DEF HandFor
  <2>11. ASSUME NEW cl \in ClientState, ServingOf(s, cl)
         PROVE  Serving(s, r, h, l, n, final', x, cl)
    <3>1. CASE x.gwOpen
      <4>1. Delivering(s, sess[s], <<>>, left[s], n, final, x, cl)
        BY <1>6, <2>11, <3>1 DEF ServingOf, Serving
      <4>2. Delivering(s, r, h, l, n, Tail(final), x, cl)
        BY <1>1, <1>2, <1>4, <1>10, <1>12, <4>1, ForwardTakes
      <4> QED
        BY <1>1, <3>1, <4>2 DEF Serving
    <3>2. CASE ~x.gwOpen
      BY <2>11, <3>2 DEF ServingOf, Serving
    <3> QED
      BY <3>1, <3>2
  <2> HIDE DEF r, l, h
  <2>12. OthersStay(s, r, x, l, n, h)
    BY <1>1, <1>2, <1>8, <2>2, <2>10 DEF OthersStay
  <2> HIDE DEF n, x
  <2> QED
    BY <1>1, <1>2, <1>4, <1>7, <1>9, <1>10, <2>5, <2>6, <2>7, <2>8, <2>11, <2>12, SessionStep DEF x
<1> QED
  BY <1>11, <1>12

(* EnqueueResult: the next item of the delivery joins the queue. *)
LEMMA EnqueueDelivers ==
  ASSUME DeliveryInv, NEW s \in Session, NEW k \in SeqID, NEW j \in 1 .. Len(Results[k]), EnqueueResult(s, k, j)
  PROVE  DeliveryInv'
<1> DEFINE n == produced[s]
           x == conn[s]
           l == left[s]
           r == [sess[s] EXCEPT !.queue = Append(sess[s].queue, <<k, j>>)]
           h == IF j < Len(Results[k]) THEN <<s, k, j + 1>> ELSE <<>>
<1>1. /\ sess[s] \in SessionState /\ x \in Connection /\ OutputOK(sess[s]) /\ l \in [SeqID -> Nat]
      /\ n \in 0 .. Len(Results) /\ \A i \in SeqID : l[i] <= Len(Results[i]) /\ (l[i] > 0 => i <= n)
  BY SessionIs
<1>2. gw \in GatewayState /\ gw.toAbort \subseteq gw.clients /\ (x.gwOpen => s \in gw.registry)
  BY GatewayIs DEF DeliveryInv, Registered
<1>3. /\ gw.hand = <<s, k, j>> /\ Len(sess[s].queue) < QueueSize /\ gw' = [gw EXCEPT !.hand = h]
      /\ sess' = [sess EXCEPT ![s].queue = Append(sess[s].queue, <<k, j>>)]
      /\ UNCHANGED <<client, conn, left, produced, final, opened, faults>>
  BY DEF EnqueueResult, pipeline
<1>4. sess' = [sess EXCEPT ![s] = r]
  BY <1>3 DEF DeliveryInv, Typed
<1>5. conn' = [conn EXCEPT ![s] = x] /\ produced' = [produced EXCEPT ![s] = n] /\ left' = [left EXCEPT ![s] = l]
  BY <1>3, SameConn
<1>6. gw.hand # <<>> /\ gw.hand[1] = s
  BY <1>3
<1>7. s <= opened
  BY <1>6 DEF DeliveryInv, Registered
<1>8. j + 1 \in Nat /\ (h # <<>> => h[1] = s) /\ h \in {<<>>} \cup (Session \X SeqID \X Nat)
  BY ResultsAre
<1>9. /\ r \in SessionState /\ r.queue = Append(sess[s].queue, <<k, j>>) /\ r.out = sess[s].out /\ r.ackCh = sess[s].ackCh
      /\ r.reader = sess[s].reader /\ r.seen = sess[s].seen /\ r.pending = sess[s].pending /\ r.next = sess[s].next
  <2>1. Append(sess[s].queue, <<k, j>>) \in Seq(Items)
    <3>1. <<k, j>> \in Items /\ sess[s].queue \in Seq(Items)
      BY <1>1, ItemsAre DEF SessionState
    <3> QED
      BY <3>1
  <2> QED
    BY <1>1, <2>1 DEF SessionState
<1>10. OutputOK(r)
  <2>1. Len(r.queue) <= QueueSize
    <3>1. sess[s].queue \in Seq(Items) /\ Len(sess[s].queue) \in Nat /\ QueueSize \in Nat
      BY <1>1, ConstantsAssumption DEF SessionState, ConstantsAssumption
    <3>2. <<k, j>> \in Items
      BY ItemsAre
    <3>3. Len(r.queue) = Len(sess[s].queue) + 1
      BY <1>9, <3>1, <3>2
    <3> QED
      BY <1>3, <3>1, <3>3
  <2> QED
    BY <1>1, <1>9, <2>1 DEF OutputOK
<1>11. /\ j < Len(Results[k]) => h = <<s, k, j + 1>>
       /\ ~(j < Len(Results[k])) => h = <<>>
  OBVIOUS
<1> HIDE DEF r, h
<1>12. gw' \in GatewayState /\ gw'.hand = h /\ gw'.registry = gw.registry /\ gw'.toAbort \subseteq gw'.clients
  BY <1>2, <1>3, <1>8 DEF GatewayState
<1>13. \A t \in Session : HandFor(t)' = IF t = s THEN h ELSE HandFor(t)
  BY <1>6, <1>8, <1>12 DEF HandFor
<1>14. OthersStay(s, r, x, l, n, h)
  BY <1>3, <1>4, <1>5, <1>13 DEF OthersStay
<1>15. ASSUME NEW cl \in ClientState, ServingOf(s, cl)
       PROVE  Serving(s, r, h, l, n, final', x, cl)
  <2>1. CASE x.gwOpen
    <3>1. HandFor(s) = <<s, k, j>>
      BY <1>3, <1>6 DEF HandFor
    <3>2. Delivering(s, sess[s], <<s, k, j>>, l, n, final, x, cl)
      BY <1>15, <2>1, <3>1 DEF ServingOf, Serving
    <3>3. Delivering(s, r, h, l, n, final, x, cl)
      BY <1>1, <1>9, <1>11, <3>2, EnqueueAdds
    <3> QED
      BY <1>3, <2>1, <3>3 DEF Serving
  <2>2. CASE ~x.gwOpen
    BY <1>15, <2>2 DEF ServingOf, Serving
  <2> QED
    BY <2>1, <2>2
<1>16. /\ final' \in Seq(Session \X SeqID) /\ faults' \in 0 .. MaxFaults + 1
       /\ \A i \in 1 .. Len(final') : final'[i][2] <= produced[final'[i][1]] \/ (final'[i][1] = s /\ final'[i][2] <= n)
  BY <1>3, FinalIs DEF DeliveryInv, Typed
<1>17. n >= produced[s] /\ (x.clOpen => conn[s].clOpen) /\ (x.gwOpen => conn[s].gwOpen)
  BY <1>1
<1> HIDE DEF n, x, l
<1> QED
  BY <1>1, <1>2, <1>3, <1>7, <1>9, <1>10, <1>12, <1>14, <1>15, <1>16, <1>17, SessionStep

(* EnqueueFails: the session is over. *)
LEMMA EnqueueFailsDelivers ==
  ASSUME DeliveryInv, NEW s \in Session, NEW k \in SeqID, NEW j \in 1 .. Len(Results[k]), EnqueueFails(s, k, j)
  PROVE  DeliveryInv'
<1> DEFINE n == produced[s]
           x == conn[s]
           l == [left[s] EXCEPT ![k] = 0]
           r == sess[s]
<1>1. /\ r \in SessionState /\ x \in Connection /\ OutputOK(r) /\ left[s] \in [SeqID -> Nat]
      /\ n \in 0 .. Len(Results) /\ \A i \in SeqID : left[s][i] <= Len(Results[i]) /\ (left[s][i] > 0 => i <= n)
  BY SessionIs
<1>2. gw \in GatewayState /\ gw.toAbort \subseteq gw.clients /\ (x.gwOpen => s \in gw.registry)
  BY GatewayIs DEF DeliveryInv, Registered
<1>3. /\ gw.hand = <<s, k, j>> /\ ~x.gwOpen /\ gw' = [gw EXCEPT !.hand = <<>>]
      /\ left' = [left EXCEPT ![s][k] = 0]
      /\ UNCHANGED <<client, conn, sess, produced, final, opened, faults>>
  BY DEF EnqueueFails, pipeline
<1>4. left' = [left EXCEPT ![s] = l]
  BY <1>3 DEF DeliveryInv, Typed
<1>5. conn' = [conn EXCEPT ![s] = x] /\ produced' = [produced EXCEPT ![s] = n] /\ sess' = [sess EXCEPT ![s] = r]
  BY <1>3, SameConn
<1>6. gw.hand # <<>> /\ gw.hand[1] = s
  BY <1>3
<1>7. s <= opened
  BY <1>6 DEF DeliveryInv, Registered
<1>8. l \in [SeqID -> Nat] /\ \A i \in SeqID : l[i] <= Len(Results[i]) /\ (l[i] > 0 => i <= n)
  <2>1. l \in [SeqID -> Nat]
    BY <1>1
  <2>2. ASSUME NEW i \in SeqID PROVE l[i] <= Len(Results[i]) /\ (l[i] > 0 => i <= n)
    <3>1. CASE i = k
      <4>1. l[i] = 0 /\ Len(Results[i]) \in Nat
        BY <1>1, <3>1, ResultsAre
      <4> QED
        BY <4>1
    <3>2. CASE i # k
      BY <1>1, <3>2
    <3> QED
      BY <3>1, <3>2
  <2> QED
    BY <2>1, <2>2
<1>12. gw' \in GatewayState /\ gw'.hand = <<>> /\ gw'.registry = gw.registry /\ gw'.toAbort \subseteq gw'.clients
  BY <1>2, <1>3 DEF GatewayState
<1>13. \A t \in Session : HandFor(t)' = IF t = s THEN <<>> ELSE HandFor(t)
  BY <1>6, <1>12 DEF HandFor
<1>14. OthersStay(s, r, x, l, n, <<>>)
  BY <1>3, <1>4, <1>5, <1>13 DEF OthersStay
<1>15. ASSUME NEW cl \in ClientState, ServingOf(s, cl)
       PROVE  Serving(s, r, <<>>, l, n, final', x, cl)
  BY <1>3, <1>15 DEF ServingOf, Serving
<1>16. /\ final' \in Seq(Session \X SeqID) /\ faults' \in 0 .. MaxFaults + 1
       /\ \A i \in 1 .. Len(final') : final'[i][2] <= produced[final'[i][1]] \/ (final'[i][1] = s /\ final'[i][2] <= n)
  BY <1>3, FinalIs DEF DeliveryInv, Typed
<1>17. n >= produced[s] /\ (x.clOpen => conn[s].clOpen) /\ (x.gwOpen => conn[s].gwOpen)
  BY <1>1
<1> HIDE DEF n, x, l, r
<1> QED
  BY <1>1, <1>2, <1>3, <1>7, <1>8, <1>12, <1>14, <1>15, <1>16, <1>17, SessionStep

-----------------------------------------------------------------------------
(* The output of a session. *)

(* Steps of a session that leave the pipeline as it is. *)
LEMMA OutputStep ==
  ASSUME DeliveryInv, NEW s \in Session, sess[s] # NewSession, NEW r \in SessionState, OutputOK(r),
         NEW x \in Connection, x.clOpen => conn[s].clOpen, x.gwOpen => conn[s].gwOpen,
         NEW l \in [SeqID -> Nat], \A k \in SeqID : l[k] <= left[s][k],
         sess' = [sess EXCEPT ![s] = r], conn' = [conn EXCEPT ![s] = x], left' = [left EXCEPT ![s] = l],
         UNCHANGED <<client, produced, final, opened, faults>>,
         gw' = gw \/ (~x.gwOpen /\ gw' = [gw EXCEPT !.registry = gw.registry \ {s}]),
         \A cl \in ClientState : ServingOf(s, cl) => Serving(s, r, HandFor(s), l, produced[s], final, x, cl)
  PROVE  DeliveryInv'
<1> DEFINE n == produced[s]
           h == HandFor(s)
<1>1. /\ s <= opened /\ n \in 0 .. Len(Results) /\ left[s] \in [SeqID -> Nat]
      /\ \A k \in SeqID : left[s][k] <= Len(Results[k]) /\ (left[s][k] > 0 => k <= n)
  BY SessionIs
<1>2. \A k \in SeqID : l[k] <= Len(Results[k]) /\ (l[k] > 0 => k <= n)
  <2> SUFFICES ASSUME NEW k \in SeqID PROVE l[k] <= Len(Results[k]) /\ (l[k] > 0 => k <= n)
    OBVIOUS
  <2>1. l[k] \in Nat /\ left[s][k] \in Nat /\ Len(Results[k]) \in Nat /\ l[k] <= left[s][k]
    BY <1>1, ResultsAre
  <2> QED
    BY <1>1, <2>1
<1>3. produced' = [produced EXCEPT ![s] = n]
  BY SameConn
<1>4. gw \in GatewayState /\ gw.toAbort \subseteq gw.clients /\ (x.gwOpen => s \in gw.registry)
  BY GatewayIs DEF DeliveryInv, Registered
<1>5. /\ gw' \in GatewayState /\ gw'.toAbort \subseteq gw'.clients /\ gw'.hand = gw.hand
      /\ gw'.registry \subseteq gw.registry /\ gw.registry \ {s} \subseteq gw'.registry
      /\ x.gwOpen => s \in gw'.registry
  <2>1. CASE gw' = gw
    BY <1>4, <2>1
  <2>2. CASE ~x.gwOpen /\ gw' = [gw EXCEPT !.registry = gw.registry \ {s}]
    BY <1>4, <2>2 DEF GatewayState
  <2> QED
    BY <2>1, <2>2
<1>6. \A t \in Session : HandFor(t)' = IF t = s THEN h ELSE HandFor(t)
  BY <1>5 DEF HandFor
<1>7. \A cl \in ClientState : x.clOpen /\ ServingOf(s, cl) => Serving(s, r, h, l, n, final', x, cl)
  OBVIOUS
<1> HIDE DEF h
<1>8. OthersStay(s, r, x, l, n, h)
  BY <1>3, <1>6 DEF OthersStay
<1>9. /\ final' \in Seq(Session \X SeqID) /\ faults' \in 0 .. MaxFaults + 1 /\ n >= produced[s]
      /\ \A i \in 1 .. Len(final') : final'[i][2] <= produced[final'[i][1]] \/ (final'[i][1] = s /\ final'[i][2] <= n)
  BY <1>1, FinalIs DEF DeliveryInv, Typed
<1> HIDE DEF n
<1> QED
  BY <1>1, <1>2, <1>5, <1>7, <1>8, <1>9, SessionStep

(* DequeueResult: an item moves on to the batch builder. *)
LEMMA DequeueDelivers ==
  ASSUME DeliveryInv, NEW s \in Session, DequeueResult(s)
  PROVE  DeliveryInv'
<1> DEFINE d == Head(sess[s].queue)
           q == Tail(sess[s].queue)
           room == Len(sess[s].pending) < BatchLimit
           r == [sess[s] EXCEPT !.queue = q, !.pending = IF room THEN Append(sess[s].pending, d) ELSE sess[s].pending,
                                !.next = IF room THEN sess[s].next ELSE <<d>>,
                                !.out = IF room THEN AfterAppend(d, q) ELSE "flush"]
<1>1. /\ sess[s] \in SessionState /\ OutputOK(sess[s]) /\ conn[s] \in Connection /\ left[s] \in [SeqID -> Nat]
      /\ sess \in [Session -> SessionState]
  BY SessionIs DEF DeliveryInv, Typed
<1>2. /\ sess[s].out = "dequeue" /\ sess[s].queue # <<>> /\ sess[s].next = <<>>
      /\ UNCHANGED <<client, conn, gw, produced, final, left, opened, faults>>
  BY <1>1 DEF DequeueResult, pipeline, OutputOK
<1>3. sess' = [sess EXCEPT ![s] = r]
  <2>1. CASE room
    <3>1. sess' = [sess EXCEPT ![s].queue = q, ![s].pending = Append(sess[s].pending, d), ![s].out = AfterAppend(d, q)]
      BY <2>1 DEF DequeueResult
    <3>2. r = [sess[s] EXCEPT !.queue = q, !.pending = Append(sess[s].pending, d), !.out = AfterAppend(d, q)]
      BY <1>1, <2>1 DEF SessionState
    <3> HIDE DEF q, d
    <3> QED
      BY <1>1, <3>1, <3>2
  <2>2. CASE ~room
    <3>1. sess' = [sess EXCEPT ![s].queue = q, ![s].next = <<d>>, ![s].out = "flush"]
      BY <2>2 DEF DequeueResult
    <3>2. r = [sess[s] EXCEPT !.queue = q, !.next = <<d>>, !.out = "flush"]
      BY <1>1, <2>2 DEF SessionState
    <3> HIDE DEF q, d
    <3> QED
      BY <1>1, <3>1, <3>2
  <2> QED
    BY <2>1, <2>2
<1>4. /\ sess[s].queue \in Seq(Items) /\ sess[s].pending \in Seq(Items) /\ Len(sess[s].pending) \in Nat
      /\ Len(sess[s].queue) \in Nat
  BY <1>1 DEF SessionState
<1>5. d \in Items /\ q \in Seq(Items) /\ Len(q) = Len(sess[s].queue) - 1
  <2>1. 1 \in 1 .. Len(sess[s].queue) /\ Head(sess[s].queue) = sess[s].queue[1]
    BY <1>2, <1>4, EmptySeq
  <2> QED
    BY <1>2, <1>4, <2>1, ElementOfSeq, HeadTailProperties
<1> HIDE DEF d, q
<1>6. AfterAppend(d, q) \in {"dequeue", "flush"}
  BY DEF AfterAppend
<1>7. Append(sess[s].pending, d) \in Seq(Items) /\ <<d>> \in Seq(Items) /\ Len(<<d>>) = 1
      /\ Len(Append(sess[s].pending, d)) = Len(sess[s].pending) + 1
  BY <1>4, <1>5
<1>8. /\ r \in SessionState /\ r.queue = q /\ r.seen = sess[s].seen /\ r.ackCh = sess[s].ackCh
      /\ r.reader = sess[s].reader /\ r.out \in {"dequeue", "flush"}
      /\ r.pending = IF room THEN Append(sess[s].pending, d) ELSE sess[s].pending
      /\ r.next = IF room THEN <<>> ELSE <<d>>
      /\ ~room => r.out = "flush"
  BY <1>1, <1>2, <1>4, <1>5, <1>6, <1>7 DEF SessionState
<1> HIDE DEF r
<1>9. BatchLimit \in Nat /\ BatchLimit > 0 /\ QueueSize \in Nat
  BY ConstantsAssumption DEF ConstantsAssumption
<1>10. OutputOK(r)
  <2>1. Len(r.queue) <= QueueSize
    BY <1>1, <1>4, <1>5, <1>8, <1>9 DEF OutputOK
  <2>2. Len(r.pending) <= BatchLimit /\ r.pending # <<>>
    <3>1. CASE room
      <4>1. Len(r.pending) = Len(sess[s].pending) + 1
        BY <1>7, <1>8, <3>1
      <4> QED
        BY <1>4, <1>9, <3>1, <4>1
    <3>2. CASE ~room
      <4>1. r.pending = sess[s].pending /\ Len(r.pending) >= 1
        BY <1>4, <1>8, <1>9, <3>2
      <4> QED
        BY <1>1, <4>1 DEF OutputOK
    <3> QED
      BY <3>1, <3>2
  <2>3. Len(r.next) <= 1
    BY <1>7, <1>8
  <2>4. sess[s].reader \notin {"none", "handshake", "register"} /\ Dedup!Canonical(r.seen)
    BY <1>1, <1>2, <1>8 DEF OutputOK
  <2>5. r.out = "dequeue" => r.next = <<>>
    BY <1>8
  <2> QED
    BY <1>8, <2>1, <2>2, <2>3, <2>4, <2>5 DEF OutputOK
<1>11. ASSUME NEW cl \in ClientState, ServingOf(s, cl)
       PROVE  Serving(s, r, HandFor(s), left[s], produced[s], final, conn[s], cl)
  <2>1. CASE conn[s].gwOpen
    <3>1. Delivering(s, sess[s], HandFor(s), left[s], produced[s], final, conn[s], cl)
      BY <1>11, <2>1 DEF ServingOf, Serving
    <3>2. Delivering(s, r, HandFor(s), left[s], produced[s], final, conn[s], cl)
      <4>1. \/ r.pending = Append(sess[s].pending, Head(sess[s].queue)) /\ r.next = <<>>
            \/ r.pending = sess[s].pending /\ r.next = <<Head(sess[s].queue)>>
        BY <1>8 DEF d
      <4>2. r.queue = Tail(sess[s].queue)
        BY <1>8 DEF q
      <4> QED
        BY <1>1, <1>2, <1>8, <3>1, <4>1, <4>2, DequeueMoves
    <3> QED
      BY <2>1, <3>2 DEF Serving
  <2>2. CASE ~conn[s].gwOpen
    BY <1>11, <2>2 DEF ServingOf, Serving
  <2> QED
    BY <2>1, <2>2
<1>12. conn' = [conn EXCEPT ![s] = conn[s]] /\ left' = [left EXCEPT ![s] = left[s]]
  BY <1>2, SameConn
<1>13. sess[s] # NewSession /\ \A k \in SeqID : left[s][k] <= left[s][k]
  BY <1>1, <1>2 DEF NewSession
<1> QED
  BY <1>1, <1>2, <1>3, <1>8, <1>10, <1>11, <1>12, <1>13, OutputStep

(* Flush: the batch is on its way to the client. *)
LEMMA FlushDelivers ==
  ASSUME DeliveryInv, NEW s \in Session, Flush(s)
  PROVE  DeliveryInv'
<1> DEFINE e == [type |-> "results", items |-> sess[s].pending]
           r == [sess[s] EXCEPT !.out = "wait"]
           x == [conn[s] EXCEPT !.toClient = Append(conn[s].toClient, e)]
<1>1. /\ sess[s] \in SessionState /\ OutputOK(sess[s]) /\ conn[s] \in Connection /\ left[s] \in [SeqID -> Nat]
      /\ sess \in [Session -> SessionState] /\ conn \in [Session -> Connection]
  BY SessionIs DEF DeliveryInv, Typed
<1>2. /\ sess[s].out = "flush" /\ conn[s].gwOpen /\ sess[s] # NewSession
      /\ UNCHANGED <<client, gw, produced, final, left, opened, faults>>
  BY DEF Flush, pipeline, NewSession
<1>3. sess' = [sess EXCEPT ![s] = r] /\ conn' = [conn EXCEPT ![s] = x]
  <2>1. sess' = [sess EXCEPT ![s].out = "wait"] /\ conn' = [conn EXCEPT ![s].toClient = Append(conn[s].toClient, e)]
    BY <1>1 DEF Flush
  <2> HIDE DEF e
  <2> QED
    BY <1>1, <2>1
<1>4. /\ r \in SessionState /\ r.queue = sess[s].queue /\ r.seen = sess[s].seen /\ r.ackCh = sess[s].ackCh
      /\ r.reader = sess[s].reader /\ r.out = "wait" /\ r.pending = sess[s].pending /\ r.next = sess[s].next
  BY <1>1 DEF SessionState
<1>5. OutputOK(r)
  BY <1>1, <1>2, <1>4 DEF OutputOK
<1>6. /\ x \in Connection /\ x.clOpen = conn[s].clOpen /\ x.gwOpen = conn[s].gwOpen
      /\ x.toGateway = conn[s].toGateway /\ x.toClient = Append(conn[s].toClient, e)
  <2>1. e \in Batches \cup Replies
    BY <1>1, MessagesAre DEF SessionState
  <2> HIDE DEF e
  <2>2. Append(conn[s].toClient, e) \in Seq(Batches \cup Replies)
    BY <1>1, <2>1 DEF Connection
  <2> QED
    BY <1>1, <2>2 DEF Connection
<1> HIDE DEF r, x
<1>7. ASSUME NEW cl \in ClientState, ServingOf(s, cl)
      PROVE  Serving(s, r, HandFor(s), left[s], produced[s], final, x, cl)
  <2>1. Delivering(s, sess[s], HandFor(s), left[s], produced[s], final, conn[s], cl)
    BY <1>2, <1>7 DEF ServingOf, Serving
  <2>2. Delivering(s, r, HandFor(s), left[s], produced[s], final, x, cl)
    BY <1>1, <1>2, <1>4, <1>6, <2>1, FlushSends
  <2> QED
    BY <1>2, <1>6, <2>2 DEF Serving
<1>8. left' = [left EXCEPT ![s] = left[s]] /\ \A k \in SeqID : left[s][k] <= left[s][k]
  BY <1>1, <1>2, SameConn
<1> QED
  BY <1>1, <1>2, <1>3, <1>4, <1>5, <1>6, <1>7, <1>8, OutputStep

(* DequeueFails: the session is over. *)
LEMMA DequeueFailsDelivers ==
  ASSUME DeliveryInv, NEW s \in Session, DequeueFails(s)
  PROVE  DeliveryInv'
<1> DEFINE r == [sess[s] EXCEPT !.out = "done"]
<1>1. /\ sess[s] \in SessionState /\ OutputOK(sess[s]) /\ conn[s] \in Connection /\ left[s] \in [SeqID -> Nat]
      /\ sess \in [Session -> SessionState]
  BY SessionIs DEF DeliveryInv, Typed
<1>2. /\ sess[s].out = "dequeue" /\ ~conn[s].gwOpen /\ sess[s] # NewSession
      /\ UNCHANGED <<client, conn, gw, produced, final, left, opened, faults>>
      /\ sess' = [sess EXCEPT ![s].out = "done"]
  BY DEF DequeueFails, pipeline, NewSession
<1>3. sess' = [sess EXCEPT ![s] = r]
  BY <1>1, <1>2
<1>4. /\ r \in SessionState /\ r.queue = sess[s].queue /\ r.seen = sess[s].seen /\ r.ackCh = sess[s].ackCh
      /\ r.reader = sess[s].reader /\ r.out = "done" /\ r.pending = sess[s].pending /\ r.next = sess[s].next
  BY <1>1 DEF SessionState
<1> HIDE DEF r
<1>5. OutputOK(r)
  BY <1>1, <1>2, <1>4 DEF OutputOK
<1>6. ASSUME NEW cl \in ClientState, ServingOf(s, cl)
      PROVE  Serving(s, r, HandFor(s), left[s], produced[s], final, conn[s], cl)
  BY <1>2, <1>6 DEF ServingOf, Serving
<1>7. conn' = [conn EXCEPT ![s] = conn[s]] /\ left' = [left EXCEPT ![s] = left[s]] /\ \A k \in SeqID : left[s][k] <= left[s][k]
  BY <1>1, <1>2, SameConn
<1> QED
  BY <1>1, <1>2, <1>3, <1>4, <1>5, <1>6, <1>7, OutputStep

(* AckItems counts down the deliveries of one session. *)
LEMMA AckItemsIs ==
  ASSUME DeliveryInv, NEW s \in Session, AckItems(s)
  PROVE  \E l \in [SeqID -> Nat] :
           /\ left' = [left EXCEPT ![s] = l]
           /\ \A k \in SeqID : l[k] <= left[s][k]
           /\ \A k \in SeqID : LET c == Cardinality({i \in DOMAIN sess[s].pending : sess[s].pending[i][1] = k})
                               IN l[k] = IF left[s][k] > c THEN left[s][k] - c ELSE 0
<1> DEFINE c(k) == Cardinality({i \in DOMAIN sess[s].pending : sess[s].pending[i][1] = k})
           l == [k \in SeqID |-> IF left[s][k] > c(k) THEN left[s][k] - c(k) ELSE 0]
<1>1. left \in [Session -> [SeqID -> Nat]] /\ left[s] \in [SeqID -> Nat] /\ sess[s].pending \in Seq(Items)
  BY SessionIs DEF DeliveryInv, Typed, SessionState
<1>2. \A k \in SeqID : c(k) \in Nat
  <2> SUFFICES ASSUME NEW k \in SeqID PROVE c(k) \in Nat
    OBVIOUS
  <2>1. Len(sess[s].pending) \in Nat /\ DOMAIN sess[s].pending = 1 .. Len(sess[s].pending)
    BY <1>1
  <2>2. IsFiniteSet(DOMAIN sess[s].pending)
    BY <2>1, FS_Interval
  <2>3. {i \in DOMAIN sess[s].pending : sess[s].pending[i][1] = k} \subseteq DOMAIN sess[s].pending
    OBVIOUS
  <2> QED
    BY <2>2, <2>3, FS_Subset, FS_CardinalityType
<1>3. left' = [left EXCEPT ![s] = l]
  BY <1>1 DEF AckItems
<1> HIDE DEF c
<1>4. l \in [SeqID -> Nat] /\ (\A k \in SeqID : l[k] <= left[s][k])
      /\ \A k \in SeqID : l[k] = IF left[s][k] > c(k) THEN left[s][k] - c(k) ELSE 0
  BY <1>1, <1>2
<1> HIDE DEF l
<1> QED
  BY <1>3, <1>4 DEF c

(* AckedFirst: the item that did not fit begins the next batch. *)
LEMMA AckedFirstDelivers ==
  ASSUME DeliveryInv, NEW s \in Session, AckedFirst(s)
  PROVE  DeliveryInv'
<1> DEFINE d == Head(sess[s].next)
           o == AfterAppend(d, sess[s].queue)
           r == [sess[s] EXCEPT !.ackCh = FALSE, !.pending = <<d>>, !.next = <<>>, !.out = o]
<1>1. /\ sess[s] \in SessionState /\ OutputOK(sess[s]) /\ conn[s] \in Connection /\ left[s] \in [SeqID -> Nat]
      /\ sess \in [Session -> SessionState]
  BY SessionIs DEF DeliveryInv, Typed
<1>2. /\ sess[s].out = "wait" /\ sess[s].ackCh /\ sess[s].next # <<>> /\ AckItems(s) /\ sess[s] # NewSession
      /\ UNCHANGED <<client, conn, gw, produced, final, opened, faults>>
      /\ sess' = [sess EXCEPT ![s].ackCh = FALSE, ![s].pending = <<d>>, ![s].next = <<>>, ![s].out = o]
  BY DEF AckedFirst, pipeline, NewSession
<1>3. d \in Items /\ sess[s].next = <<d>>
  <2>1. sess[s].next \in Seq(Items) /\ Len(sess[s].next) <= 1 /\ Len(sess[s].next) \in Nat
    BY <1>1 DEF SessionState, OutputOK
  <2>2. Len(sess[s].next) = 1
    <3>1. Len(sess[s].next) # 0
      BY <1>2, <2>1, EmptySeq
    <3>2. \A n \in Nat : n <= 1 /\ n # 0 => n = 1
      OBVIOUS
    <3> HIDE DEF d
    <3> QED
      BY <2>1, <3>1, <3>2
  <2>3. d = sess[s].next[1] /\ 1 \in 1 .. Len(sess[s].next)
    BY <2>1, <2>2
  <2>4. d \in Items
    BY <2>1, <2>3, ElementOfSeq
  <2>5. <<d>> \in Seq(Items) /\ Len(<<d>>) = 1 /\ <<d>>[1] = d
    BY <2>4
  <2> HIDE DEF d
  <2>6. sess[s].next = <<d>>
    BY <2>1, <2>2, <2>3, <2>5, SeqEqual
  <2> QED
    BY <2>4, <2>6
<1> HIDE DEF d
<1>4. o \in {"dequeue", "flush"}
  BY DEF AfterAppend
<1> HIDE DEF o
<1>5. sess' = [sess EXCEPT ![s] = r]
  BY <1>1, <1>2
<1>6. <<d>> \in Seq(Items) /\ <<>> \in Seq(Items) /\ Len(<<d>>) = 1 /\ <<d>> # <<>> /\ Len(<<>>) = 0
  BY <1>3
<1>7. /\ r \in SessionState /\ r.queue = sess[s].queue /\ r.seen = sess[s].seen /\ r.ackCh = FALSE
      /\ r.reader = sess[s].reader /\ r.out = o /\ r.pending = <<d>> /\ r.next = <<>>
  BY <1>1, <1>4, <1>6 DEF SessionState
<1>8. r.pending = sess[s].next
  BY <1>3, <1>7
<1> HIDE DEF r
<1>9. OutputOK(r)
  <2>1. BatchLimit \in Nat /\ BatchLimit > 0
    BY ConstantsAssumption DEF ConstantsAssumption
  <2> QED
    BY <1>1, <1>2, <1>4, <1>6, <1>7, <2>1 DEF OutputOK
<1>10. PICK l \in [SeqID -> Nat] :
           /\ left' = [left EXCEPT ![s] = l]
           /\ \A k \in SeqID : l[k] <= left[s][k]
           /\ \A k \in SeqID : LET c == Cardinality({i \in DOMAIN sess[s].pending : sess[s].pending[i][1] = k})
                               IN l[k] = IF left[s][k] > c THEN left[s][k] - c ELSE 0
  BY <1>2, AckItemsIs
<1>11. ASSUME NEW cl \in ClientState, ServingOf(s, cl)
       PROVE  Serving(s, r, HandFor(s), l, produced[s], final, conn[s], cl)
  <2>1. CASE conn[s].gwOpen
    <3>1. Delivering(s, sess[s], HandFor(s), left[s], produced[s], final, conn[s], cl)
      BY <1>11, <2>1 DEF ServingOf, Serving
    <3>2. Delivering(s, r, HandFor(s), l, produced[s], final, conn[s], cl)
      BY <1>1, <1>2, <1>4, <1>7, <1>8, <1>10, <3>1, AckedMoves
    <3> QED
      BY <2>1, <3>2 DEF Serving
  <2>2. CASE ~conn[s].gwOpen
    BY <1>11, <2>2 DEF ServingOf, Serving
  <2> QED
    BY <2>1, <2>2
<1>12. conn' = [conn EXCEPT ![s] = conn[s]]
  BY <1>2, SameConn
<1> QED
  BY <1>1, <1>2, <1>5, <1>7, <1>9, <1>10, <1>11, <1>12, OutputStep

(* Acked: the batch builder is empty, and the session ends with the last     *)
(* query.                                                                    *)
LEMMA AckedDelivers ==
  ASSUME DeliveryInv, NEW s \in Session, Acked(s)
  PROVE  DeliveryInv'
<1> DEFINE n == sess[s].eofsSent + Cardinality({i \in DOMAIN sess[s].pending : IsEOF(sess[s].pending[i])})
           all == n >= ExpectedQueryEOFs
           o == IF all THEN "done" ELSE "dequeue"
           r == [sess[s] EXCEPT !.ackCh = FALSE, !.pending = <<>>, !.eofsSent = n, !.out = o]
<1>1. /\ sess[s] \in SessionState /\ OutputOK(sess[s]) /\ conn[s] \in Connection /\ left[s] \in [SeqID -> Nat]
      /\ sess \in [Session -> SessionState]
  BY SessionIs DEF DeliveryInv, Typed
<1>2. /\ sess[s].out = "wait" /\ sess[s].ackCh /\ sess[s].next = <<>> /\ AckItems(s) /\ sess[s] # NewSession
      /\ UNCHANGED <<client, produced, final, opened, faults>>
      /\ gw' = IF all THEN [gw EXCEPT !.registry = gw.registry \ {s}] ELSE gw
      /\ conn' = IF all THEN GatewayCloses(s) ELSE conn
      /\ sess' = [sess EXCEPT ![s].ackCh = FALSE, ![s].pending = <<>>, ![s].eofsSent = n, ![s].out = o]
  <2>1. sess[s].out = "wait" /\ sess[s].ackCh /\ sess[s].next = <<>> /\ AckItems(s)
    BY DEF Acked
  <2>2. sess[s] # NewSession
    BY <2>1 DEF NewSession
  <2>3. UNCHANGED <<client, produced, final, opened, faults>>
    BY DEF Acked, pipeline
  <2>4. gw' = IF all THEN [gw EXCEPT !.registry = gw.registry \ {s}] ELSE gw
    BY DEF Acked
  <2>5. conn' = IF all THEN GatewayCloses(s) ELSE conn
    BY DEF Acked
  <2>6. sess' = [sess EXCEPT ![s].ackCh = FALSE, ![s].pending = <<>>, ![s].eofsSent = n, ![s].out = o]
    BY DEF Acked
  <2> QED
    BY <2>1, <2>2, <2>3, <2>4, <2>5, <2>6
<1>3. n \in Nat
  <2>1. sess[s].pending \in Seq(Items) /\ sess[s].eofsSent \in Nat
    BY <1>1 DEF SessionState
  <2>2. Len(sess[s].pending) \in Nat /\ DOMAIN sess[s].pending = 1 .. Len(sess[s].pending)
    BY <2>1
  <2>3. IsFiniteSet(DOMAIN sess[s].pending)
    BY <2>2, FS_Interval
  <2>4. {i \in DOMAIN sess[s].pending : IsEOF(sess[s].pending[i])} \subseteq DOMAIN sess[s].pending
    OBVIOUS
  <2>5. Cardinality({i \in DOMAIN sess[s].pending : IsEOF(sess[s].pending[i])}) \in Nat
    BY <2>3, <2>4, FS_Subset, FS_CardinalityType
  <2> QED
    BY <2>1, <2>5
<1> HIDE DEF n
<1>4. o \in {"dequeue", "done"} /\ (~all => o = "dequeue")
  OBVIOUS
<1> HIDE DEF all, o
<1>5. sess' = [sess EXCEPT ![s] = r]
  BY <1>1, <1>2
<1>6. <<>> \in Seq(Items) /\ Len(<<>>) = 0
  OBVIOUS
<1>7. /\ r \in SessionState /\ r.queue = sess[s].queue /\ r.seen = sess[s].seen /\ r.ackCh = FALSE
      /\ r.reader = sess[s].reader /\ r.out = o /\ r.pending = <<>> /\ r.next = <<>>
  BY <1>1, <1>2, <1>3, <1>4, <1>6 DEF SessionState
<1> HIDE DEF r
<1>9. OutputOK(r)
  <2>1. BatchLimit \in Nat
    BY ConstantsAssumption DEF ConstantsAssumption
  <2> QED
    BY <1>1, <1>2, <1>4, <1>6, <1>7, <2>1 DEF OutputOK
<1>10. PICK l \in [SeqID -> Nat] :
           /\ left' = [left EXCEPT ![s] = l]
           /\ \A k \in SeqID : l[k] <= left[s][k]
           /\ \A k \in SeqID : LET c == Cardinality({i \in DOMAIN sess[s].pending : sess[s].pending[i][1] = k})
                               IN l[k] = IF left[s][k] > c THEN left[s][k] - c ELSE 0
  BY <1>2, AckItemsIs
<1>11. CASE all
  <2>1. PICK x \in Connection :
           /\ GatewayCloses(s) = [conn EXCEPT ![s] = x]
           /\ x.clOpen = conn[s].clOpen /\ x.gwOpen = FALSE /\ x.toClient = conn[s].toClient
    BY ClosesIs
  <2>2. conn' = [conn EXCEPT ![s] = x] /\ gw' = [gw EXCEPT !.registry = gw.registry \ {s}]
    BY <1>2, <1>11, <2>1
  <2>3. ASSUME NEW cl \in ClientState, ServingOf(s, cl)
        PROVE  Serving(s, r, HandFor(s), l, produced[s], final, x, cl)
    BY <2>1, <2>3, ClosedServing
  <2> QED
    BY <1>2, <1>5, <1>7, <1>9, <1>10, <2>1, <2>2, <2>3, OutputStep
<1>12. CASE ~all
  <2>1. ASSUME NEW cl \in ClientState, ServingOf(s, cl)
        PROVE  Serving(s, r, HandFor(s), l, produced[s], final, conn[s], cl)
    <3>1. CASE conn[s].gwOpen
      <4>1. Delivering(s, sess[s], HandFor(s), left[s], produced[s], final, conn[s], cl)
        BY <2>1, <3>1 DEF ServingOf, Serving
      <4>2. r.out \in {"dequeue", "flush"} /\ ~r.ackCh /\ r.pending = sess[s].next
        BY <1>2, <1>4, <1>7, <1>12
      <4>3. Delivering(s, r, HandFor(s), l, produced[s], final, conn[s], cl)
        BY <1>1, <1>2, <1>7, <1>10, <4>1, <4>2, AckedMoves
      <4> QED
        BY <3>1, <4>3 DEF Serving
    <3>2. CASE ~conn[s].gwOpen
      BY <2>1, <3>2 DEF ServingOf, Serving
    <3> QED
      BY <3>1, <3>2
  <2>2. conn' = [conn EXCEPT ![s] = conn[s]] /\ gw' = gw
    BY <1>2, <1>12, SameConn
  <2> QED
    BY <1>1, <1>2, <1>5, <1>7, <1>9, <1>10, <2>1, <2>2, OutputStep
<1> QED
  BY <1>11, <1>12

(* Unacknowledged deliveries that go back to the head of the FINAL queue. *)
LEMMA Requeued ==
  ASSUME DeliveryInv, NEW S, S \subseteq Unacked
  PROVE  LET p == SetToSeq(S)
         IN /\ p \in Seq(Session \X SeqID) /\ \A i \in 1 .. Len(p) : p[i] \in S
            /\ p \o final \in Seq(Session \X SeqID)
            /\ \A i \in 1 .. Len(p \o final) : (p \o final)[i][2] <= produced[(p \o final)[i][1]]
<1> DEFINE T == Session \X SeqID
           p == SetToSeq(S)
<1>1. S \subseteq T
  BY DEF Unacked
<1>2. IsFiniteSet(S)
  <2>1. MaxSessions \in Nat
    BY ConstantsAssumption DEF ConstantsAssumption
  <2>2. IsFiniteSet(Session) /\ IsFiniteSet(SeqID)
    BY <2>1, FS_Interval, ResultsAre DEF Session
  <2>3. IsFiniteSet(T)
    BY <2>2, FS_Product
  <2> QED
    BY <1>1, <2>3, FS_Subset
<1>3. p \in Seq(T) /\ \A i \in 1 .. Len(p) : p[i] \in S
  <2> HIDE DEF T
  <2> QED
    BY <1>1, <1>2, SequenceOfSet
<1> HIDE DEF p
<1>4. final \in Seq(T) /\ \A i \in 1 .. Len(final) : final[i][2] <= produced[final[i][1]]
  BY FinalIs
<1> DEFINE g == p \o final
<1>5. /\ g \in Seq(T) /\ Len(p) \in Nat /\ Len(final) \in Nat /\ Len(g) = Len(p) + Len(final)
      /\ \A i \in 1 .. Len(g) : g[i] = IF i <= Len(p) THEN p[i] ELSE final[i - Len(p)]
  <2> HIDE DEF T
  <2> QED
    BY <1>3, <1>4, ConcatProperties
<1> HIDE DEF g
<1>6. ASSUME NEW i \in 1 .. Len(g) PROVE g[i][2] <= produced[g[i][1]]
  <2>1. CASE i <= Len(p)
    <3>1. i \in 1 .. Len(p) /\ g[i] = p[i]
      BY <1>5, <2>1
    <3>2. g[i] \in Unacked
      BY <1>3, <3>1
    <3>3. g[i][1] \in Session /\ g[i][2] \in SeqID /\ left[g[i][1]][g[i][2]] > 0
      BY <3>2 DEF Unacked
    <3> QED
      BY <3>3, SessionIs
  <2>2. CASE ~(i <= Len(p))
    <3>1. i - Len(p) \in 1 .. Len(final) /\ g[i] = final[i - Len(p)]
      BY <1>5, <2>2
    <3> QED
      BY <1>4, <3>1
  <2> QED
    BY <2>1, <2>2
<1> QED
  BY <1>3, <1>5, <1>6 DEF p, g

(* OutputFails: the deliveries of the batch go back to the FINAL queue, and  *)
(* the session is over.                                                      *)
LEMMA OutputFailsDelivers ==
  ASSUME DeliveryInv, NEW s \in Session, OutputFails(s)
  PROVE  DeliveryInv'
<1> DEFINE ks == {d[1] : d \in ToSet(sess[s].pending \o sess[s].next)}
           S == {<<s, k>> : k \in ks} \cap Unacked
           p == SetToSeq(S)
           n == produced[s]
           h == HandFor(s)
           r == [sess[s] EXCEPT !.out = "done", !.pending = <<>>, !.next = <<>>]
           l == [k \in SeqID |-> IF k \in ks THEN 0 ELSE left[s][k]]
<1>1. /\ sess[s] \in SessionState /\ OutputOK(sess[s]) /\ left[s] \in [SeqID -> Nat]
      /\ n \in 0 .. Len(Results) /\ \A i \in SeqID : left[s][i] <= Len(Results[i]) /\ (left[s][i] > 0 => i <= n)
  BY SessionIs
<1>2. sess \in [Session -> SessionState] /\ left \in [Session -> [SeqID -> Nat]] /\ gw \in GatewayState
      /\ gw.toAbort \subseteq gw.clients
  BY GatewayIs DEF DeliveryInv, Typed
<1>3. sess[s].out \in {"flush", "wait"} /\ sess[s] # NewSession
  <2>1. sess[s].out \in {"flush", "wait"}
    BY DEF OutputFails
  <2> QED
    BY <2>1 DEF NewSession
<1>4. final' = p \o final
  BY DEF OutputFails
<1>5. left' = [left EXCEPT ![s] = l]
  BY <1>2 DEF OutputFails
<1>6. gw' = [gw EXCEPT !.registry = gw.registry \ {s}]
  BY DEF OutputFails
<1>7. conn' = GatewayCloses(s)
  BY DEF OutputFails
<1>8. sess' = [sess EXCEPT ![s] = r]
  BY <1>2 DEF OutputFails
<1>9. UNCHANGED <<client, produced, opened, faults>>
  BY DEF OutputFails, pipeline
<1> HIDE DEF ks
<1>10. S \subseteq Unacked /\ \A e \in S : e[1] = s
  OBVIOUS
<1> HIDE DEF S
<1>11. /\ p \in Seq(Session \X SeqID) /\ \A i \in 1 .. Len(p) : p[i] \in S
       /\ final' \in Seq(Session \X SeqID)
       /\ \A i \in 1 .. Len(final') : final'[i][2] <= produced[final'[i][1]]
  <2> HIDE DEF p
  <2>1. /\ p \in Seq(Session \X SeqID) /\ \A i \in 1 .. Len(p) : p[i] \in S
        /\ p \o final \in Seq(Session \X SeqID)
        /\ \A i \in 1 .. Len(p \o final) : (p \o final)[i][2] <= produced[(p \o final)[i][1]]
    BY <1>10, Requeued DEF p
  <2> QED
    BY <1>4, <2>1
<1> HIDE DEF p
<1>12. ASSUME NEW t \in Session \ {s}, NEW m \in 0 .. Len(Results), Ordered(t, final, produced[t], m)
       PROVE  Ordered(t, final', produced[t], m)
  <2>1. final \in Seq(Session \X SeqID)
    BY FinalIs
  <2>2. \A i \in 1 .. Len(p) : p[i][1] # t
    BY <1>10, <1>11
  <2>3. Ordered(t, p \o final, produced[t], m)
    BY <1>11, <1>12, <2>1, <2>2, OrderedBehind
  <2> QED
    BY <1>4, <2>3
<1>13. /\ r \in SessionState /\ OutputOK(r)
  <2>1. <<>> \in Seq(Items) /\ Len(<<>>) = 0
    OBVIOUS
  <2>2. /\ r \in SessionState /\ r.queue = sess[s].queue /\ r.seen = sess[s].seen /\ r.reader = sess[s].reader
        /\ r.out = "done" /\ r.pending = <<>> /\ r.next = <<>>
    BY <1>1, <2>1 DEF SessionState
  <2>3. BatchLimit \in Nat
    BY ConstantsAssumption DEF ConstantsAssumption
  <2>4. sess[s].reader \notin {"none", "handshake", "register"}
    BY <1>1, <1>3 DEF OutputOK
  <2> HIDE DEF r
  <2> QED
    BY <1>1, <2>1, <2>2, <2>3, <2>4 DEF OutputOK
<1> HIDE DEF r
<1>14. l \in [SeqID -> Nat] /\ \A k \in SeqID : l[k] <= Len(Results[k]) /\ (l[k] > 0 => k <= n)
  <2>1. \A k \in SeqID : Len(Results[k]) \in Nat
    BY ResultsAre
  <2> QED
    BY <1>1, <2>1
<1> HIDE DEF l
<1>15. PICK x \in Connection :
           /\ GatewayCloses(s) = [conn EXCEPT ![s] = x]
           /\ x.clOpen = conn[s].clOpen /\ x.gwOpen = FALSE /\ x.toClient = conn[s].toClient
  BY ClosesIs
<1>16. conn' = [conn EXCEPT ![s] = x]
  BY <1>7, <1>15
<1>17. produced' = [produced EXCEPT ![s] = n]
  BY <1>9, SameConn
<1>18. gw' \in GatewayState /\ gw'.hand = gw.hand /\ gw'.toAbort \subseteq gw'.clients
       /\ gw'.registry = gw.registry \ {s}
  BY <1>2, <1>6 DEF GatewayState
<1>19. \A t \in Session : HandFor(t)' = IF t = s THEN h ELSE HandFor(t)
  BY <1>18 DEF HandFor
<1> HIDE DEF h
<1>20. OthersStay(s, r, x, l, n, h)
  BY <1>5, <1>8, <1>12, <1>16, <1>17, <1>19 DEF OthersStay
<1>21. ASSUME NEW cl \in ClientState, ServingOf(s, cl)
       PROVE  Serving(s, r, h, l, n, final', x, cl)
  BY <1>15, <1>21, ClosedServing
<1>22. /\ s <= opened /\ faults' \in 0 .. MaxFaults + 1 /\ n >= produced[s]
  BY <1>1, <1>3, <1>9, SessionIs DEF DeliveryInv, Typed
<1> HIDE DEF n
<1> QED
  BY <1>1, <1>9, <1>11, <1>13, <1>14, <1>15, <1>18, <1>20, <1>21, <1>22, SessionStep

(* Break: the client reads no more. *)
LEMMA BreakDelivers ==
  ASSUME DeliveryInv, NEW s \in Session, Break(s)
  PROVE  DeliveryInv'
<1> DEFINE n == produced[s]
           h == HandFor(s)
           l == left[s]
           r == sess[s]
<1>1. /\ r \in SessionState /\ OutputOK(r) /\ l \in [SeqID -> Nat]
      /\ n \in 0 .. Len(Results) /\ \A i \in SeqID : l[i] <= Len(Results[i]) /\ (l[i] > 0 => i <= n)
  BY SessionIs
<1>2. /\ conn[s].gwOpen /\ faults < MaxFaults /\ faults' = faults + 1 /\ conn' = ClientCloses(s)
      /\ UNCHANGED <<client, gw, sess, produced, final, left, opened>>
  BY DEF Break, pipeline
<1>3. PICK x \in Connection :
              /\ ClientCloses(s) = [conn EXCEPT ![s] = x]
              /\ x.clOpen = FALSE /\ x.gwOpen = conn[s].gwOpen /\ x.toGateway = conn[s].toGateway
  BY ClosesIs
<1>4. faults' \in 0 .. MaxFaults + 1
  <2>1. faults \in Nat /\ MaxFaults \in Nat
    BY ConstantsAssumption DEF DeliveryInv, Typed, ConstantsAssumption
  <2> QED
    BY <1>2, <2>1
<1>5. /\ conn' = [conn EXCEPT ![s] = x] /\ produced' = [produced EXCEPT ![s] = n] /\ sess' = [sess EXCEPT ![s] = r]
      /\ left' = [left EXCEPT ![s] = l]
  BY <1>2, <1>3, SameConn
<1>6. \A t \in Session : HandFor(t)' = IF t = s THEN h ELSE HandFor(t)
  BY <1>2 DEF HandFor
<1> HIDE DEF h
<1>7. OthersStay(s, r, x, l, n, h)
  BY <1>2, <1>5, <1>6 DEF OthersStay
<1>8. /\ gw' \in GatewayState /\ gw'.toAbort \subseteq gw'.clients /\ s \in gw'.registry /\ gw'.registry = gw.registry
  BY <1>2, GatewayIs DEF DeliveryInv, Registered
<1>9. /\ s <= opened /\ n >= produced[s] /\ final' \in Seq(Session \X SeqID)
      /\ \A i \in 1 .. Len(final') : final'[i][2] <= produced[final'[i][1]]
  BY <1>1, <1>2, FinalIs, SessionIs
<1> HIDE DEF n, l, r
<1> QED
  BY <1>1, <1>2, <1>3, <1>4, <1>7, <1>8, <1>9, SessionStep

-----------------------------------------------------------------------------
(* The pipeline. *)

(* The pipeline puts batch k of session s in the FINAL queue, the next one   *)
(* or one that it has sent before.                                           *)
LEMMA QueueStep ==
  ASSUME DeliveryInv, NEW s \in Session, NEW k \in SeqID, s <= opened, NEW n \in 0 .. Len(Results),
         \/ n = produced[s] /\ k <= n
         \/ n = produced[s] + 1 /\ k = n,
         final' = Append(final, <<s, k>>), produced' = [produced EXCEPT ![s] = n],
         UNCHANGED <<client, conn, gw, sess, left, opened>>, faults' \in 0 .. MaxFaults + 1
  PROVE  DeliveryInv'
<1> DEFINE e == <<s, k>>
           h == HandFor(s)
           x == conn[s]
           l == left[s]
           r == sess[s]
<1>1. /\ r \in SessionState /\ OutputOK(r) /\ l \in [SeqID -> Nat] /\ x \in Connection
      /\ produced[s] \in 0 .. Len(Results)
      /\ \A i \in SeqID : l[i] <= Len(Results[i]) /\ (l[i] > 0 => i <= produced[s])
  BY SessionIs
<1>2. final \in Seq(Session \X SeqID) /\ \A i \in 1 .. Len(final) : final[i][2] <= produced[final[i][1]]
  BY FinalIs
<1>3. e \in Session \X SeqID /\ e[1] = s /\ e[2] = k /\ k \in Nat /\ produced[s] \in Nat /\ n \in Nat
  BY <1>1, ResultsAre
<1>4. n >= produced[s] /\ k <= n /\ \A i \in Nat : i <= produced[s] => i <= n
  BY <1>3
<1>5. \A i \in SeqID : l[i] <= Len(Results[i]) /\ (l[i] > 0 => i <= n)
  BY <1>1, <1>4, ResultsAre
<1>6. /\ Append(final, e) \in Seq(Session \X SeqID) /\ Len(Append(final, e)) = Len(final) + 1 /\ Len(final) \in Nat
      /\ \A i \in 1 .. Len(final) : Append(final, e)[i] = final[i]
      /\ Append(final, e)[Len(final) + 1] = e
  <2> DEFINE T == Session \X SeqID
  <2>1. final \in Seq(T) /\ e \in T
    BY <1>2, <1>3
  <2> HIDE DEF T
  <2>2. /\ Append(final, e) \in Seq(T) /\ Len(Append(final, e)) = Len(final) + 1 /\ Len(final) \in Nat
        /\ \A i \in 1 .. Len(final) : Append(final, e)[i] = final[i]
        /\ Append(final, e)[Len(final) + 1] = e
    BY <2>1, AppendProperties
  <2> QED
    BY <2>2 DEF T
<1>7. ASSUME NEW i \in 1 .. Len(Append(final, e))
      PROVE  Append(final, e)[i][2] <= produced[Append(final, e)[i][1]]
               \/ (Append(final, e)[i][1] = s /\ Append(final, e)[i][2] <= n)
  <2> DEFINE g == Append(final, e)
  <2>1. /\ Len(g) = Len(final) + 1 /\ Len(final) \in Nat /\ i \in 1 .. Len(g)
        /\ \A j \in 1 .. Len(final) : g[j] = final[j]
        /\ g[Len(final) + 1] = e
    BY <1>6
  <2> HIDE DEF g
  <2>2. i \in 1 .. Len(final) \/ i = Len(final) + 1
    BY <2>1
  <2>3. g[i][2] <= produced[g[i][1]] \/ (g[i][1] = s /\ g[i][2] <= n)
    BY <1>2, <1>3, <1>4, <2>1, <2>2
  <2> QED
    BY <2>3 DEF g
<1>8. ASSUME NEW t \in Session \ {s}, NEW m \in 0 .. Len(Results), Ordered(t, final, produced[t], m)
      PROVE  Ordered(t, Append(final, e), produced[t], m)
  <2>1. produced[t] \in Nat /\ m \in Nat /\ e[1] # t
    BY <1>3, SessionIs, ResultsAre
  <2> HIDE DEF e
  <2> QED
    BY <1>2, <1>3, <1>8, <2>1, OrderedAppend
<1>9. ASSUME NEW m \in 0 .. Len(Results), Ordered(s, final, produced[s], m)
      PROVE  Ordered(s, Append(final, e), n, m)
  <2>1. m \in Nat
    OBVIOUS
  <2>2. CASE n = produced[s] /\ k <= n
    <3> HIDE DEF e
    <3> QED
      BY <1>2, <1>3, <1>9, <2>1, <2>2, OrderedAppend
  <2>3. CASE n = produced[s] + 1 /\ k = n
    <3>1. e = <<s, produced[s] + 1>>
      BY <2>3
    <3> HIDE DEF e
    <3> QED
      BY <1>2, <1>3, <1>9, <2>1, <2>3, <3>1, OrderedAppend
  <2> QED
    BY <2>2, <2>3
<1>10. final' = Append(final, e)
  OBVIOUS
<1> HIDE DEF e
<1>11. conn' = [conn EXCEPT ![s] = x] /\ sess' = [sess EXCEPT ![s] = r] /\ left' = [left EXCEPT ![s] = l]
  BY SameConn
<1>12. \A t \in Session : HandFor(t)' = IF t = s THEN h ELSE HandFor(t)
  BY DEF HandFor
<1> HIDE DEF h
<1>13. OthersStay(s, r, x, l, n, h)
  BY <1>8, <1>10, <1>11, <1>12 DEF OthersStay
<1>14. ASSUME NEW cl \in ClientState, ServingOf(s, cl)
       PROVE  Serving(s, r, h, l, n, final', x, cl)
  <2>1. CASE x.gwOpen
    <3>1. Delivering(s, r, h, l, produced[s], final, x, cl)
      BY <1>14, <2>1 DEF ServingOf, Serving, h
    <3>2. Delivering(s, r, h, l, n, final', x, cl)
      BY <1>9, <1>10, <3>1 DEF Delivering
    <3> QED
      BY <2>1, <3>2 DEF Serving
  <2>2. CASE ~x.gwOpen
    BY <1>14, <2>2 DEF ServingOf, Serving
  <2> QED
    BY <2>1, <2>2
<1>15. /\ gw' \in GatewayState /\ gw'.toAbort \subseteq gw'.clients /\ gw'.registry = gw.registry
       /\ x.gwOpen => s \in gw'.registry
  BY GatewayIs DEF DeliveryInv, Registered
<1>16. /\ final' \in Seq(Session \X SeqID)
       /\ \A i \in 1 .. Len(final') : final'[i][2] <= produced[final'[i][1]] \/ (final'[i][1] = s /\ final'[i][2] <= n)
  BY <1>6, <1>7, <1>10
<1>17. (x.clOpen => conn[s].clOpen) /\ (x.gwOpen => conn[s].gwOpen)
  OBVIOUS
<1>18. UNCHANGED <<client, opened>> /\ s <= opened /\ n \in 0 .. Len(Results) /\ faults' \in 0 .. MaxFaults + 1
       /\ gw.registry \ {s} \subseteq gw'.registry /\ gw'.registry \subseteq gw.registry
       /\ \A cl \in ClientState : x.clOpen /\ ServingOf(s, cl) => Serving(s, r, h, l, n, final', x, cl)
  BY <1>14, <1>15
<1> HIDE DEF x, l, r
<1> QED
  BY <1>1, <1>4, <1>5, <1>13, <1>15, <1>16, <1>17, <1>18, SessionStep

(* Produce: only an opened session has messages in the pipeline              *)
(* (PublishedIsRegistered), and the batch is its next one.                   *)
LEMMA ProduceDelivers ==
  ASSUME DeliveryInv, IndInv, NEW s \in Session, Produce(s)
  PROVE  DeliveryInv'
<1> DEFINE k == produced[s] + 1
<1>1. /\ k \in SeqID /\ s \notin aborted /\ produced' = [produced EXCEPT ![s] = k] /\ final' = Append(final, <<s, k>>)
      /\ UNCHANGED <<client, conn, gw, sess, left, opened, faults>>
  BY DEF Produce
<1>2. published[s] \in Nat /\ published[s] > 0
  <2>1. Messages \in Nat /\ Messages > 0
    BY ConstantsAssumption DEF ConstantsAssumption
  <2>2. published[s] >= Messages \/ published[s] >= 1
    BY DEF Produce
  <2>3. published[s] \in Nat
    BY DEF IndInv, Shape
  <2> QED
    BY <2>1, <2>2, <2>3
<1>3. s <= opened
  <2>1. s \in file
    BY <1>1, <1>2 DEF IndInv, PublishedIsRegistered
  <2> QED
    BY <2>1 DEF IndInv, Numbered
<1>4. k \in 0 .. Len(Results)
  BY <1>1, ResultsAre
<1>5. faults' \in 0 .. MaxFaults + 1
  BY <1>1 DEF DeliveryInv, Typed
<1>6. k = produced[s] + 1
  OBVIOUS
<1> HIDE DEF k
<1> QED
  BY <1>1, <1>3, <1>4, <1>5, <1>6, QueueStep

(* Repeat: a batch that was sent before. *)
LEMMA RepeatDelivers ==
  ASSUME DeliveryInv, NEW s \in Session, NEW k \in SeqID, Repeat(s, k)
  PROVE  DeliveryInv'
<1>1. /\ k <= produced[s] /\ faults < MaxFaults /\ faults' = faults + 1 /\ final' = Append(final, <<s, k>>)
      /\ UNCHANGED <<client, conn, gw, sess, produced, left, opened>>
  BY DEF Repeat, pipeline
<1>2. faults' \in 0 .. MaxFaults + 1
  <2>1. faults \in Nat /\ MaxFaults \in Nat
    BY ConstantsAssumption DEF DeliveryInv, Typed, ConstantsAssumption
  <2> QED
    BY <1>1, <2>1
<1>3. produced[s] \in 0 .. Len(Results) /\ produced' = [produced EXCEPT ![s] = produced[s]]
  BY <1>1, SessionIs, SameConn
<1>4. s <= opened
  <2>1. produced[s] # 0
    BY <1>1, <1>3, ResultsAre
  <2> QED
    BY <2>1, SessionIs
<1> QED
  BY <1>1, <1>2, <1>3, <1>4, QueueStep

-----------------------------------------------------------------------------
(* The gateway dies, comes back, and accepts. *)

(* A session that was not opened. *)
LEMMA NewSessionIs == NewSession \in SessionState /\ OutputOK(NewSession)
<1>1. NewSession \in SessionState
  BY DEF NewSession, SessionState
<1>2. OutputOK(NewSession)
  BY ConstantsAssumption, NothingSeen DEF NewSession, OutputOK, ConstantsAssumption
<1> QED
  BY <1>1, <1>2

(* GatewayCrash: every session is over, and its clients read what was sent   *)
(* to them.                                                                  *)
LEMMA CrashDelivers ==
  ASSUME DeliveryInv, GatewayCrash
  PROVE  DeliveryInv'
<1>1. /\ gw' = [phase |-> "down", clients |-> {}, registry |-> {}, toAbort |-> {}, hand |-> <<>>]
      /\ sess' = [s \in Session |-> NewSession]
      /\ conn' = [s \in Session |-> GatewayCloses(s)[s]]
      /\ final' = SetToSeq(Unacked) \o final
      /\ left' = [s \in Session |-> [k \in SeqID |-> 0]]
      /\ UNCHANGED <<client, produced, opened>> /\ faults' = faults + 1
  BY DEF GatewayCrash, pipeline
<1>2. faults' \in 0 .. MaxFaults + 1
  <2>1. faults \in Nat /\ MaxFaults \in Nat
    BY ConstantsAssumption DEF DeliveryInv, Typed, ConstantsAssumption
  <2>2. faults < MaxFaults + 1
    BY <2>1 DEF GatewayCrash
  <2> QED
    BY <1>1, <2>1, <2>2
<1>3. /\ final' \in Seq(Session \X SeqID)
      /\ \A i \in 1 .. Len(final') : final'[i][2] <= produced[final'[i][1]]
  BY <1>1, Requeued
<1>4. ASSUME NEW s \in Session
      PROVE  conn'[s] \in Connection /\ conn'[s].clOpen = conn[s].clOpen /\ conn'[s].gwOpen = FALSE
             /\ conn'[s].toClient = conn[s].toClient
  <2>1. PICK x \in Connection :
              /\ GatewayCloses(s) = [conn EXCEPT ![s] = x]
              /\ x.clOpen = conn[s].clOpen /\ x.gwOpen = FALSE /\ x.toClient = conn[s].toClient
    BY ClosesIs
  <2>2. conn'[s] = GatewayCloses(s)[s]
    BY <1>1
  <2>3. conn'[s] = x
    BY <2>1, <2>2 DEF DeliveryInv, Typed
  <2> QED
    BY <2>1, <2>3
<1>5. Typed'
  <2>1. conn' \in [Session -> Connection]
    <3>1. conn' = [s \in Session |-> conn'[s]]
      BY <1>1
    <3> QED
      BY <1>4, <3>1
  <2>2. sess' \in [Session -> SessionState]
    BY <1>1, NewSessionIs
  <2>3. gw' \in GatewayState
    BY <1>1 DEF GatewayState
  <2>4. left' \in [Session -> [SeqID -> Nat]]
    BY <1>1
  <2>5. client' \in [Client -> ClientState] /\ produced' \in [Session -> 0 .. Len(Results)]
        /\ opened' \in 0 .. MaxSessions
    BY <1>1 DEF DeliveryInv, Typed
  <2> QED
    BY <1>2, <1>3, <2>1, <2>2, <2>3, <2>4, <2>5 DEF Typed
<1>6. Phases' /\ Sids'
  BY <1>1 DEF DeliveryInv, Phases, Sids
<1>7. Registered'
  <2>1. gw'.registry = {} /\ gw'.toAbort = {} /\ gw'.clients = {} /\ gw'.hand = <<>>
    BY <1>1
  <2>2. ASSUME NEW s \in Session
        PROVE  /\ ~conn'[s].gwOpen /\ OutputOK(sess'[s])
               /\ s > opened' => sess'[s] = NewSession /\ produced'[s] = 0
    <3>1. sess'[s] = NewSession
      BY <1>1
    <3>2. s > opened => produced[s] = 0
      BY DEF DeliveryInv, Registered
    <3> QED
      BY <1>1, <1>4, <3>1, <3>2, NewSessionIs
  <2> QED
    BY <2>1, <2>2 DEF Registered
<1>8. Counted'
  <2>1. \A s \in Session, k \in SeqID : left'[s][k] = 0 /\ Len(Results[k]) \in Nat
    BY <1>1, ResultsAre
  <2> QED
    BY <1>1, <1>3, <2>1 DEF Counted
<1>9. Streaming'
  <2> SUFFICES ASSUME NEW c \in Client, client[c].phase \notin {"idle", "done"}, conn'[client[c].sid].clOpen
               PROVE  LET t == client[c].sid
                      IN Serving(t, sess'[t], HandFor(t)', left'[t], produced'[t], final', conn'[t], client[c])
    BY <1>1 DEF Streaming, Busy, ServingOf
  <2>1. client[c].sid \in Session
    BY SidsAre
  <2>2. ServingOf(client[c].sid, client[c])
    BY <1>4, <2>1 DEF DeliveryInv, Streaming, Busy
  <2>3. ~conn'[client[c].sid].gwOpen /\ conn'[client[c].sid].toClient = conn[client[c].sid].toClient
    BY <1>4, <2>1
  <2> QED
    BY <2>1, <2>2, <2>3, ClosedServing
<1> QED
  BY <1>5, <1>6, <1>7, <1>8, <1>9 DEF DeliveryInv

(* The steps of abortPreviousClients. *)
LEMMA ReviveDelivers ==
  ASSUME DeliveryInv, IndInv, Revive
  PROVE  DeliveryInv'
<1>1. gw \in GatewayState /\ gw.toAbort \subseteq gw.clients
  BY GatewayIs
<1>2. file \subseteq Session
  <2>1. opened \in 0 .. MaxSessions /\ file \subseteq 1 .. opened
    BY DEF IndInv, Shape, Numbered
  <2>2. MaxSessions \in Nat
    BY ConstantsAssumption DEF ConstantsAssumption
  <2> QED
    BY <2>1, <2>2 DEF Session
<1>3. CASE Start
  <2>1. gw' = [gw EXCEPT !.phase = "reviving", !.clients = file, !.toAbort = file]
        /\ UNCHANGED <<client, conn, sess, left, produced, final, opened, faults>>
    BY <1>3 DEF Start, pipeline
  <2>2. gw' \in GatewayState /\ gw'.registry = gw.registry /\ gw'.hand = gw.hand /\ gw'.toAbort \subseteq gw'.clients
    BY <1>1, <1>2, <2>1 DEF GatewayState
  <2> QED
    BY <2>1, <2>2, GatewayMoves
<1>4. CASE Revived
  <2>1. gw' = [gw EXCEPT !.phase = "serving", !.clients = {}] /\ gw.toAbort = {}
        /\ UNCHANGED <<client, conn, sess, left, produced, final, opened, faults>>
    BY <1>4 DEF Revived, pipeline
  <2>2. gw' \in GatewayState /\ gw'.registry = gw.registry /\ gw'.hand = gw.hand /\ gw'.toAbort \subseteq gw'.clients
    BY <1>1, <2>1 DEF GatewayState
  <2> QED
    BY <2>1, <2>2, GatewayMoves
<1>5. ASSUME NEW s \in Session, AbortPrevious(s) PROVE DeliveryInv'
  <2>1. gw' = [gw EXCEPT !.toAbort = gw.toAbort \ {s}]
        /\ UNCHANGED <<client, conn, sess, left, produced, final, opened, faults>>
    BY <1>5 DEF AbortPrevious
  <2>2. gw' \in GatewayState /\ gw'.registry = gw.registry /\ gw'.hand = gw.hand /\ gw'.toAbort \subseteq gw'.clients
    BY <1>1, <2>1 DEF GatewayState
  <2> QED
    BY <2>1, <2>2, GatewayMoves
<1> QED
  BY <1>3, <1>4, <1>5 DEF Revive

(* Accept: a session that nothing is known of begins with what comes first. *)
LEMMA AcceptDelivers ==
  ASSUME DeliveryInv, NEW c \in Client, Accept(c)
  PROVE  DeliveryInv'
<1> DEFINE s == opened + 1
           w == [client[c] EXCEPT !.phase = "connect", !.sid = s]
           x == [clOpen |-> TRUE, gwOpen |-> TRUE, toGateway |-> <<"connect">>, toClient |-> <<>>]
           r == [sess[s] EXCEPT !.reader = "handshake"]
<1>1. /\ client[c].phase = "idle" /\ s \in Session /\ opened' = s /\ opened \in Nat
      /\ client \in [Client -> ClientState] /\ conn \in [Session -> Connection] /\ sess \in [Session -> SessionState]
      /\ gw \in GatewayState
  BY DEF DeliveryInv, Typed, Accept
<1>2. client' = [client EXCEPT ![c] = w] /\ sess' = [sess EXCEPT ![s] = r]
  BY <1>1 DEF Accept
<1>3. conn' = [conn EXCEPT ![s] = x] /\ gw' = [gw EXCEPT !.registry = gw.registry \cup {s}]
      /\ UNCHANGED <<produced, final, left, faults>>
  BY DEF Accept, pipeline
<1>4. s > opened /\ sess[s] = NewSession /\ produced[s] = 0
  BY <1>1 DEF DeliveryInv, Registered
<1>5. client[c] = NoClient
  BY <1>1 DEF DeliveryInv, Phases
<1>6. /\ w \in ClientState /\ w.phase = "connect" /\ w.sid = s /\ w.sent = 0
      /\ w.rows = [q \in Query |-> <<>>] /\ w.open = {} /\ w.eofs = {}
  <2>1. client[c] \in ClientState
    BY <1>1
  <2>2. w \in ClientState /\ w.phase = "connect" /\ w.sid = s
        /\ w.sent = client[c].sent /\ w.rows = client[c].rows /\ w.open = client[c].open /\ w.eofs = client[c].eofs
    BY <1>1, <2>1 DEF ClientState
  <2> HIDE DEF w
  <2> QED
    BY <1>5, <2>2 DEF NoClient
<1>7. /\ r \in SessionState /\ OutputOK(r) /\ r.seen = <<>> /\ r.pending = <<>> /\ r.next = <<>> /\ r.queue = <<>>
      /\ r.out = "off" /\ r.ackCh = FALSE
  <2>1. sess[s] \in SessionState
    BY <1>1
  <2>2. /\ r \in SessionState /\ r.reader = "handshake" /\ r.seen = sess[s].seen /\ r.pending = sess[s].pending
        /\ r.next = sess[s].next /\ r.queue = sess[s].queue /\ r.out = sess[s].out /\ r.ackCh = sess[s].ackCh
    BY <2>1 DEF SessionState
  <2> HIDE DEF r
  <2>3. /\ r.seen = <<>> /\ r.pending = <<>> /\ r.next = <<>> /\ r.queue = <<>>
        /\ r.out = "off" /\ r.ackCh = FALSE
    BY <1>4, <2>2 DEF NewSession
  <2>4. OutputOK(r)
    BY <2>2, <2>3, NothingSeen, ConstantsAssumption DEF OutputOK, ConstantsAssumption
  <2> QED
    BY <2>2, <2>3, <2>4
<1>8. x \in Connection /\ x.clOpen /\ x.gwOpen /\ x.toGateway = <<"connect">> /\ x.toClient = <<>>
  BY DEF Connection
<1> HIDE DEF w, r, x
<1>9. /\ client'[c] = w /\ \A d \in Client \ {c} : client'[d] = client[d]
  BY <1>1, <1>2
<1>10. /\ conn'[s] = x /\ sess'[s] = r
       /\ \A t \in Session \ {s} : conn'[t] = conn[t] /\ sess'[t] = sess[t]
  BY <1>1, <1>2, <1>3
<1>11. \A t \in Session : t <= opened => t # s
  BY <1>1
<1>12. /\ gw' \in GatewayState /\ gw'.registry = gw.registry \cup {s} /\ gw'.toAbort = gw.toAbort
       /\ gw'.clients = gw.clients /\ gw'.hand = gw.hand
  BY <1>1, <1>3 DEF GatewayState
<1>13. Typed'
  <2>1. client' \in [Client -> ClientState] /\ conn' \in [Session -> Connection] /\ sess' \in [Session -> SessionState]
    BY <1>1, <1>2, <1>3, <1>6, <1>7, <1>8
  <2>2. opened' \in 0 .. MaxSessions
    BY <1>1, ConstantsAssumption DEF Session, ConstantsAssumption
  <2> QED
    BY <1>3, <1>12, <2>1, <2>2 DEF DeliveryInv, Typed
<1>14. Phases'
  <2>1. 0 < Messages
    BY ConstantsAssumption DEF ConstantsAssumption
  <2>2. ASSUME NEW d \in Client
        PROVE  /\ client'[d].phase = "idle" => client'[d] = NoClient
               /\ client'[d].phase \in {"connect", "send"} => client'[d].sent < Messages
               /\ client'[d].phase = "done" => Exact(client'[d])
    <3>1. CASE d = c
      BY <1>6, <1>9, <2>1, <3>1
    <3>2. CASE d # c
      BY <1>9, <3>2 DEF DeliveryInv, Phases
    <3> QED
      BY <3>1, <3>2
  <2> QED
    BY <2>2 DEF Phases
<1>15. Sids'
  <2>1. ASSUME NEW d \in Client, client'[d].phase # "idle" PROVE client'[d].sid \in 1 .. opened'
    <3>1. CASE d = c
      BY <1>1, <1>6, <1>9, <3>1
    <3>2. CASE d # c
      BY <1>1, <1>9, <2>1, <3>2 DEF DeliveryInv, Sids
    <3> QED
      BY <3>1, <3>2
  <2>2. ASSUME NEW d \in Client, NEW e \in Client, client'[d].phase # "idle", client'[e].phase # "idle",
               client'[d].sid = client'[e].sid
        PROVE  d = e
    <3>1. \A b \in Client \ {c} : client'[b].phase # "idle" => client'[b].sid # s
      BY <1>1, <1>9 DEF DeliveryInv, Sids
    <3>2. CASE d # c /\ e # c
      BY <1>9, <2>2, <3>2 DEF DeliveryInv, Sids
    <3>3. CASE d = c \/ e = c
      BY <1>6, <1>9, <2>2, <3>1, <3>3
    <3> QED
      BY <3>2, <3>3
  <2> QED
    BY <2>1, <2>2 DEF Sids
<1>16. Registered'
  <2>1. gw'.registry \subseteq 1 .. opened'
    BY <1>1, <1>12 DEF DeliveryInv, Registered
  <2>2. gw'.hand # <<>> => gw'.hand[1] <= opened'
    <3> SUFFICES ASSUME gw'.hand # <<>> PROVE gw'.hand[1] <= opened'
      OBVIOUS
    <3>1. gw'.hand[1] <= opened
      BY <1>12 DEF DeliveryInv, Registered
    <3>2. PICK t \in Session : t = gw'.hand[1]
      BY <1>12 DEF GatewayState
    <3>3. t \in Int
      BY DEF Session
    <3>4. t <= opened
      BY <3>1, <3>2
    <3>5. t <= opened'
      BY <1>1, <3>3, <3>4
    <3> QED
      BY <3>2, <3>5
  <2>3. ASSUME NEW t \in Session
        PROVE  /\ conn'[t].gwOpen => t \in gw'.registry
               /\ OutputOK(sess'[t])
               /\ t > opened' => sess'[t] = NewSession /\ produced'[t] = 0
    <3>1. CASE t = s
      <4>1. ~(t > opened')
        BY <1>1, <3>1
      <4> QED
        BY <1>7, <1>10, <1>12, <3>1, <4>1
    <3>2. CASE t # s
      <4>1. t > opened' => t > opened
        BY <1>1 DEF Session
      <4> QED
        BY <1>3, <1>10, <1>12, <3>2, <4>1 DEF DeliveryInv, Registered
    <3> QED
      BY <3>1, <3>2
  <2>4. gw'.toAbort \subseteq gw'.clients
    BY <1>12 DEF DeliveryInv, Registered
  <2> QED
    BY <2>1, <2>2, <2>3, <2>4 DEF Registered
<1>17. Counted'
  BY <1>3 DEF DeliveryInv, Counted
<1>19. HandFor(s) = <<>>
  <2>1. gw.hand # <<>> => gw.hand[1] # s
    <3> SUFFICES ASSUME gw.hand # <<>>, gw.hand[1] = s PROVE FALSE
      OBVIOUS
    <3>1. s <= opened
      BY DEF DeliveryInv, Registered
    <3> QED
      BY <1>1, <3>1
  <2> QED
    BY <2>1 DEF HandFor
<1>20. final \in Seq(Session \X SeqID) /\ \A i \in 1 .. Len(final) : final[i][1] # s
  <2>1. final \in Seq(Session \X SeqID) /\ \A i \in 1 .. Len(final) : final[i][2] <= produced[final[i][1]]
    BY FinalIs
  <2> SUFFICES ASSUME NEW i \in 1 .. Len(final), final[i][1] = s PROVE FALSE
    BY <2>1
  <2>2. final[i] \in Session \X SeqID
    BY <2>1, ElementOfSeq
  <2>3. final[i][2] \in Nat /\ final[i][2] >= 1
    BY <2>2, ResultsAre
  <2>4. final[i][2] <= 0
    BY <1>4, <2>1
  <2> QED
    BY <2>3, <2>4
<1>21. Streaming'
  <2> SUFFICES ASSUME NEW d \in Client, client'[d].phase \notin {"idle", "done"}, conn'[client'[d].sid].clOpen
               PROVE  LET t == client'[d].sid
                      IN Serving(t, sess'[t], HandFor(t), left'[t], produced'[t], final', conn'[t], client'[d])
    BY <1>12 DEF Streaming, Busy, ServingOf, HandFor
  <2>1. CASE d = c
    <3>1. Delivering(s, r, <<>>, left[s], 0, final, x, w)
      <4> HIDE DEF s
      <4> QED
        BY <1>1, <1>6, <1>7, <1>8, <1>20, AcceptBegins
    <3>2. Serving(s, r, HandFor(s), left[s], produced[s], final, x, w)
      BY <1>4, <1>8, <1>19, <3>1 DEF Serving
    <3> HIDE DEF s
    <3> QED
      BY <1>3, <1>6, <1>9, <1>10, <2>1, <3>2
  <2>2. CASE d # c
    <3>1. client'[d] = client[d] /\ client[d].sid \in Session /\ client[d].sid <= opened
      BY <1>9, <2>2, SidsAre
    <3>2. client[d].sid # s
      BY <1>11, <3>1
    <3>3. conn'[client[d].sid] = conn[client[d].sid] /\ sess'[client[d].sid] = sess[client[d].sid]
      BY <1>10, <3>1, <3>2
    <3>4. ServingOf(client[d].sid, client[d])
      BY <3>1, <3>3 DEF DeliveryInv, Streaming, Busy
    <3> QED
      BY <1>3, <3>1, <3>3, <3>4 DEF ServingOf
  <2> QED
    BY <2>1, <2>2
<1> QED
  BY <1>13, <1>14, <1>15, <1>16, <1>17, <1>21 DEF DeliveryInv

-----------------------------------------------------------------------------
(* The clients. *)

(* A step of the client that reads no results. *)
LEMMA QuietClient ==
  ASSUME DeliveryInv, NEW s \in Session, NEW cl, ServingOf(s, cl),
         NEW x, x.gwOpen = conn[s].gwOpen, SameLine(conn[s], x),
         NEW w, w.rows = cl.rows, w.open = cl.open, w.eofs = cl.eofs
  PROVE  Serving(s, sess[s], HandFor(s), left[s], produced[s], final, x, w)
<1>1. CASE conn[s].gwOpen
  <2>1. Delivering(s, sess[s], HandFor(s), left[s], produced[s], final, conn[s], cl)
    BY <1>1 DEF ServingOf, Serving
  <2>2. sess[s].out # "done"
    BY <2>1 DEF Delivering
  <2>3. Delivering(s, sess[s], HandFor(s), left[s], produced[s], final, x, w)
    BY <2>1, <2>2, SameDelivering
  <2> QED
    BY <1>1, <2>3 DEF Serving
<1>2. CASE ~conn[s].gwOpen
  <2>1. Ending(conn[s], cl)
    BY <1>2 DEF ServingOf, Serving
  <2>2. Ending(x, w)
    BY <2>1, SameEnding DEF SameLine
  <2> QED
    BY <1>2, <2>2 DEF Serving
<1> QED
  BY <1>1, <1>2

(* A client takes an answer that is no batch. *)
LEMMA AnswerTaken ==
  ASSUME DeliveryInv, NEW c \in Client, client[c].phase # "idle",
         NEW m \in {"connectAck", "ingestAck"}, HasReply(c, m)
  PROVE  \E x \in Connection :
           /\ TakeReply(client[c].sid) = [conn EXCEPT ![client[c].sid] = x]
           /\ x.clOpen = conn[client[c].sid].clOpen /\ x.gwOpen = conn[client[c].sid].gwOpen
           /\ SameLine(conn[client[c].sid], x)
<1> DEFINE s == client[c].sid
<1>1. s \in Session
  BY SidsAre
<1>2. conn[s].toClient # <<>> /\ Head(conn[s].toClient).type = m
  BY DEF HasReply
<1>3. conn[s] \in Connection
  BY <1>1, SessionIs
<1> HIDE DEF s
<1>4. PICK x \in Connection :
              /\ conn[s].toClient # <<>> => TakeReply(s) = [conn EXCEPT ![s] = x]
              /\ conn[s].toClient # <<>> => x.toClient = Tail(conn[s].toClient)
              /\ x.clOpen = conn[s].clOpen /\ x.gwOpen = conn[s].gwOpen /\ x.toGateway = conn[s].toGateway
  BY <1>1, ClosesIs
<1>5. conn[s].toClient \in Seq(Batches \cup Replies)
  BY <1>3 DEF Connection
<1>6. Head(conn[s].toClient) \notin Batches
  BY <1>2, MessagesAre
<1>7. Of(Tail(conn[s].toClient), Batches) = Of(conn[s].toClient, Batches)
  BY <1>2, <1>5, <1>6, OfTail
<1>8. Once(conn[s].toClient, Batches) => Once(Tail(conn[s].toClient), Batches)
  BY <1>2, <1>5, OfTail
<1>9. SameLine(conn[s], x)
  BY <1>2, <1>4, <1>7, <1>8 DEF SameLine
<1> QED
  BY <1>2, <1>4, <1>9 DEF s

(* The client reads connectAck or ingestAck. *)
LEMMA ConnectedDelivers ==
  ASSUME DeliveryInv, NEW c \in Client, Connected(c) \/ IngestAcked(c)
  PROVE  DeliveryInv'
<1> DEFINE s == client[c].sid
           ph == IF client[c].phase = "connect" \/ client[c].sent < Messages THEN "send" ELSE "results"
           w == [client[c] EXCEPT !.phase = ph]
<1>1. /\ client[c].phase \in {"connect", "wait"} /\ conn' = TakeReply(s)
      /\ \E m \in {"connectAck", "ingestAck"} : HasReply(c, m)
      /\ UNCHANGED <<sess, gw, left, produced, final, opened, faults>>
  BY DEF Connected, IngestAcked, pipeline
<1>2. client[c] \in ClientState /\ client \in [Client -> ClientState] /\ s \in Session
  BY <1>1, SidsAre DEF DeliveryInv, Typed
<1>3. client' = [client EXCEPT ![c] = w]
  BY <1>2 DEF Connected, IngestAcked
<1>4. PICK x \in Connection :
           /\ TakeReply(s) = [conn EXCEPT ![s] = x]
           /\ x.clOpen = conn[s].clOpen /\ x.gwOpen = conn[s].gwOpen /\ SameLine(conn[s], x)
  BY <1>1, AnswerTaken
<1>5. client[c].phase = "connect" => client[c].sent < Messages
  BY DEF DeliveryInv, Phases
<1>6. ph = "results" \/ (ph = "send" /\ client[c].sent < Messages)
  BY <1>5
<1> HIDE DEF ph
<1>7. /\ w \in ClientState /\ w.phase = ph /\ w.sid = s /\ w.sent = client[c].sent
      /\ w.rows = client[c].rows /\ w.open = client[c].open /\ w.eofs = client[c].eofs
  BY <1>2, <1>6 DEF ClientState
<1> HIDE DEF w
<1>8. ServingOf(s, client[c]) => Serving(s, sess[s], HandFor(s), left[s], produced[s], final, x, w)
  BY <1>2, <1>4, <1>7, QuietClient
<1>9. /\ client[c].sid = s /\ client[c].phase # "idle" /\ client[c].phase # "done"
      /\ conn' = [conn EXCEPT ![s] = x]
      /\ UNCHANGED <<sess, gw, left, produced, final, opened, faults>>
  BY <1>1, <1>4
<1>10. /\ w.phase # "idle" /\ w.phase # "done" /\ w.sid = s
       /\ w.phase \in {"connect", "send"} => w.sent < Messages
  BY <1>6, <1>7
<1> HIDE DEF s
<1> QED
  BY <1>2, <1>3, <1>4, <1>7, <1>8, <1>9, <1>10, ClientMoves

(* The client sends a message. *)
LEMMA SendDelivers ==
  ASSUME DeliveryInv, NEW c \in Client, SendMessage(c)
  PROVE  DeliveryInv'
<1> DEFINE s == client[c].sid
           w == [client[c] EXCEPT !.phase = "wait", !.sent = client[c].sent + 1]
           q == IF conn[s].gwOpen THEN Append(conn[s].toGateway, "data") ELSE conn[s].toGateway
           x == [conn[s] EXCEPT !.toGateway = q]
<1>1. client[c].phase = "send" /\ UNCHANGED <<sess, gw, left, produced, final, opened, faults>>
  BY DEF SendMessage, pipeline
<1>2. /\ client[c] \in ClientState /\ client \in [Client -> ClientState] /\ s \in Session
      /\ conn \in [Session -> Connection] /\ conn[s] \in Connection
  BY <1>1, SidsAre DEF DeliveryInv, Typed
<1>3. client' = [client EXCEPT ![c] = w]
  BY <1>2 DEF SendMessage
<1>4. conn' = [conn EXCEPT ![s] = x]
  BY <1>2 DEF SendMessage
<1>5. client[c].sent + 1 \in 0 .. Messages
  <2>1. client[c].sent < Messages /\ client[c].sent \in 0 .. Messages /\ Messages \in Nat
    BY <1>1, <1>2, ConstantsAssumption DEF DeliveryInv, Phases, ClientState, ConstantsAssumption
  <2> QED
    BY <2>1
<1>6. /\ w \in ClientState /\ w.phase = "wait" /\ w.sid = s
      /\ w.rows = client[c].rows /\ w.open = client[c].open /\ w.eofs = client[c].eofs
  BY <1>2, <1>5 DEF ClientState
<1>7. conn[s].toGateway \in Seq(ConnectionMessages) /\ "data" \in ConnectionMessages /\ "data" \notin Acks
  BY <1>2 DEF Connection, ConnectionMessages, Acks
<1> HIDE DEF w, s
<1>8. /\ q \in Seq(ConnectionMessages)
      /\ Of(q, Acks) = Of(conn[s].toGateway, Acks) /\ (Once(conn[s].toGateway, Acks) => Once(q, Acks))
  <2>1. Append(conn[s].toGateway, "data") \in Seq(ConnectionMessages)
    BY <1>7, AppendProperties
  <2>2. Of(Append(conn[s].toGateway, "data"), Acks) = Of(conn[s].toGateway, Acks)
    BY <1>7, OfAppend
  <2>3. Once(conn[s].toGateway, Acks) => Once(Append(conn[s].toGateway, "data"), Acks)
    BY <1>7, OfAppend
  <2> QED
    BY <1>7, <2>1, <2>2, <2>3
<1> HIDE DEF q
<1>9. /\ x \in Connection /\ x.clOpen = conn[s].clOpen /\ x.gwOpen = conn[s].gwOpen
      /\ x.toClient = conn[s].toClient /\ x.toGateway = q
  BY <1>2, <1>8 DEF Connection, ConnectionMessages
<1> HIDE DEF x
<1>10. SameLine(conn[s], x)
  BY <1>8, <1>9 DEF SameLine
<1>11. ServingOf(s, client[c]) => Serving(s, sess[s], HandFor(s), left[s], produced[s], final, x, w)
  BY <1>2, <1>6, <1>9, <1>10, QuietClient
<1>12. client[c].sid = s
  BY DEF s
<1> QED
  BY <1>1, <1>2, <1>3, <1>4, <1>6, <1>9, <1>11, <1>12, ClientMoves

(* LoseSession: the client removes its files, and is as in the beginning. *)
LEMMA LoseDelivers ==
  ASSUME DeliveryInv, NEW c \in Client, LoseSession(c)
  PROVE  DeliveryInv'
<1> DEFINE s == client[c].sid
<1>1. /\ client[c].phase \notin {"idle", "done"} /\ client' = [client EXCEPT ![c] = NoClient]
      /\ conn' = ClientCloses(s)
      /\ UNCHANGED <<sess, gw, left, produced, final, opened, faults>>
  BY DEF LoseSession, pipeline
<1>2. s \in Session
  BY <1>1, SidsAre
<1>3. PICK x \in Connection :
              /\ ClientCloses(s) = [conn EXCEPT ![s] = x]
              /\ x.clOpen = FALSE /\ x.gwOpen = conn[s].gwOpen /\ x.toGateway = conn[s].toGateway
  BY <1>2, ClosesIs
<1>4. NoClient \in ClientState /\ NoClient.phase = "idle"
  <2>1. 0 \in 0 .. Messages
    BY ConstantsAssumption DEF ConstantsAssumption
  <2> QED
    BY <2>1 DEF NoClient, ClientState
<1>5. client[c].sid = s /\ client[c].phase # "idle" /\ conn' = [conn EXCEPT ![s] = x]
  BY <1>1, <1>3
<1> HIDE DEF s
<1> QED
  BY <1>1, <1>2, <1>3, <1>4, <1>5, ClientMoves

(* Whatever the gateway does, the files of a client end at some place. *)
LEMMA ServingHas ==
  ASSUME NEW s, NEW r \in SessionState, NEW h, NEW l, NEW n, NEW f, NEW x, NEW cl, Serving(s, r, h, l, n, f, x, cl)
  PROVE  \E p \in Points : Has(cl, p)
<1>1. CASE x.gwOpen
  <2>1. PICK m \in 0 .. Len(Results), a \in Points :
         Line(r, h, l, m, a) /\ (Sent(r, x, cl, a) \/ Read(r, x, cl, a))
    BY <1>1 DEF Serving, Delivering
  <2>2. Pending(r, a) \in Points
    BY Places DEF Pending, SessionState
  <2> QED
    BY <2>1, <2>2 DEF Sent, Read
<1>2. CASE ~x.gwOpen
  BY <1>2 DEF Serving, Ending
<1> QED
  BY <1>1, <1>2

(* The client that reads a batch: y is the connection when the batch is      *)
(* taken and acknowledged.                                                   *)
LEMMA ReceiveServes ==
  ASSUME DeliveryInv, NEW s \in Session, NEW cl \in ClientState, ServingOf(s, cl),
         conn[s].toClient # <<>>, Head(conn[s].toClient).type = "results",
         NEW y, y.gwOpen = conn[s].gwOpen, y.toClient = Tail(conn[s].toClient),
         conn[s].gwOpen => y.toGateway = Append(conn[s].toGateway, "resultAck")
  PROVE  Serving(s, sess[s], HandFor(s), left[s], produced[s], final, y, Received(cl, Head(conn[s].toClient).items))
<1>1. sess[s] \in SessionState /\ conn[s] \in Connection
  BY SessionIs
<1>2. CASE conn[s].gwOpen
  <2>1. Delivering(s, sess[s], HandFor(s), left[s], produced[s], final, conn[s], cl)
    BY <1>2 DEF ServingOf, Serving
  <2>2. Delivering(s, sess[s], HandFor(s), left[s], produced[s], final, y, Received(cl, Head(conn[s].toClient).items))
    BY <1>1, <1>2, <2>1, ReceiveReads
  <2> QED
    BY <1>2, <2>2 DEF Serving
<1>3. CASE ~conn[s].gwOpen
  <2>1. Ending(conn[s], cl)
    BY <1>3 DEF ServingOf, Serving
  <2>2. Ending(y, Received(cl, Head(conn[s].toClient).items))
    BY <1>1, <2>1, ReceiveEnding
  <2> QED
    BY <1>3, <2>2 DEF Serving
<1> QED
  BY <1>2, <1>3

(* There are finitely many queries. *)
LEMMA QueriesFinite == IsFiniteSet(Query)
<1> DEFINE B(k) == {k} \X (1 .. Len(Results[k]))
           T == {B(k) : k \in SeqID}
           g == [k \in SeqID |-> B(k)]
           e == [d \in Items |-> Item(d).query]
<1>1. IsFiniteSet(T)
  <2>1. g \in Surjection(SeqID, T)
    BY DEF Surjection
  <2>2. IsFiniteSet(SeqID)
    BY ResultsAre
  <2> HIDE DEF g, T
  <2> QED
    BY <2>1, <2>2, FS_Surjection
<1>2. ASSUME NEW b \in T PROVE IsFiniteSet(b)
  <2>1. PICK k \in SeqID : b = B(k)
    OBVIOUS
  <2>2. IsFiniteSet({k}) /\ IsFiniteSet(1 .. Len(Results[k]))
    <3>1. Len(Results[k]) \in Int /\ 1 \in Int
      BY ResultsAre
    <3> QED
      BY <3>1, FS_Singleton, FS_Interval
  <2> QED
    BY <2>1, <2>2, FS_Product
<1>3. Items = UNION T
  BY DEF Items
<1> HIDE DEF T
<1>4. IsFiniteSet(Items)
  BY <1>1, <1>2, <1>3, FS_UNION
<1>5. e \in Surjection(Items, Query)
  <2>1. \A d \in Items : Item(d).query \in Query
    BY ItemsAre
  <2>2. ASSUME NEW q \in Query PROVE \E d \in Items : Item(d).query = q
    <3>1. PICK k \in SeqID : \E item \in ToSet(Results[k]) : item.query = q
      BY DEF Query
    <3>2. Results[k] \in Seq([query : Nat, eof : BOOLEAN])
      BY ResultsAre
    <3>3. DOMAIN Results[k] = 1 .. Len(Results[k])
      BY <3>2
    <3>4. PICK j \in 1 .. Len(Results[k]) : Results[k][j].query = q
      BY <3>1, <3>3 DEF ToSet
    <3>5. <<k, j>> \in Items /\ Item(<<k, j>>).query = q
      BY <3>4, ItemsAre DEF Item
    <3> QED
      BY <3>5
  <2> QED
    BY <2>1, <2>2 DEF Surjection
<1> HIDE DEF e
<1> QED
  BY <1>4, <1>5, FS_Surjection

(* As many ends as there are queries are the ends of all queries. *)
LEMMA AllEnds ==
  ASSUME NEW cl \in ClientState, Cardinality(cl.eofs) >= ExpectedQueryEOFs
  PROVE  Query \subseteq cl.eofs
<1>1. cl.eofs \subseteq Query /\ IsFiniteSet(Query)
  BY QueriesFinite DEF ClientState
<1>2. IsFiniteSet(cl.eofs) /\ Cardinality(cl.eofs) <= Cardinality(Query)
      /\ (Cardinality(cl.eofs) = Cardinality(Query) => cl.eofs = Query)
  BY <1>1, FS_Subset
<1>3. Cardinality(cl.eofs) \in Nat /\ Cardinality(Query) \in Nat
  BY <1>1, <1>2, FS_CardinalityType
<1> QED
  BY <1>2, <1>3 DEF ExpectedQueryEOFs

(* ReceiveResults: the client writes the batch, acknowledges it, and is done *)
(* with the last query.                                                      *)
LEMMA ReceiveDelivers ==
  ASSUME DeliveryInv, NEW c \in Client, ReceiveResults(c)
  PROVE  DeliveryInv'
<1> DEFINE s == client[c].sid
           items == Head(conn[s].toClient).items
           cl == Received(client[c], items)
           done == Cardinality(cl.eofs) >= ExpectedQueryEOFs
           w == IF done THEN [cl EXCEPT !.phase = "done"] ELSE cl
           q == IF conn[s].gwOpen THEN Append(conn[s].toGateway, "resultAck") ELSE conn[s].toGateway
           y == [conn[s] EXCEPT !.toGateway = q, !.toClient = Tail(conn[s].toClient)]
           z == [conn[s] EXCEPT !.toGateway = q, !.toClient = <<>>, !.clOpen = FALSE]
           x == IF done THEN z ELSE y
<1>1. /\ client[c].phase \in {"send", "wait", "results"} /\ HasReply(c, "results")
      /\ UNCHANGED <<sess, gw, left, produced, final, opened, faults>>
  BY DEF ReceiveResults, pipeline
<1>2. /\ client[c] \in ClientState /\ client \in [Client -> ClientState] /\ s \in Session
      /\ conn \in [Session -> Connection] /\ conn[s] \in Connection
  BY <1>1, SidsAre DEF DeliveryInv, Typed
<1>3. conn[s].clOpen /\ conn[s].toClient # <<>> /\ Head(conn[s].toClient).type = "results"
  BY <1>1 DEF HasReply
<1>4. client' = [client EXCEPT ![c] = w]
  BY DEF ReceiveResults, Received
<1>5. conn' = [IF done THEN ClientCloses(s) ELSE TakeReply(s)
                 EXCEPT ![s].toGateway = IF conn[s].gwOpen THEN Append(@, "resultAck") ELSE @]
  BY DEF ReceiveResults, Received
<1>6. items \in Seq(Items)
  BY <1>2, <1>3, HeadOfBatches
<1>7. cl \in ClientState /\ cl.phase = client[c].phase /\ cl.sid = client[c].sid /\ cl.sent = client[c].sent
  BY <1>2, <1>6, ReceivedType
<1> HIDE DEF cl
<1>8. conn' = [conn EXCEPT ![s] = x]
  <2>1. CASE done
    <3>1. conn' = [ClientCloses(s) EXCEPT ![s].toGateway = IF conn[s].gwOpen THEN Append(@, "resultAck") ELSE @]
      BY <1>5, <2>1
    <3>2. x = z
      BY <2>1
    <3> HIDE DEF done, s, x
    <3> QED
      BY <1>2, <3>1, <3>2 DEF ClientCloses, Connection
  <2>2. CASE ~done
    <3>1. conn' = [TakeReply(s) EXCEPT ![s].toGateway = IF conn[s].gwOpen THEN Append(@, "resultAck") ELSE @]
      BY <1>5, <2>2
    <3>2. x = y
      BY <2>2
    <3> HIDE DEF done, s, x
    <3> QED
      BY <1>2, <3>1, <3>2 DEF TakeReply, Connection
  <2> QED
    BY <2>1, <2>2
<1>9. q \in Seq(ConnectionMessages) /\ Tail(conn[s].toClient) \in Seq(Batches \cup Replies)
  <2>1. conn[s].toGateway \in Seq(ConnectionMessages) /\ conn[s].toClient \in Seq(Batches \cup Replies)
    BY <1>2 DEF Connection, ConnectionMessages
  <2>2. "resultAck" \in ConnectionMessages
    BY DEF ConnectionMessages
  <2> HIDE DEF s
  <2>3. Append(conn[s].toGateway, "resultAck") \in Seq(ConnectionMessages)
    BY <2>1, <2>2, AppendProperties
  <2>4. Tail(conn[s].toClient) \in Seq(Batches \cup Replies)
    BY <1>3, <2>1, HeadTailProperties
  <2> QED
    BY <2>1, <2>3, <2>4
<1>10. /\ y \in Connection /\ y.clOpen = conn[s].clOpen /\ y.gwOpen = conn[s].gwOpen
       /\ y.toGateway = q /\ y.toClient = Tail(conn[s].toClient)
       /\ z \in Connection /\ z.clOpen = FALSE /\ z.gwOpen = conn[s].gwOpen
  <2> HIDE DEF s, q
  <2>1. q \in Seq({"connect", "data", "resultAck"}) /\ <<>> \in Seq(Batches \cup Replies)
    BY <1>9 DEF ConnectionMessages
  <2> DEFINE t == Tail(conn[s].toClient)
  <2>2. t \in Seq(Batches \cup Replies)
    BY <1>9
  <2> HIDE DEF t
  <2>3. conn[s] \in Connection
    BY <1>2
  <2>4. [conn[s] EXCEPT !.toGateway = q, !.toClient = t] \in Connection
    BY <2>1, <2>2, <2>3 DEF Connection
  <2>5. [conn[s] EXCEPT !.toGateway = q, !.toClient = <<>>, !.clOpen = FALSE] \in Connection
    BY <2>1, <2>3 DEF Connection
  <2>6. /\ y.clOpen = conn[s].clOpen /\ y.gwOpen = conn[s].gwOpen /\ y.toGateway = q
        /\ y.toClient = Tail(conn[s].toClient)
    BY <2>3 DEF Connection
  <2>7. z.clOpen = FALSE /\ z.gwOpen = conn[s].gwOpen
    BY <2>3 DEF Connection
  <2> QED
    BY <2>4, <2>5, <2>6, <2>7 DEF t
<1>11. ServingOf(s, client[c])
  <2>1. Busy(c)
    BY <1>1 DEF Busy
  <2> QED
    BY <1>3, <2>1 DEF DeliveryInv, Streaming
<1> HIDE DEF y, z
<1>12. Serving(s, sess[s], HandFor(s), left[s], produced[s], final, y, cl)
  <2> HIDE DEF s
  <2> QED
    BY <1>2, <1>3, <1>10, <1>11, ReceiveServes DEF cl
<1>13. client[c].sid = s /\ client[c].phase # "idle" /\ client[c].phase # "done"
  BY <1>1
<1> HIDE DEF s
<1>14. CASE done
  <2>1. PICK p \in Points : Has(cl, p)
    BY <1>2, <1>12, ServingHas, SessionIs
  <2>2. Query \subseteq cl.eofs
    BY <1>7, <1>14, AllEnds
  <2>3. Exact(cl)
    BY <1>7, <2>1, <2>2, AllEndsAllRows
  <2>4. /\ w \in ClientState /\ w.phase = "done" /\ w.sid = s /\ w.rows = cl.rows
    BY <1>7, <1>13, <1>14 DEF ClientState
  <2>5. x \in Connection /\ x.clOpen = FALSE /\ x.gwOpen = conn[s].gwOpen
    BY <1>10, <1>14
  <2> HIDE DEF w, x
  <2>6. Exact(w)
    BY <2>3, <2>4 DEF Exact
  <2> QED
    BY <1>1, <1>2, <1>4, <1>8, <1>13, <2>4, <2>5, <2>6, ClientMoves
<1>15. CASE ~done
  <2>1. w = cl /\ x = y
    BY <1>15
  <2>2. /\ cl.phase # "idle" /\ cl.phase # "done" /\ cl.sid = s
        /\ cl.phase \in {"connect", "send"} => cl.sent < Messages
    BY <1>7, <1>13 DEF DeliveryInv, Phases
  <2>3. client' = [client EXCEPT ![c] = cl] /\ conn' = [conn EXCEPT ![s] = y]
    BY <1>4, <1>8, <2>1
  <2> HIDE DEF w, x
  <2> QED
    BY <1>1, <1>2, <1>7, <1>10, <1>12, <1>13, <2>2, <2>3, ClientMoves
<1> QED
  BY <1>14, <1>15

-----------------------------------------------------------------------------
(* All of it. *)

(* Every step keeps the invariant. *)
LEMMA NextDelivers == DeliveryInv /\ IndInv /\ [Next]_vars => DeliveryInv'
<1> SUFFICES ASSUME DeliveryInv, IndInv, [Next]_vars PROVE DeliveryInv'
  OBVIOUS
<1>1. ASSUME NEW c \in Client, Accept(c) \/ ClientStep(c) PROVE DeliveryInv'
  BY <1>1, AcceptDelivers, ConnectedDelivers, SendDelivers, ReceiveDelivers, LoseDelivers DEF ClientStep
<1>2. ASSUME NEW s \in Session, Reader(s) PROVE DeliveryInv'
  BY <1>2, ReaderDelivers
<1>3. ASSUME NEW s \in Session, Output(s) PROVE DeliveryInv'
  BY <1>3, DequeueDelivers, FlushDelivers, OutputFailsDelivers, AckedFirstDelivers, AckedDelivers, DequeueFailsDelivers
     DEF Output
<1>4. ASSUME NEW s \in Session, Produce(s) \/ Break(s) PROVE DeliveryInv'
  BY <1>4, ProduceDelivers, BreakDelivers
<1>5. ASSUME NEW s \in Session, NEW k \in SeqID, Repeat(s, k) PROVE DeliveryInv'
  BY <1>5, RepeatDelivers
<1>6. CASE Consume
  BY <1>6, ForwardDelivers, EnqueueDelivers, EnqueueFailsDelivers DEF Consume
<1>7. CASE Revive \/ GatewayCrash
  BY <1>7, ReviveDelivers, CrashDelivers
<1>8. CASE UNCHANGED vars
  <2>1. gw' \in GatewayState /\ gw'.registry = gw.registry /\ gw'.hand = gw.hand /\ gw'.toAbort \subseteq gw'.clients
    BY <1>8, GatewayIs DEF vars
  <2>2. UNCHANGED <<client, conn, sess, left, produced, final, opened, faults>>
    BY <1>8 DEF vars, pipeline
  <2> QED
    BY <2>1, <2>2, GatewayMoves
<1> QED
  BY <1>1, <1>2, <1>3, <1>4, <1>5, <1>6, <1>7, <1>8 DEF Next

(* The two inductive invariants together. *)
LEMMA DeliveryInvariant == Spec => [](DeliveryInv /\ IndInv)
<1>1. Init => DeliveryInv /\ IndInv
  BY InitDelivery, InitInd
<1>2. DeliveryInv /\ IndInv /\ [Next]_vars => (DeliveryInv /\ IndInv)'
  BY NextDelivers, NextInd
<1> QED
  BY <1>1, <1>2, PTL DEF Spec

(* The invariant has the type invariant. *)
LEMMA DeliveryTypes ==
  ASSUME DeliveryInv, IndInv
  PROVE  TypeOK
<1>1. client \in [Client -> [phase : {"idle", "connect", "send", "wait", "results", "done"},
                            sid : Session \cup {0}, sent : 0 .. Messages,
                            rows : [Query -> Seq(SeqID \X Nat)],
                            open : SUBSET Query, eofs : SUBSET Query]]
  <2>1. Items \subseteq SeqID \X Nat
    <3> SUFFICES ASSUME NEW d \in Items PROVE d \in SeqID \X Nat
      OBVIOUS
    <3>1. d[1] \in SeqID /\ d[2] \in 1 .. Len(Results[d[1]]) /\ d = <<d[1], d[2]>>
      BY ItemsAre
    <3> QED
      BY <3>1
  <2>2. Seq(Items) \subseteq Seq(SeqID \X Nat)
    <3> DEFINE T == SeqID \X Nat
    <3> HIDE DEF T
    <3>1. ASSUME NEW S, NEW U, S \subseteq U, NEW q \in Seq(S) PROVE q \in Seq(U)
      BY <3>1
    <3>2. Items \subseteq T
      BY <2>1 DEF T
    <3>3. Seq(Items) \subseteq Seq(T)
      BY <3>1, <3>2
    <3> QED
      BY <3>3 DEF T
  <2>3. client \in [Client -> ClientState]
    BY DEF DeliveryInv, Typed
  <2>4. [Query -> Seq(Items)] \subseteq [Query -> Seq(SeqID \X Nat)]
    BY <2>2
  <2> QED
    BY <2>3, <2>4 DEF ClientState
<1>2. ASSUME NEW s \in Session
      PROVE  /\ sess[s].reader \in {"none", "handshake", "register", "read", "cleanup", "unregister",
                                    "remove", "closed"}
             /\ sess[s].out \in {"off", "dequeue", "flush", "wait", "done"}
             /\ Len(sess[s].queue) <= QueueSize /\ Len(sess[s].pending) <= BatchLimit
             /\ Dedup!Canonical(sess[s].seen)
             /\ sess[s].out = "flush" => sess[s].pending # <<>>
  BY SessionIs DEF SessionState, OutputOK
<1>3. gw.registry \subseteq 1 .. opened /\ gw.toAbort \subseteq gw.clients /\ file \subseteq 1 .. opened
  BY GatewayIs DEF IndInv, Numbered
<1>4. ASSUME NEW s \in Session, NEW k \in SeqID PROVE left[s][k] \in 0 .. Len(Results[k])
  <2>1. left[s][k] \in Nat /\ left[s][k] <= Len(Results[k]) /\ Len(Results[k]) \in Nat
    BY SessionIs, ResultsAre
  <2> QED
    BY <2>1
<1>5. opened \in 0 .. MaxSessions /\ faults \in 0 .. MaxFaults + 1
  BY DEF DeliveryInv, Typed
<1> QED
  BY <1>1, <1>2, <1>3, <1>4, <1>5 DEF TypeOK

(* What comes before the place that a client has come to is in its files. *)
LEMMA HasItem ==
  ASSUME NEW cl, NEW p \in Points, Has(cl, p), NEW k \in SeqID, NEW j \in 1 .. Len(Results[k]), Before(<<k, j>>, p)
  PROVE  IF IsEOF(<<k, j>>) THEN Results[k][j].query \in cl.eofs
         ELSE <<k, j>> \in ToSet(cl.rows[Results[k][j].query])
<1> DEFINE q == Results[k][j].query
<1>1. <<k, j>> \in Items /\ q \in Query /\ Item(<<k, j>>).query = q
  BY ItemsAre, ResultsAre DEF Item
<1>2. HasRows(cl, q, p) /\ (q \in cl.eofs <=> HasEnd(q, p))
  BY <1>1 DEF Has
<1>3. CASE IsEOF(<<k, j>>)
  BY <1>1, <1>2, <1>3 DEF HasEnd
<1>4. CASE ~IsEOF(<<k, j>>)
  <2>1. <<k, j>> \in {d \in RowsOf(q) : Before(d, p)}
    BY <1>1, <1>4 DEF RowsOf
  <2> QED
    BY <1>2, <1>4, <2>1 DEF HasRows
<1> QED
  BY <1>3, <1>4

(* A batch that was taken, and of which nothing is left, is before the place *)
(* that the client has come to.                                              *)
LEMMA DeliveryAcks ==
  ASSUME DeliveryInv
  PROVE  AckedIsDelivered
<1> SUFFICES ASSUME NEW c \in Client, Live(c), NEW k \in 1 .. produced[client[c].sid],
                    <<client[c].sid, k>> \notin ToSet(final) \cup Unacked,
                    NEW j \in 1 .. Len(Results[k])
             PROVE  IF IsEOF(<<k, j>>) THEN Results[k][j].query \in client[c].eofs
                    ELSE <<k, j>> \in ToSet(client[c].rows[Results[k][j].query])
  BY DEF AckedIsDelivered
<1> DEFINE s == client[c].sid
           r == sess[s]
<1>1. s \in Session /\ conn[s].clOpen /\ conn[s].gwOpen /\ Busy(c)
  BY SidsAre DEF Live, Busy
<1>2. Delivering(s, r, HandFor(s), left[s], produced[s], final, conn[s], client[c])
  BY <1>1 DEF DeliveryInv, Streaming, ServingOf, Serving
<1>3. PICK m \in 0 .. Len(Results), a \in Points :
        /\ Line(r, HandFor(s), left[s], m, a) /\ Ordered(s, final, produced[s], m)
        /\ Sent(r, conn[s], client[c], a) \/ Read(r, conn[s], client[c], a)
  BY <1>2, Zenon DEF Delivering
<1>4. k \in SeqID /\ k \in Nat /\ m \in Nat /\ produced[s] \in Nat /\ left[s][k] \in Nat
  <2>1. produced[s] \in 0 .. Len(Results) /\ Len(Results) \in Nat
    BY <1>1, SessionIs, ResultsAre
  <2>2. k \in SeqID
    BY <2>1, ResultsAre
  <2> QED
    BY <1>1, <2>1, <2>2, SessionIs
<1>5. k <= m
  <2> SUFFICES ASSUME ~(k <= m) PROVE FALSE
    OBVIOUS
  <2>1. k \in m + 1 .. produced[s]
    BY <1>4
  <2> QED
    BY <1>3, <2>1 DEF Ordered
<1>6. left[s][k] = 0
  BY <1>1, <1>4 DEF Unacked
<1>7. Rest(k, a) = {}
  <2>1. 0 >= Cardinality(Rest(k, a))
    BY <1>3, <1>4, <1>5, <1>6 DEF Line
  <2>2. IsFiniteSet(Rest(k, a))
    <3>1. Len(Results[k]) \in Int /\ 1 \in Int
      BY <1>4, ResultsAre
    <3>2. IsFiniteSet(1 .. Len(Results[k]))
      BY <3>1, FS_Interval
    <3>3. Rest(k, a) \subseteq 1 .. Len(Results[k])
      BY DEF Rest
    <3> QED
      BY <3>2, <3>3, FS_Subset
  <2>3. Cardinality(Rest(k, a)) \in Nat
    BY <2>2, FS_CardinalityType
  <2> QED
    BY <2>1, <2>2, <2>3, FS_EmptySet
<1>8. Before(<<k, j>>, a) /\ <<k, j>> \in Items
  BY <1>4, <1>7, ItemsAre DEF Rest
<1>9. r.pending \in Seq(Items)
  BY <1>1, SessionIs DEF SessionState
<1>10. \E p \in Points : Has(client[c], p) /\ Before(<<k, j>>, p)
  <2>1. CASE Sent(r, conn[s], client[c], a)
    BY <1>8, <2>1 DEF Sent
  <2>2. CASE Read(r, conn[s], client[c], a)
    <3>1. Has(client[c], Pending(r, a))
      BY <2>2 DEF Read
    <3>2. End(r.pending, a) \in Points
      BY <1>9, Places
    <3>3. Runs(r.pending, a)
      BY <1>3 DEF Line
    <3> HIDE DEF r
    <3>4. Before(<<k, j>>, End(r.pending, a))
      BY <1>8, <1>9, <3>3, RunsRise
    <3> QED
      BY <3>1, <3>2, <3>4 DEF Pending
  <2> QED
    BY <1>3, <2>1, <2>2
<1> QED
  BY <1>4, <1>10, HasItem

(* Phases says it of each client that is done. *)
LEMMA DeliveryResults ==
  ASSUME DeliveryInv
  PROVE  ResultsAreExact
  BY DEF DeliveryInv, Phases, Exact, ResultsAreExact

(* The state of the clients, of the sessions and of the gateway keeps its    *)
(* shape: the result queue and the batch builder stay within their bounds,   *)
(* the SeqIDs that state.seen has stay a canonical interval set, and no      *)
(* delivery counts more items than it has.                                   *)
THEOREM TypeCorrect == Spec => []TypeOK
  BY DeliveryInvariant, DeliveryTypes, PTL

(* As long as a session lives, a batch that has left the broker, all of its  *)
(* items acknowledged, is in the files of its client (forwardFinalMessage,   *)
(* AckItems, WaitForResultBatchAck): whatever is cut off is still there to   *)
(* be delivered again.                                                       *)
THEOREM AckedDelivered == Spec => []AckedIsDelivered
  BY DeliveryInvariant, DeliveryAcks, PTL

(* A client that finishes has each row of each query once and in order,      *)
(* whatever final_joiner repeats, the broker delivers again, and the gateway *)
(* or the network breaks off (state.seen, cleanupPartialResults).            *)
THEOREM ExactResults == Spec => []ResultsAreExact
  BY DeliveryInvariant, DeliveryResults, PTL
=============================================================================
