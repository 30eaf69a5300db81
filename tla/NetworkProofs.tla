---------------------------- MODULE NetworkProofs -----------------------------
(*****************************************************************************)
(* Theorems about the network of an attempt: its compose unit (module        *)
(* ComposeStack) and a connection through the gate (module EgressTunnel).    *)
(*****************************************************************************)
EXTENDS ComposeStack, EgressTunnel, TLAPS

-------------------------------------------------------------------------------
(*****************************************************************************)
(* ComposeStack, for every number of vendors, attempts, operations and       *)
(* ports.                                                                    *)
(*****************************************************************************)

States == {"none", "created", "published", "ready", "dead"}

\* What TypeOK leaves out: ports are given out once, in ascending order.
Types ==
  /\ container \in [Vendors -> States]
  /\ issued \in Nat
  /\ port \in [Vendors -> 0..issued]
  /\ dataPorts \in [Vendors -> Nat]
  /\ answered \subseteq Vendors

\* Docker cannot make what the unit knows of v wrong: it has been published, or
\* it will never be, and its address, if it has one, is the one on record.
Settled(v) == container[v] # "created" /\ (Published(v) => dataPorts[v] = port[v])

\* What an operation has established by the step it has come to.
Progress ==
  /\ pc # "idle" => tries < MaxTries /\ outcome = "none"
  /\ pc = "compose" => at = 1
  /\ pc = "discover" => \A v \in Vendors : v < at => Settled(v)
  /\ pc \in {"refresh", "check", "poll"} => \A v \in Vendors : Settled(v)
  /\ pc = "check" => \A v \in Vendors : v < at => v \in answered
  /\ pc \in {"refresh", "check"} => op = Up
  /\ pc = "poll" => op # Up /\ at = op

\* What is left of it once it has succeeded, or an attempt failed.
Result ==
  /\ outcome = "ok" =>
       /\ \A v \in Vendors : Settled(v)
       /\ IF op = Up THEN answered = Vendors ELSE op \in answered
  /\ honest

StackInv == TypeOK /\ Types /\ Progress /\ Result

\* Vendors are numbered from 1, which tells a recreation from a start.
LEMMA VendorNumbers ==
  /\ Vendors \subseteq Nat /\ Up \notin Vendors
  /\ 1 \in Vendors /\ NVendors \in Vendors
  /\ \A v \in Vendors : ~(v < 1) /\ v <= NVendors /\ (v < NVendors => v + 1 \in Vendors)
  BY StackAssumption DEF Vendors, Up

\* Before the first operation there is no container and no port.
LEMMA StackInit == Init => StackInv
  BY StackAssumption, VendorNumbers
  DEF Init, StackInv, TypeOK, Types, Progress, Result, Published, NoPort, States

\* A container that is published late, becomes ready or dies leaves what is
\* settled settled.
LEMMA DockerKeeps == StackInv /\ Docker => StackInv'
<1> USE VendorNumbers DEF StackInv
<1> SUFFICES ASSUME StackInv, Docker PROVE StackInv'
  OBVIOUS
<1>1. ASSUME NEW v \in Vendors, Publish(v) PROVE StackInv'
  <2>1. \A w \in Vendors : Settled(w) => Settled(w)'
    BY <1>1 DEF Publish, Settled, Published, TypeOK, Types, States
  <2>2. Types'
    BY <1>1 DEF Publish, Types, States
  <2>3. TypeOK'
    BY <1>1 DEF Publish, TypeOK, Types, States, Published, NoPort
  <2> QED BY <1>1, <2>1, <2>2, <2>3 DEF Publish, Progress, Result, control
<1>2. ASSUME NEW v \in Vendors, BecomeReady(v) PROVE StackInv'
  <2>1. \A w \in Vendors : Settled(w) => Settled(w)'
    BY <1>2 DEF BecomeReady, Settled, Published, TypeOK, Types, States
  <2>2. Types'
    BY <1>2 DEF BecomeReady, Types, States
  <2>3. TypeOK'
    BY <1>2 DEF BecomeReady, TypeOK, Types, States, Published
  <2> QED BY <1>2, <2>1, <2>2, <2>3 DEF BecomeReady, Progress, Result, control
<1>3. ASSUME NEW v \in Vendors, Die(v) PROVE StackInv'
  <2>1. \A w \in Vendors : Settled(w) => Settled(w)'
    BY <1>3 DEF Die, Settled, Published, TypeOK, Types, States
  <2>2. Types'
    BY <1>3 DEF Die, Types, States, NoPort
  <2>3. TypeOK'
    BY <1>3 DEF Die, TypeOK, Types, States, Published
  <2> QED BY <1>3, <2>1, <2>2, <2>3 DEF Die, Progress, Result, control
<1> QED BY <1>1, <1>2, <1>3 DEF Docker

\* While Docker stands still, discovering the port of a vendor settles it, and
\* unsettles no other.
LEMMA Discovering ==
  ASSUME Types, UNCHANGED docker, NEW v \in Vendors, dataPorts' = [dataPorts EXCEPT ![v] = port[v]]
  PROVE  /\ \A w \in Vendors : Settled(w) => Settled(w)'
         /\ container[v] # "created" => Settled(v)'
         /\ Types /\ answered' \subseteq Vendors => Types'
  BY DEF Types, Settled, Published, docker

\* What TypeOK says, and which vendors are settled or published, depends on
\* Docker and the recorded ports alone.
LEMMA AtRest ==
  ASSUME TypeOK, UNCHANGED <<docker, dataPorts>>
  PROVE  /\ \A w \in Vendors : Settled(w) <=> Settled(w)'
         /\ \A w \in Vendors : Published(w) <=> Published(w)'
         /\ Types /\ answered' \subseteq Vendors => Types'
  BY DEF TypeOK, Types, Settled, Published, docker

\* Making containers anew takes their ports away.
LEMMA Making ==
  ASSUME TypeOK, Types, NEW vs \in SUBSET Vendors, Make(vs), UNCHANGED <<issued, dataPorts>>
  PROVE  /\ Types'
         /\ \A v \in Vendors : Published(v)' <=> container'[v] \in {"published", "ready"}
         /\ \A v, w \in Vendors : Published(v)' /\ port'[v] = port'[w] => v = w
<1>1. Types'
  BY DEF Types, Make, States, NoPort
<1>2. \A v \in Vendors : Published(v)' <=> container'[v] \in {"published", "ready"}
  BY DEF TypeOK, Types, Make, Published
<1>3. \A v, w \in Vendors : Published(v)' /\ port'[v] = port'[w] => v = w
  BY DEF TypeOK, Types, Make, Published, NoPort
<1> QED BY <1>1, <1>2, <1>3

\* An operation that begins has established nothing yet; one that is over can be
\* taken back.
LEMMA CommandsKeep ==
  StackInv /\ (Down \/ Cleanup \/ \E o \in {Up} \union Vendors : Begin(o)) => StackInv'
<1> USE VendorNumbers DEF StackInv
<1> SUFFICES ASSUME StackInv, Down \/ Cleanup \/ \E o \in {Up} \union Vendors : Begin(o)
             PROVE  StackInv'
  OBVIOUS
<1>1. CASE Down
  <2>1. Types'
    <3>1. issued' = issued /\ dataPorts' = dataPorts
      BY <1>1 DEF Down
    <3>2. CASE UNCHANGED <<container, port, answered>>
      BY <3>1, <3>2 DEF Types
    <3>3. CASE /\ container' = [v \in Vendors |-> "none"]
               /\ port' = [v \in Vendors |-> NoPort]
               /\ answered' = {}
      BY <3>1, <3>3 DEF Types, States, NoPort
    <3> QED BY <1>1, <3>2, <3>3 DEF Down
  <2>2. TypeOK'
    BY <1>1 DEF Down, TypeOK, Published
  <2> QED BY <1>1, <2>1, <2>2 DEF Down, Progress, Result
<1>2. CASE Cleanup
  <2>1. UNCHANGED <<docker, dataPorts>> /\ answered' = answered
    BY <1>2 DEF Cleanup
  <2>2. TypeOK'
    BY <1>2 DEF Cleanup, TypeOK, Published, docker
  <2> QED BY <1>2, <2>1, <2>2, AtRest DEF Cleanup, Progress, Result, Types
<1>3. ASSUME NEW o \in {Up} \union Vendors, Begin(o) PROVE StackInv'
  <2>1. UNCHANGED <<docker, dataPorts>> /\ answered' = answered
    BY <1>3 DEF Begin
  <2>2. TypeOK'
    BY <1>3, StackAssumption DEF Begin, TypeOK, Published, docker
  <2>3. (Progress /\ Result)'
    BY <1>3, StackAssumption DEF Begin, Progress, Result
  <2> QED BY <2>1, <2>2, <2>3, AtRest DEF Types
<1> QED BY <1>1, <1>2, <1>3

\* An attempt that failed on a vendor that is not ready, and not on one whose
\* recorded address is old, leaves the operation where it may try again.
LEMMA Retrying ==
  ASSUME StackInv, Retry, container[at] # "ready", pc \in {"refresh", "check", "poll"},
         UNCHANGED <<docker, control, dataPorts, op, answered>>
  PROVE  StackInv'
<1> USE VendorNumbers, StackAssumption DEF StackInv
<1>1. Types' /\ \A w \in Vendors : Settled(w)'
  BY AtRest DEF Types, Progress
<1>2. TypeOK'
  <2>1. tries' \in 0..MaxTries
    <3>1. tries < MaxTries
      BY DEF Progress
    <3>2. tries \in 0..MaxTries
      BY DEF TypeOK
    <3>3. tries' = tries + 1
      BY DEF Retry
    <3> QED BY <3>1, <3>2, <3>3
  <2>2. /\ pc' \in {"idle", "refresh", "poll"} /\ at' \in Vendors
        /\ op' = op /\ container' = container /\ port' = port
    BY DEF TypeOK, Retry, End, docker
  <2> QED BY <2>1, <2>2 DEF TypeOK, Published
<1>3. op = Up \/ (op # Up /\ op \in Vendors)
  BY DEF TypeOK
<1>4. Progress'
  BY <1>1, <1>3 DEF TypeOK, Progress, Retry, End
<1>5. Result'
  BY DEF Result, Progress, Retry, End
<1> QED BY <1>1, <1>2, <1>4, <1>5

\* The steps of an operation.
LEMMA AdvanceKeeps == StackInv /\ Advance => StackInv'
<1> USE VendorNumbers DEF StackInv
<1> SUFFICES ASSUME StackInv, Advance PROVE StackInv'
  OBVIOUS
<1>1. CASE Compose
  <2>1. Replaced \in SUBSET Vendors
    BY DEF Replaced, TypeOK
  <2>2. Make(Replaced) /\ UNCHANGED <<issued, dataPorts>>
    BY <1>1 DEF Compose
  <2>3. TypeOK' /\ Types'
    BY <1>1, <2>1, <2>2, Making DEF Compose, TypeOK
  <2>4. Progress'
    BY <1>1 DEF Compose, Progress
  <2> QED BY <1>1, <2>3, <2>4 DEF Compose, Result, Progress
<1>2. CASE ComposeFails
  <2>1. Replaced \in SUBSET Vendors
    BY DEF Replaced, TypeOK
  <2>2. PICK vs \in SUBSET Vendors : Make(vs)
    BY <1>2, <2>1 DEF ComposeFails
  <2>3. UNCHANGED <<issued, dataPorts>>
    BY <1>2 DEF ComposeFails
  <2>4. TypeOK' /\ Types'
    BY <1>2, <2>2, <2>3, Making DEF ComposeFails, TypeOK, End
  <2> QED BY <1>2, <2>4 DEF ComposeFails, End, Progress, Result
<1>3. CASE Discover
  <2>1. UNCHANGED docker /\ answered' = answered
    BY <1>3 DEF Discover
  <2>2. CASE Published(at)
    <3>1. dataPorts' = [dataPorts EXCEPT ![at] = port[at]]
      BY <1>3, <2>2 DEF Discover, Discovered
    <3>2. PICK v \in Vendors : v = at /\ container[v] # "created"
      BY <2>2 DEF TypeOK
    <3>3. Types' /\ Settled(v)' /\ \A w \in Vendors : Settled(w) => Settled(w)'
      <4>1. answered' \subseteq Vendors
        BY <2>1 DEF Types
      <4> QED BY <2>1, <3>1, <3>2, <4>1, Discovering
    <3>4. TypeOK'
      BY <1>3, <2>1, <2>2 DEF Discover, TypeOK, Published, docker
    <3>5. CASE at < NVendors
      <4>1. \A w \in Vendors : w < at + 1 => w < at \/ w = v
        BY <3>2
      <4> QED BY <1>3, <2>2, <3>2, <3>3, <3>4, <3>5, <4>1 DEF Discover, Progress, Result
    <3>6. CASE ~(at < NVendors)
      <4>1. \A w \in Vendors : w < at \/ w = v
        BY <3>2, <3>6
      <4>2. \A w \in Vendors : Settled(w)'
        BY <1>3, <3>3, <4>1 DEF Discover, Progress
      <4> QED BY <1>3, <2>2, <3>3, <3>4, <3>6, <4>2 DEF Discover, Progress, Result, TypeOK
    <3> QED BY <3>5, <3>6
  <2>3. CASE ~Published(at)
    <3>1. UNCHANGED <<docker, dataPorts>>
      BY <1>3, <2>3 DEF Discover
    <3>2. TypeOK'
      BY <1>3, <2>3 DEF Discover, TypeOK, Published, docker, End
    <3> QED BY <1>3, <2>1, <2>3, <3>1, <3>2, AtRest DEF Discover, End, Progress, Result, Types
  <2> QED BY <2>2, <2>3
<1>4. CASE Refresh
  <2>1. CASE Published(at)
    <3>1. dataPorts' = [dataPorts EXCEPT ![at] = port[at]] /\ UNCHANGED docker
      BY <1>4, <2>1 DEF Refresh, Discovered
    <3>2. at \in Vendors /\ answered' = answered
      BY <1>4 DEF Refresh, TypeOK
    <3>3. Types' /\ \A w \in Vendors : Settled(w)'
      BY <1>4, <3>1, <3>2, Discovering DEF Refresh, Types, Progress
    <3>4. TypeOK'
      BY <1>4, <2>1 DEF Refresh, TypeOK, Published, docker
    <3>5. Progress'
      BY <1>4, <2>1, <3>3 DEF Refresh, Progress
    <3> QED BY <1>4, <2>1, <3>3, <3>4, <3>5 DEF Refresh, Result, Progress
  <2>2. CASE ~Published(at)
    <3>1. container[at] # "ready"
      BY <2>2 DEF TypeOK
    <3> QED BY <1>4, <2>2, <3>1, Retrying DEF Refresh
  <2> QED BY <2>1, <2>2
<1>5. ASSUME Reaches(at), Check \/ Poll PROVE StackInv'
  <2>1. UNCHANGED <<docker, dataPorts>> /\ answered' = answered \union {at} /\ at \in Vendors
    BY <1>5 DEF Check, Poll, TypeOK
  <2>2. Types' /\ \A w \in Vendors : Settled(w)'
    BY <1>5, <2>1, AtRest DEF Types, Progress, Check, Poll
  <2>3. TypeOK'
    BY <1>5 DEF Check, Poll, TypeOK, Published, docker, End
  <2>4. CASE Check /\ at < NVendors
    <3>1. \A w \in Vendors : w < at + 1 => w < at \/ w = at
      BY <2>1
    <3> QED BY <1>5, <2>1, <2>2, <2>3, <2>4, <3>1 DEF Check, Progress, Result
  <2>5. CASE Check /\ ~(at < NVendors)
    <3>1. \A w \in Vendors : w < at \/ w = at
      BY <2>1, <2>5
    <3>2. answered' = Vendors
      BY <2>1, <2>2, <2>5, <3>1 DEF Check, Progress, Types
    <3> QED BY <1>5, <2>2, <2>3, <2>5, <3>2 DEF Check, End, Progress, Result
  <2>6. CASE Poll
    BY <1>5, <2>1, <2>2, <2>3, <2>6 DEF Poll, End, Progress, Result
  <2> QED BY <1>5, <2>4, <2>5, <2>6
<1>6. ASSUME ~Reaches(at), Check \/ Poll PROVE StackInv'
  <2>1. at \in Vendors /\ Settled(at)
    BY <1>6 DEF TypeOK, Progress, Check, Poll
  <2>2. container[at] # "ready"
    BY <1>6, <2>1 DEF Reaches, Settled, TypeOK
  <2> QED BY <1>6, <2>2, Retrying DEF Check, Poll
<1> QED BY <1>1, <1>2, <1>3, <1>4, <1>5, <1>6 DEF Advance

\* At every step of every sequence of operations the parts of StackInv hold.
THEOREM StackInvariant == Spec => []StackInv
<1>1. Init => StackInv
  BY StackInit
<1>2. StackInv /\ [Next]_vars => StackInv'
  <2> SUFFICES ASSUME StackInv, [Next]_vars PROVE StackInv'
    OBVIOUS
  <2>1. CASE UNCHANGED vars
    BY <2>1 DEF vars, StackInv, TypeOK, Types, Progress, Result, Published, Settled
  <2> QED BY <2>1, DockerKeeps, CommandsKeep, AdvanceKeeps DEF Next
<1> QED BY <1>1, <1>2, PTL DEF Spec

\* Types, and that no two containers are published on one port.
THEOREM StackTypeCorrect == Spec => []TypeOK
  BY StackInvariant, PTL DEF StackInv

\* When up or recreate_vendor succeeds, the recorded addresses are the present
\* ones, although Docker goes on changing them between any two steps.
THEOREM StackOkMeansReachable == Spec => []OkMeansReachable
<1>1. StackInv => OkMeansReachable
  BY DEF StackInv, TypeOK, Result, Settled, OkMeansReachable
<1> QED BY <1>1, StackInvariant, PTL

\* A wait is given up only on a vendor that was not ready in its last attempt.
THEOREM StackGivesUpHonestly == Spec => []GivingUpIsHonest
<1>1. StackInv => GivingUpIsHonest
  BY DEF StackInv, Result, GivingUpIsHonest
<1> QED BY <1>1, StackInvariant, PTL

\* All of what up and recreate_vendor promise holds for any number of vendors and
\* any sequence of operations.
THEOREM StackIsCorrect == Spec => []StackCorrect
  BY StackTypeCorrect, StackOkMeansReachable, StackGivesUpHonestly, PTL DEF StackCorrect

-------------------------------------------------------------------------------
(*****************************************************************************)
(* EgressTunnel, for every buffer size, every length of headers and every    *)
(* amount of data.                                                           *)
(*****************************************************************************)

\* The counters, besides what EgressTypeOK says of them.
Counts ==
  /\ headSize \in Nat /\ headSent \in Nat
  /\ sent \in [Directions -> Nat] /\ got \in [Directions -> Nat]
  /\ unread \in [Directions -> 0..Room] /\ queued \in [Directions -> 0..Room]
  /\ held \in Nat /\ lost \in Nat /\ way \in Directions
  /\ ready \subseteq Directions

\* The thread holds data only while it sends, and nothing is lost before the
\* headers have been read.
Hands ==
  /\ stage \in {"headers", "connect", "relay"} => held = 0
  /\ stage = "sending" => held > 0
  /\ stage = "headers" => lost = 0
  /\ stage # "closed" => cause = "none"

\* A relay that ended with a stream had nothing of that stream in hand.
Ends == cause \in Directions => stage = "closed" /\ held = 0 /\ unread[cause] = 0

TunnelInv == EgressTypeOK /\ Counts /\ Hands /\ Ends

\* A connection starts with no data anywhere.
LEMMA TunnelInit == EgressInit => TunnelInv
  BY TunnelAssumption
  DEF EgressInit, TunnelInv, EgressTypeOK, Counts, Hands, Ends, Zero, InHand, Directions

\* The peers write and read, and a peer that has gone reads nothing.
LEMMA PeersKeep == TunnelInv /\ Peers => TunnelInv'
<1> USE TunnelAssumption DEF TunnelInv, EgressTypeOK, Counts, Hands, Ends, InHand, Directions, shape
<1> SUFFICES ASSUME TunnelInv, Peers PROVE TunnelInv'
  OBVIOUS
<1>1. CASE WriteHead
  BY <1>1 DEF WriteHead
<1>2. ASSUME NEW d \in Directions, Write(d) PROVE TunnelInv'
  BY <1>2 DEF Write
<1>3. ASSUME NEW d \in Directions, Read(d) PROVE TunnelInv'
  BY <1>3 DEF Read
<1>4. ASSUME NEW d \in Directions, Finish(d) PROVE TunnelInv'
  BY <1>4 DEF Finish
<1> QED BY <1>1, <1>2, <1>3, <1>4 DEF Peers

\* The handshake drops at most what had come with the headers.
LEMMA HandshakeKeeps == TunnelInv /\ Handshake => TunnelInv'
<1> USE TunnelAssumption
    DEF TunnelInv, EgressTypeOK, Counts, Hands, Ends, InHand, Directions, shape, peers, Close, Parsed
<1> SUFFICES ASSUME TunnelInv, Handshake PROVE TunnelInv'
  OBVIOUS
<1>1. CASE ReadHeaders
  <2>1. PICK n \in 0..unread["up"] :
          lost' = n /\ unread' = [unread EXCEPT !["up"] = @ - n]
    BY <1>1 DEF ReadHeaders
  <2>2. Counts'
    <3>1. unread["up"] - n \in 0..Room /\ n \in Nat
      BY <2>1
    <3>2. ready' \subseteq ready
      BY <1>1 DEF ReadHeaders
    <3> QED BY <1>1, <2>1, <3>1, <3>2 DEF ReadHeaders
  <2>3. EgressTypeOK'
    BY <1>1, <2>1 DEF ReadHeaders
  <2>4. (Hands /\ Ends)'
    BY <1>1, <2>1 DEF ReadHeaders
  <2> QED BY <2>2, <2>3, <2>4
<1>2. CASE HeadersTooLarge  BY <1>2 DEF HeadersTooLarge
<1>3. CASE HeadersEnd       BY <1>3 DEF HeadersEnd
<1>4. CASE HeadersTimeOut   BY <1>4 DEF HeadersTimeOut
<1>5. CASE Connect          BY <1>5 DEF Connect
<1> QED BY <1>1, <1>2, <1>3, <1>4, <1>5 DEF Handshake

\* The relay passes on what it took, unit by unit, before it looks at a socket
\* again.
LEMMA RelayKeeps == TunnelInv /\ Relay => TunnelInv'
<1> USE TunnelAssumption
    DEF TunnelInv, EgressTypeOK, Counts, Hands, Ends, InHand, Directions, shape, peers, Close
<1> SUFFICES ASSUME TunnelInv, Relay PROVE TunnelInv'
  OBVIOUS
<1>1. CASE Select
  BY <1>1 DEF Select
<1>2. ASSUME NEW d \in Directions, Serve(d) PROVE TunnelInv'
  <2>1. CASE unread[d] = 0
    BY <1>2, <2>1 DEF Serve
  <2>2. CASE unread[d] # 0
    <3>1. PICK n \in 1..unread[d] :
            held' = n /\ way' = d /\ unread' = [unread EXCEPT ![d] = @ - n]
      BY <1>2, <2>2 DEF Serve
    <3>2. /\ stage = "relay" /\ stage' = "sending" /\ ready' \subseteq ready
          /\ UNCHANGED <<headSize, headSent, sent, got, queued, lost, cause>>
      BY <1>2, <2>2 DEF Serve
    <3>3. unread[d] \in 0..Room /\ unread[d] - n \in 0..Room /\ n \in Nat /\ n > 0
      BY <3>1
    <3>4. Counts'
      BY <3>1, <3>2, <3>3
    <3>5. EgressTypeOK'
      BY <3>1, <3>2, <3>3
    <3>6. (Hands /\ Ends)'
      BY <3>1, <3>2, <3>3
    <3> QED BY <3>4, <3>5, <3>6
  <2> QED BY <2>1, <2>2
<1>3. CASE SendSome
  BY <1>3 DEF SendSome, Blocked
<1>4. CASE SendTimesOut
  BY <1>4 DEF SendTimesOut, Blocked
<1>5. CASE SendBreaks
  BY <1>5 DEF SendBreaks
<1> QED BY <1>1, <1>2, <1>3, <1>4, <1>5 DEF Relay

\* In every state of a connection the parts of TunnelInv hold.
THEOREM TunnelInvariant == EgressSpec => []TunnelInv
<1>1. EgressInit => TunnelInv
  BY TunnelInit
<1>2. TunnelInv /\ [EgressNext]_egressVars => TunnelInv'
  <2> SUFFICES ASSUME TunnelInv, [EgressNext]_egressVars PROVE TunnelInv'
    OBVIOUS
  <2>1. CASE UNCHANGED egressVars
    BY <2>1 DEF egressVars, TunnelInv, EgressTypeOK, Counts, Hands, Ends, InHand
  <2> QED BY <2>1, PeersKeep, HandshakeKeeps, RelayKeeps DEF EgressNext
<1> QED BY <1>1, <1>2, PTL DEF EgressSpec

\* relay_sockets keeps every unit, in both directions.
THEOREM TunnelConserves == EgressSpec => []EgressTypeOK
  BY TunnelInvariant, PTL DEF TunnelInv

\* When the relay ends with the end of a stream, all of that stream has been
\* passed on (egress_proxy.py:172).
THEOREM TunnelEndsInOrder == EgressSpec => []EndIsInOrder
<1>1. TunnelInv => EndIsInOrder
  BY TunnelAssumption
  DEF TunnelInv, EgressTypeOK, Counts, Ends, EndIsInOrder, InHand, Directions
<1> QED BY <1>1, TunnelInvariant, PTL

\* Nothing is doubled, lost or out of order in a tunnel with buffers of any size.
THEOREM TunnelIsCorrect == EgressSpec => []TunnelCorrect
  BY TunnelConserves, TunnelEndsInOrder, PTL DEF TunnelCorrect

===============================================================================
