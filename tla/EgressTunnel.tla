----------------------------- MODULE EgressTunnel -----------------------------
(***************************************************************************)
(* One connection through the network gate of a benchmark container        *)
(* (harness/bench/egress_proxy.py): the CONNECT handshake of the proxy, or *)
(* the fixed target of the gateway that publishes a webhook port, and the  *)
(* relay, in which a single thread serves both directions with a blocking  *)
(* sendall.                                                                *)
(*                                                                         *)
(* Data is counted in units and order is that of the counts.  A peer may   *)
(* write, read, finish writing or leave, or do nothing for ever.           *)
(***************************************************************************)
EXTENDS Integers

CONSTANTS
  Room,       \* units a socket buffers
  MaxUnits,   \* bound on what a peer writes
  MaxHead     \* MAX_HEADER_BYTES, in units

ASSUME TunnelAssumption ==
  Room \in Nat \ {0} /\ MaxUnits \in Nat /\ MaxHead \in Nat \ {0}

Directions == {"up", "down"}   \* client to upstream, upstream to client

VARIABLES
  mode,      \* "proxy" or "forward"
  target,    \* what connecting comes to: "open", "dead" or "denied"
  headSize,  \* units of the client's request headers
  headSent,  \* those written
  stage,     \* "headers", "connect", "relay", "sending" or "closed"
  ready,     \* directions the last select found readable
  sent,      \* units written by the peers
  unread,    \* units in the receive buffer of the thread
  held,      \* the units sendall has yet to pass on
  way,       \* their direction
  queued,    \* units passed on that the other peer has not read
  got,       \* units read
  lost,      \* units after the headers, dropped with them
  finished,  \* directions whose peer has finished writing
  left,      \* peers, by the direction they write to, that are gone
  cause      \* why the tunnel ended

egressVars == <<mode, target, headSize, headSent, stage, ready, sent, unread, held, way, queued,
          got, lost, finished, left, cause>>

shape == <<mode, target, headSize>>
peers == <<headSent, sent, got, finished, left>>

Zero == [d \in Directions |-> 0]

\* The peer that reads direction d writes the other one.
Other(d) == IF d = "up" THEN "down" ELSE "up"

EgressInit ==
  /\ mode \in {"proxy", "forward"}
  /\ target \in {"open", "dead", "denied"}
  /\ mode = "forward" => target # "denied"
  /\ headSize \in 1..(MaxHead + 1)
  /\ headSent = 0
  /\ stage = IF mode = "proxy" THEN "headers" ELSE "connect"
  /\ ready = {}
  /\ sent = Zero /\ unread = Zero /\ queued = Zero /\ got = Zero
  /\ held = 0 /\ way = "up" /\ lost = 0
  /\ finished = {} /\ left = {}
  /\ cause = "none"

Close(c) == stage' = "closed" /\ cause' = c /\ ready' = {}

-------------------------------------------------------------------------------
(***************************************************************************)
(* The peers.                                                              *)
(***************************************************************************)

\* The client writes part of its headers.
WriteHead ==
  /\ mode = "proxy" /\ headSent < headSize
  /\ finished = {}
  /\ headSent' = headSent + 1
  /\ UNCHANGED <<shape, stage, ready, sent, unread, held, way, queued, got, lost, finished, left, cause>>

\* The client may write after its headers without an answer; the upstream exists
\* once it is connected.
Write(d) ==
  /\ d \notin finished /\ sent[d] < MaxUnits /\ unread[d] < Room
  /\ IF d = "up" THEN mode = "proxy" => headSent = headSize
                 ELSE stage \in {"relay", "sending"}
  /\ stage # "closed"
  /\ sent' = [sent EXCEPT ![d] = @ + 1]
  /\ unread' = [unread EXCEPT ![d] = @ + 1]
  /\ UNCHANGED <<shape, headSent, stage, ready, held, way, queued, got, lost, finished, left, cause>>

Read(d) ==
  /\ queued[d] > 0 /\ Other(d) \notin left
  /\ queued' = [queued EXCEPT ![d] = @ - 1]
  /\ got' = [got EXCEPT ![d] = @ + 1]
  /\ UNCHANGED <<shape, headSent, stage, ready, sent, unread, held, way, lost, finished, left, cause>>

\* shutdown(SHUT_WR) or, if gone, close().
Finish(d) ==
  /\ d = "up" \/ stage \in {"relay", "sending"}
  /\ \E gone \in BOOLEAN :
       /\ d \notin finished \/ (gone /\ d \notin left)
       /\ left' = IF gone THEN left \union {d} ELSE left
  /\ finished' = finished \union {d}
  /\ UNCHANGED <<shape, headSent, stage, ready, sent, unread, held, way, queued, got, lost, cause>>

-------------------------------------------------------------------------------
(***************************************************************************)
(* The handshake.                                                          *)
(***************************************************************************)

\* After complete headers, or what is left of them when the client has finished.
Parsed ==
  IF target = "denied" THEN Close("403")
  ELSE stage' = "connect" /\ UNCHANGED <<cause, ready>>

\* recv takes all that is there, maybe with data from after the headers.
ReadHeaders ==
  /\ stage = "headers" /\ headSent = headSize /\ headSize <= MaxHead
  /\ \E n \in 0..unread["up"] :
       lost' = n /\ unread' = [unread EXCEPT !["up"] = @ - n]
  /\ Parsed
  /\ UNCHANGED <<shape, peers, held, way, queued>>

HeadersTooLarge ==
  /\ stage = "headers" /\ headSent > MaxHead
  /\ Close("400")
  /\ UNCHANGED <<shape, peers, held, way, queued, unread, lost>>

\* The client finished early: its first line may be whole, or not.
HeadersEnd ==
  /\ stage = "headers" /\ "up" \in finished /\ headSent < headSize
  /\ \/ Close("400")
     \/ headSent > 0 /\ Parsed
  /\ UNCHANGED <<shape, peers, held, way, queued, unread, lost>>

\* Seeded error: a client may take its time.
HeadersTimeOut_Never == FALSE /\ UNCHANGED egressVars

\* Ten seconds without a byte.
HeadersTimeOut ==
  /\ stage = "headers" /\ headSent < headSize /\ "up" \notin finished
  /\ Close("400")
  /\ UNCHANGED <<shape, peers, held, way, queued, unread, lost>>

Connect ==
  /\ stage = "connect"
  /\ IF target = "open" THEN stage' = "relay" /\ UNCHANGED <<cause, ready>> ELSE Close("502")
  /\ UNCHANGED <<shape, peers, held, way, queued, unread, lost>>

-------------------------------------------------------------------------------
(***************************************************************************)
(* relay_sockets.                                                          *)
(***************************************************************************)
Select ==
  /\ stage = "relay" /\ ready = {}
  /\ ready' = {d \in Directions : unread[d] > 0 \/ d \in finished}
  /\ ready' # {}
  /\ UNCHANGED <<shape, peers, stage, held, way, queued, unread, lost, cause>>

\* Seeded error: a peer that has finished is not read to its end.
Serve_EofFirst(d) ==
  /\ stage = "relay" /\ d \in ready
  /\ IF d \in finished
     THEN Close(d) /\ UNCHANGED <<unread, held, way>>
     ELSE /\ held' = unread[d] /\ way' = d /\ stage' = "sending"
          /\ unread' = [unread EXCEPT ![d] = 0]
          /\ ready' = ready \ {d} /\ UNCHANGED cause
  /\ UNCHANGED <<shape, peers, queued, lost>>

\* recv: some of what is there, or the end of the stream, which ends the relay.
Serve(d) ==
  /\ stage = "relay" /\ d \in ready
  /\ IF unread[d] = 0
     THEN Close(d) /\ UNCHANGED <<unread, held, way>>
     ELSE \E n \in 1..unread[d] :
            /\ held' = n /\ way' = d /\ stage' = "sending"
            /\ unread' = [unread EXCEPT ![d] = @ - n]
            /\ ready' = ready \ {d} /\ UNCHANGED cause
  /\ UNCHANGED <<shape, peers, queued, lost>>

Blocked == stage = "sending" /\ queued[way] = Room

\* Seeded error: send instead of sendall.
SendSome_Once ==
  /\ stage = "sending" /\ ~Blocked /\ Other(way) \notin left
  /\ queued' = [queued EXCEPT ![way] = @ + 1]
  /\ held' = 0 /\ stage' = "relay"
  /\ UNCHANGED <<shape, peers, ready, unread, way, lost, cause>>

SendSome ==
  /\ stage = "sending" /\ ~Blocked /\ Other(way) \notin left
  /\ queued' = [queued EXCEPT ![way] = @ + 1]
  /\ held' = held - 1
  /\ stage' = IF held = 1 THEN "relay" ELSE "sending"
  /\ UNCHANGED <<shape, peers, ready, unread, way, lost, cause>>

\* The proxy gives its client ten seconds, as left over from the headers; what
\* create_connection returns keeps its fifteen.  The client of the gateway has
\* a socket without a timeout.
TimeLimit(d) == mode = "proxy" \/ d = "up"

\* Seeded error: the proxy puts its client back to blocking.
SendTimesOut_Never == FALSE /\ UNCHANGED egressVars

SendTimesOut ==
  /\ Blocked /\ TimeLimit(way)
  /\ Close("timeout")
  /\ UNCHANGED <<shape, peers, held, way, queued, unread, lost>>

SendBreaks ==
  /\ stage = "sending" /\ Other(way) \in left
  /\ Close("broken")
  /\ UNCHANGED <<shape, peers, held, way, queued, unread, lost>>

-------------------------------------------------------------------------------
Handshake == ReadHeaders \/ HeadersTooLarge \/ HeadersEnd \/ HeadersTimeOut \/ Connect

Relay ==
  Select \/ (\E d \in Directions : Serve(d)) \/ SendSome \/ SendTimesOut \/ SendBreaks

Peers == WriteHead \/ \E d \in Directions : Write(d) \/ Read(d) \/ Finish(d)

EgressNext == Peers \/ Handshake \/ Relay

EgressSpec == EgressInit /\ [][EgressNext]_egressVars

\* The thread goes on when it can, and time passes while it cannot.
FairEgressSpec == EgressSpec /\ WF_egressVars(Handshake) /\ WF_egressVars(Relay)

-------------------------------------------------------------------------------
(***************************************************************************)
(* Correctness.                                                            *)
(***************************************************************************)
InHand(d) == IF way = d THEN held ELSE 0

\* Every unit that was written is somewhere: nothing is doubled, and nothing but
\* what came with the headers is dropped on the way.
EgressTypeOK ==
  /\ stage \in {"headers", "connect", "relay", "sending", "closed"}
  /\ \A d \in Directions :
       /\ queued[d] \in 0..Room /\ unread[d] \in 0..Room
       /\ sent[d] = unread[d] + InHand(d) + queued[d] + got[d] + (IF d = "up" THEN lost ELSE 0)

\* egress_proxy.py:172: the end of one stream ends both, but only when all that
\* came before it has been passed on, so a response that ends with its
\* connection is complete.
EndIsInOrder ==
  \A d \in Directions :
    cause = d => sent[d] = queued[d] + got[d] + (IF d = "up" THEN lost ELSE 0)

\* What goes through a tunnel arrives once, and ends in order.
TunnelCorrect == EgressTypeOK /\ EndIsInOrder

\* A client cannot hold the thread of a handshake for ever.
HandshakeEnds == (stage \in {"headers", "connect"}) ~> (stage \notin {"headers", "connect"})

\* egress_proxy.py:174: peers that write and do not read cannot hold the thread
\* of the proxy for ever: what there is to relay is passed on or the tunnel ends.
\* The gateway has that towards its target only.
NeverWedged ==
  /\ \A d \in Directions :
       (mode = "proxy" /\ unread[d] > 0 /\ stage \in {"relay", "sending"})
         ~> (unread[d] = 0 \/ stage = "closed")
  /\ (stage = "sending" /\ way = "up") ~> (stage # "sending" \/ way # "up")

===============================================================================
