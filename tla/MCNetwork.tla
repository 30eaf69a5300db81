------------------------------- MODULE MCNetwork -------------------------------
(***************************************************************************)
(* What lies between an agent and the servers it uses: the vendors of its  *)
(* compose unit and the tunnels to its provider.  The stack and the proxy  *)
(* are processes of their own that share no state, so a behaviour is of    *)
(* the one or of the other and `part` says of which.                       *)
(*                                                                         *)
(* Two vendors, each recreated once or twice, so that their ports change;  *)
(* and a tunnel whose buffers hold two units, with up to three units each  *)
(* way, so that a direction can have its queue full, a unit in hand and    *)
(* none left to read, and headers fit, are at the limit or exceed it.      *)
(***************************************************************************)
EXTENDS ComposeStack, EgressTunnel

VARIABLE part

MCInit ==
  /\ part \in {"stack", "tunnel"}
  /\ Init /\ EgressInit
  /\ part = "stack" => mode = "proxy" /\ target = "open" /\ headSize = 1

MCNext ==
  \/ part = "stack" /\ Next /\ UNCHANGED <<part, egressVars>>
  \/ part = "tunnel" /\ EgressNext /\ UNCHANGED <<part, vars>>

\* The fairness of each part, while it is the one that runs.
MCSpec ==
  /\ MCInit /\ [][MCNext]_<<part, vars, egressVars>>
  /\ WF_vars(part = "stack" /\ Advance)
  /\ WF_egressVars(part = "tunnel" /\ Handshake)
  /\ WF_egressVars(part = "tunnel" /\ Relay)

\* HandshakeEnds of a tunnel: a client that never completes its headers does not
\* hold its thread.
TunnelHandshakeEnds == part = "tunnel" => HandshakeEnds

\* No container that stays unready and no peer that stalls holds a command of the
\* stack, or the thread of a tunnel, for ever.
NothingHangs == OperationsEnd /\ TunnelHandshakeEnds /\ NeverWedged

===============================================================================
