----------------------------- MODULE PortForward -----------------------------
(***************************************************************************)
(* What a port forwarder promises the connections it has joined: each      *)
(* carries bytes both ways, by itself, whatever the others do, until the   *)
(* reader has gone or the source's stream is lost: what is in flight then  *)
(* may or may not arrive.  When a client is joined is left open.           *)
(***************************************************************************)
EXTENDS Naturals

CONSTANTS Clients, Bytes

VARIABLES
  carried,  \* the connections that have been joined to a target
  peer,     \* the two ends of each: open, half (no more to send), gone
            \* (closed after what it sent), or lost (its stream is broken)
  sent,     \* how much each end has sent
  moved     \* how much of that has been handed to the other end

vars == <<carried, peer, sent, moved>>

Sides == {"client", "target"}
Other(s) == IF s = "client" THEN "target" ELSE "client"
PeerStates == {"open", "half", "gone", "lost"}
Away(c, s) == peer[c][s] \in {"gone", "lost"}

Init ==
  /\ carried = {}
  /\ peer = [c \in Clients |-> [s \in Sides |-> "open"]]
  /\ sent = [c \in Clients |-> [s \in Sides |-> 0]]
  /\ moved = sent

Join(c) ==
  /\ c \notin carried /\ carried' = carried \cup {c}
  /\ UNCHANGED <<peer, sent, moved>>

Send(c, s) ==
  /\ peer[c][s] = "open" /\ sent[c][s] < Bytes
  /\ sent' = [sent EXCEPT ![c][s] = @ + 1]
  /\ UNCHANGED <<carried, peer, moved>>

(* The reader has to be there; the source may have gone after it sent.     *)
Deliver(c, s) ==
  /\ c \in carried /\ moved[c][s] < sent[c][s] /\ ~Away(c, Other(s))
  /\ moved' = [moved EXCEPT ![c][s] = @ + 1]
  /\ UNCHANGED <<carried, peer, sent>>

(* Ends close one by one, or are lost, many at once with their transport.  *)
Close ==
  /\ peer' \in [Clients -> [Sides -> PeerStates]]
  /\ \A c \in Clients, s \in Sides :
       \/ peer'[c][s] \in {peer[c][s], "lost"}
       \/ peer[c][s] # "lost" /\ peer'[c][s] = "gone"
       \/ peer[c][s] = "open" /\ peer'[c][s] = "half"
  /\ UNCHANGED <<carried, sent, moved>>

Next ==
  \/ \E c \in Clients : Join(c)
  \/ \E c \in Clients, s \in Sides : Send(c, s) \/ Deliver(c, s)
  \/ Close

Spec == Init /\ [][Next]_vars

(* Delivery is promised while the source's stream is whole.                *)
Fairness == \A c \in Clients, s \in Sides :
  WF_vars(Deliver(c, s) /\ peer[c][s] # "lost")
=============================================================================
