----------------------------- MODULE SshForwarder -----------------------------
(***************************************************************************)
(* The SSH port forwarders of the acceptance tests: a listener, a          *)
(* goroutine that accepts, dials and joins one connection after another,   *)
(* the two copying goroutines of each connection, and the goroutine that   *)
(* closes the listener when the context is cancelled.  In reverse          *)
(* (startReverseSSHPortAndIPForwarder) the listener is on the remote side  *)
(* and the client's end of a connection is a channel of the SSH            *)
(* connection; in startSSHPortAndIPForwarder the target's end is one.      *)
(***************************************************************************)
EXTENDS Naturals

CONSTANTS
  Clients,  \* those who may connect to the listener, once each
  Bytes     \* bound: how much each client may send

ASSUME BytesAssumption == Bytes \in Nat

VARIABLES
  reverse,    \* which of the two functions the test has called
  caller,     \* the function that starts the forwarder: dial, listen, returned, failed
  ssh,        \* the SSH connection: none, up, lost
  lis,        \* the listener: none, open, closed
  cancelled,  \* the context is done
  closer,     \* the goroutine that waits for the context: none, waiting, done
  loop,       \* the accepting goroutine: none, accept, dial, copy, ended
  state,      \* what has become of each client
  copy,       \* for each end, the goroutine that reads from it
  peer, sent, moved  \* the ends and what they sent, as in PortForward

goVars == <<caller, closer, loop>>
linkVars == <<reverse, ssh, lis, cancelled>>
dataVars == <<peer, sent, moved>>
vars == <<reverse, caller, ssh, lis, cancelled, closer, loop, state, copy, peer, sent, moved>>

Sides == {"client", "target"}
Other(s) == IF s = "client" THEN "target" ELSE "client"
Tunnelled == IF reverse THEN "client" ELSE "target"

PeerStates == {"open", "half", "gone", "lost"}
Away(c, s) == peer[c][s] \in {"gone", "lost"}

ClientStates == {"away", "queued", "taken", "orphan", "joined", "left", "refused"}

TypeOK ==
  /\ reverse \in BOOLEAN
  /\ caller \in {"dial", "listen", "returned", "failed"}
  /\ ssh \in {"none", "up", "lost"}
  /\ lis \in {"none", "open", "closed"}
  /\ cancelled \in BOOLEAN
  /\ closer \in {"none", "waiting", "done"}
  /\ loop \in {"none", "accept", "dial", "copy", "ended"}
  /\ state \in [Clients -> ClientStates]
  /\ copy \in [Clients -> [Sides -> {"none", "copying", "sending", "done"}]]
  /\ peer \in [Clients -> [Sides -> PeerStates]]
  /\ sent \in [Clients -> [Sides -> 0..Bytes]]
  /\ moved \in [Clients -> [Sides -> 0..Bytes]]

Init ==
  /\ reverse \in BOOLEAN
  /\ caller = "dial" /\ ssh = "none" /\ lis = "none" /\ cancelled = FALSE
  /\ closer = "none" /\ loop = "none"
  /\ state = [c \in Clients |-> "away"]
  /\ copy = [c \in Clients |-> [s \in Sides |-> "none"]]
  /\ peer = [c \in Clients |-> [s \in Sides |-> "open"]]
  /\ sent = [c \in Clients |-> [s \in Sides |-> 0]]
  /\ moved = sent

-----------------------------------------------------------------------------
(* The function the test calls.  On an error it leaves what it has opened. *)

BuildClient ==
  /\ caller = "dial"
  /\ \/ caller' = "listen" /\ ssh' = "up"
     \/ caller' = "failed" /\ UNCHANGED ssh
  /\ UNCHANGED <<reverse, lis, cancelled, closer, loop, state, copy, dataVars>>

StartListening ==
  /\ caller = "listen"
  /\ \/ /\ reverse => ssh = "up"
        /\ caller' = "returned" /\ lis' = "open"
        /\ loop' = "accept" /\ closer' = "waiting"
     \/ caller' = "failed" /\ UNCHANGED <<lis, loop, closer>>
  /\ UNCHANGED <<reverse, ssh, cancelled, state, copy, dataVars>>

(* The listener goes, and with it the clients it had not handed out.       *)
Unlisten ==
  /\ lis' = "closed"
  /\ state' = [c \in Clients |-> IF state[c] = "queued" THEN "refused" ELSE state[c]]

ForgetListener ==   \* slip: nobody closes the listener
  /\ closer = "waiting" /\ cancelled
  /\ closer' = "done"
  /\ UNCHANGED <<linkVars, caller, loop, state, copy, dataVars>>

CloseListener ==
  /\ closer = "waiting" /\ cancelled
  /\ closer' = "done"
  /\ Unlisten
  /\ UNCHANGED <<reverse, caller, ssh, cancelled, loop, copy, dataVars>>

-----------------------------------------------------------------------------
(* The accepting goroutine.  It stays in copyConnections until one of the  *)
(* two copies is over, and one failed dial ends it, with the listener open *)
(* and the client it has accepted left as it is.                           *)

AcceptMore(c) ==   \* slip: the connection is served in the background
  /\ loop = "accept" /\ lis = "open" /\ state[c] = "queued"
  /\ state' = [state EXCEPT ![c] = "taken"]
  /\ UNCHANGED <<caller, closer, loop, copy, linkVars, dataVars>>

Accept(c) ==
  /\ loop = "accept" /\ lis = "open" /\ state[c] = "queued"
  /\ loop' = "dial" /\ state' = [state EXCEPT ![c] = "taken"]
  /\ UNCHANGED <<caller, closer, copy, linkVars, dataVars>>

AcceptFails ==
  /\ loop = "accept" /\ lis = "closed"
  /\ loop' = "ended"
  /\ UNCHANGED <<caller, closer, state, copy, linkVars, dataVars>>

DialTarget(c) ==
  /\ loop = "dial" /\ state[c] = "taken"
  /\ reverse \/ ssh = "up"
  /\ loop' = "copy" /\ state' = [state EXCEPT ![c] = "joined"]
  /\ copy' = [copy EXCEPT ![c] = [s \in Sides |-> "copying"]]
  /\ UNCHANGED <<caller, closer, linkVars, dataVars>>

DialFails(c) ==
  /\ loop = "dial" /\ state[c] = "taken"
  /\ loop' = "ended" /\ state' = [state EXCEPT ![c] = "orphan"]
  /\ UNCHANGED <<caller, closer, copy, linkVars, dataVars>>

(* <-chDone: the channel has no buffer, so taking the value also lets the  *)
(* sender go on.  Nobody takes the other copy's, and neither end is closed.*)
TakenFromAny(c, s) ==   \* slip: one channel for all connections
  /\ loop = "copy" /\ copy[c][s] = "sending"
  /\ loop' = "accept" /\ state' = [state EXCEPT ![c] = "left"]
  /\ copy' = [copy EXCEPT ![c][s] = "done"]
  /\ UNCHANGED <<caller, closer, linkVars, dataVars>>

TakenWithOther(c, s) ==   \* slip: the first copy to end stops the other
  /\ loop = "copy" /\ state[c] = "joined" /\ copy[c][s] = "sending"
  /\ loop' = "accept" /\ state' = [state EXCEPT ![c] = "left"]
  /\ copy' = [copy EXCEPT ![c] = [x \in Sides |-> "done"]]
  /\ UNCHANGED <<caller, closer, linkVars, dataVars>>

TakenBoth(c, s) ==   \* slip: the loop waits for both copies
  /\ loop = "copy" /\ state[c] = "joined"
  /\ \A x \in Sides : copy[c][x] = "sending"
  /\ loop' = "accept" /\ state' = [state EXCEPT ![c] = "left"]
  /\ copy' = [copy EXCEPT ![c][s] = "done"]
  /\ UNCHANGED <<caller, closer, linkVars, dataVars>>

CopyTaken(c, s) ==
  /\ loop = "copy" /\ state[c] = "joined" /\ copy[c][s] = "sending"
  /\ loop' = "accept" /\ state' = [state EXCEPT ![c] = "left"]
  /\ copy' = [copy EXCEPT ![c][s] = "done"]
  /\ UNCHANGED <<caller, closer, linkVars, dataVars>>

-----------------------------------------------------------------------------
(* The copying goroutine that reads from s: io.Copy, then chDone <- true.  *)
(* io.Copy goes on to the end of what s has sent, to a write error, or to  *)
(* the read error or end of file of a broken stream: what it has got of    *)
(* that stream is still written, the rest of what s sent is lost.          *)

CopyTwice(c, s) ==   \* slip: what has been copied is copied again
  /\ copy[c][s] = "copying" /\ sent[c][s] > 0 /\ ~Away(c, Other(s))
  /\ moved' = [moved EXCEPT ![c][s] = @ + 1]
  /\ UNCHANGED <<state, copy, goVars, linkVars, peer, sent>>

CopyIntoVoid(c, s) ==   \* slip: write errors are ignored
  /\ copy[c][s] = "copying" /\ moved[c][s] < sent[c][s]
  /\ moved' = [moved EXCEPT ![c][s] = @ + 1]
  /\ UNCHANGED <<state, copy, goVars, linkVars, peer, sent>>

Copy(c, s) ==
  /\ copy[c][s] = "copying" /\ moved[c][s] < sent[c][s] /\ ~Away(c, Other(s))
  /\ moved' = [moved EXCEPT ![c][s] = @ + 1]
  /\ UNCHANGED <<state, copy, goVars, linkVars, peer, sent>>

CopyCut(c, s) ==   \* slip: the copy ends with its source
  /\ copy[c][s] = "copying" /\ peer[c][s] # "open"
  /\ copy' = [copy EXCEPT ![c][s] = "sending"]
  /\ UNCHANGED <<state, goVars, linkVars, dataVars>>

CopyEnds(c, s) ==
  /\ copy[c][s] = "copying"
  /\ \/ moved[c][s] = sent[c][s] /\ peer[c][s] # "open"
     \/ moved[c][s] < sent[c][s] /\ Away(c, Other(s))
     \/ peer[c][s] = "lost"
  /\ copy' = [copy EXCEPT ![c][s] = "sending"]
  /\ UNCHANGED <<state, goVars, linkVars, dataVars>>

CopyStep(c, s) == Copy(c, s) \/ CopyEnds(c, s)

-----------------------------------------------------------------------------
(* The test, the two ends of each connection, and the network.             *)

Cancel ==
  /\ caller = "returned" /\ ~cancelled
  /\ cancelled' = TRUE
  /\ UNCHANGED <<reverse, ssh, lis, state, copy, goVars, dataVars>>

Connect(c) ==
  /\ lis = "open" /\ state[c] = "away"
  /\ state' = [state EXCEPT ![c] = "queued"]
  /\ UNCHANGED <<copy, goVars, linkVars, dataVars>>

(* A client may write and close as soon as it is connected, its target     *)
(* once it has been dialled.  The targets are servers, which only answer   *)
(* what they have got, and only clients close one direction.               *)
There(c, s) ==
  \/ state[c] \in {"joined", "left"}
  \/ s = "client" /\ state[c] \in {"queued", "taken", "orphan"}

Send(c, s) ==
  /\ There(c, s) /\ peer[c][s] = "open"
  /\ sent[c][s] < IF s = "client" THEN Bytes ELSE moved[c]["client"]
  /\ sent' = [sent EXCEPT ![c][s] = @ + 1]
  /\ UNCHANGED <<state, copy, goVars, linkVars, peer, moved>>

Shut(c) ==
  /\ There(c, "client") /\ peer[c]["client"] = "open"
  /\ peer' = [peer EXCEPT ![c]["client"] = "half"]
  /\ UNCHANGED <<state, copy, goVars, linkVars, sent, moved>>

(* An end closes in order, after what it has sent, or resets the           *)
(* connection, which differs where something is still on its way.          *)
Leave(c, s) ==
  /\ There(c, s) /\ ~Away(c, s)
  /\ \/ peer' = [peer EXCEPT ![c][s] = "gone"]
     \/ moved[c][s] < sent[c][s] /\ peer' = [peer EXCEPT ![c][s] = "lost"]
  /\ UNCHANGED <<state, copy, goVars, linkVars, sent, moved>>

(* The loss of the SSH connection, when it is noticed.  Every channel of   *)
(* it breaks, and with it what its end has sent and the channel has not    *)
(* brought; a remote listener is one of its channels too.                  *)
LoseSsh ==
  /\ ssh = "up" /\ ssh' = "lost"
  /\ peer' = [c \in Clients |->
       IF There(c, Tunnelled) THEN [peer[c] EXCEPT ![Tunnelled] = "lost"] ELSE peer[c]]
  /\ IF reverse /\ lis = "open" THEN Unlisten ELSE UNCHANGED <<lis, state>>
  /\ UNCHANGED <<reverse, cancelled, copy, goVars, sent, moved>>

-----------------------------------------------------------------------------
LoopStep == AcceptFails \/ \E c \in Clients :
  Accept(c) \/ DialTarget(c) \/ DialFails(c) \/ \E s \in Sides : CopyTaken(c, s)

Next ==
  \/ BuildClient \/ StartListening \/ CloseListener \/ LoopStep
  \/ \E c \in Clients, s \in Sides : CopyStep(c, s)
  \/ Cancel \/ LoseSsh
  \/ \E c \in Clients : Connect(c) \/ Shut(c)
  \/ \E c \in Clients, s \in Sides : Send(c, s) \/ Leave(c, s)

Spec == Init /\ [][Next]_vars

(* The Go scheduler runs every goroutine that can run.  The test, the      *)
(* clients, the targets and the network promise nothing.                   *)
FairSpec ==
  /\ Spec
  /\ WF_vars(CloseListener) /\ WF_vars(LoopStep)
  /\ \A c \in Clients, s \in Sides : WF_vars(CopyStep(c, s))

-----------------------------------------------------------------------------
(* One goroutine accepts, dials and waits, so at most one client is        *)
(* between accept and the end of a copy; a client it has left has exactly  *)
(* one copy's end taken, and nobody takes the other: that goroutine may be *)
(* stuck for ever, but no more than one for each connection.               *)
Coherent ==
  /\ caller = "returned" <=> loop # "none"
  /\ loop = "none" <=> lis = "none"
  /\ loop = "none" <=> closer = "none"
  /\ loop = "none" => \A c \in Clients : state[c] = "away"
  /\ \A c \in Clients : state[c] = "taken" => loop = "dial"
  /\ \A c \in Clients : state[c] = "joined" => loop = "copy"
  /\ \A c, d \in Clients : {state[c], state[d]} \subseteq {"taken", "joined"} => c = d

(* The result of every copy but the first of each connection is left in    *)
(* the channel: a connection the loop has left keeps at most one goroutine.*)
OneGoroutineLeft == \A c \in Clients :
  /\ state[c] = "joined" => \A s \in Sides : copy[c][s] \in {"copying", "sending"}
  /\ state[c] = "left" => \E s \in Sides :
       copy[c][s] = "done" /\ copy[c][Other(s)] \in {"copying", "sending"}
  /\ state[c] \notin {"joined", "left"} => \A s \in Sides : copy[c][s] = "none"

(* A direction is over only when all its source sent has been handed to    *)
(* the other end, that end has gone, or the source's own stream is broken  *)
(* (reset, or lost with SSH): leaving a connection, or closing one of its  *)
(* ends in order, cuts nothing off.                                        *)
EndsWhole == \A c \in Clients, s \in Sides :
  copy[c][s] \in {"sending", "done"} =>
    moved[c][s] = sent[c][s] \/ Away(c, Other(s)) \/ peer[c][s] = "lost"

(* The forwarder carries what it has joined as PortForward promises:       *)
(* nothing is made up, repeated or carried for a client nobody was dialled *)
(* for, or to an end that has gone; and what has been sent arrives while   *)
(* its reader is there and its source's stream whole, also after the loop  *)
(* has left the connection and serves somebody else.                       *)
PF == INSTANCE PortForward WITH
  carried <- {c \in Clients : state[c] \in {"joined", "left"}}
PortForwarded == PF!Spec
Delivers == PF!Fairness

(* What keeps the accepting goroutine is a connection both of whose ends   *)
(* are still there: one end that leaves, or a lost SSH connection, frees   *)
(* it.  So a client waits in the queue for ever only behind such a         *)
(* connection, or when the loop is over...                                 *)
Busy == \E c \in Clients : state[c] = "joined" /\ \A s \in Sides : peer[c][s] = "open"
QueueMoves == \A c \in Clients : []<>(state[c] # "queued" \/ loop = "ended" \/ Busy)

(* ...and a cancelled forwarder ends but for such a connection: the        *)
(* listener is closed, and nobody accepts.                                 *)
CancelEnds == []<>(cancelled => lis = "closed" /\ (loop = "ended" \/ Busy))
=============================================================================
