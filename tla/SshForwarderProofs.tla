--------------------------- MODULE SshForwarderProofs ---------------------------
(***************************************************************************)
(* Proofs about SshForwarder, for any set of clients and any amount sent.  *)
(***************************************************************************)
EXTENDS SshForwarder, TLAPS

(* A copy that is over has nothing more to carry: all was carried and its  *)
(* source will not write again, the reader has gone, or the source's       *)
(* stream is broken.                                                       *)
Ended == \A c \in Clients, s \in Sides : copy[c][s] \in {"sending", "done"} =>
  \/ moved[c][s] = sent[c][s] /\ peer[c][s] # "open"
  \/ Away(c, Other(s))
  \/ peer[c][s] = "lost"

(* The inductive invariant.                                                *)
IInv == TypeOK /\ Coherent /\ OneGoroutineLeft /\ Ended

USE DEF goVars, linkVars, dataVars, PeerStates, Away

LEMMA OtherSide ==
  ASSUME NEW s \in Sides
  PROVE  Other(s) \in Sides /\ Other(s) # s /\ Other(Other(s)) = s
BY DEF Other, Sides

LEMMA InitInv == Init => IInv
<1> SUFFICES ASSUME Init PROVE IInv
  OBVIOUS
<1>1. TypeOK
  <2>1. sent \in [Clients -> [Sides -> 0..Bytes]] /\ moved = sent
    BY BytesAssumption DEF Init
  <2>2. copy \in [Clients -> [Sides -> {"none", "copying", "sending", "done"}]]
    BY DEF Init
  <2>3. peer \in [Clients -> [Sides -> PeerStates]]
    BY DEF Init
  <2>4. QED
    BY <2>1, <2>2, <2>3 DEF Init, TypeOK, ClientStates
<1>2. Coherent /\ OneGoroutineLeft /\ Ended
  BY DEF Init, Coherent, OneGoroutineLeft, Ended
<1>3. QED
  BY <1>1, <1>2 DEF IInv

(* The steps of the caller and of the goroutine that closes the listener.  *)
LEMMA CallerInv ==
  ASSUME IInv, BuildClient \/ StartListening \/ CloseListener \/ Cancel
  PROVE  IInv'
<1> USE DEF IInv
<1>1. CASE BuildClient
  BY <1>1 DEF BuildClient, TypeOK, Coherent, OneGoroutineLeft, Ended
<1>2. CASE StartListening
  BY <1>2 DEF StartListening, TypeOK, Coherent, OneGoroutineLeft, Ended
<1>3. CASE CloseListener
  <2>1. TypeOK'
    BY <1>3 DEF CloseListener, Unlisten, TypeOK, ClientStates
  <2>2. Coherent'
    BY <1>3 DEF CloseListener, Unlisten, TypeOK, Coherent
  <2>3. OneGoroutineLeft' /\ Ended'
    BY <1>3 DEF CloseListener, Unlisten, TypeOK, OneGoroutineLeft, Ended
  <2>4. QED
    BY <2>1, <2>2, <2>3
<1>4. CASE Cancel
  BY <1>4 DEF Cancel, TypeOK, Coherent, OneGoroutineLeft, Ended
<1>5. QED
  BY <1>1, <1>2, <1>3, <1>4

(* The accepting goroutine.                                                *)
LEMMA LoopInv ==
  ASSUME IInv, LoopStep
  PROVE  IInv'
<1> USE DEF IInv, TypeOK, ClientStates
<1>1. CASE AcceptFails
  BY <1>1 DEF AcceptFails, Coherent, OneGoroutineLeft, Ended
<1>2. ASSUME NEW c \in Clients, Accept(c) PROVE IInv'
  BY <1>2 DEF Accept, Coherent, OneGoroutineLeft, Ended
<1>3. ASSUME NEW c \in Clients, DialTarget(c) PROVE IInv'
  BY <1>3 DEF DialTarget, Coherent, OneGoroutineLeft, Ended
<1>4. ASSUME NEW c \in Clients, DialFails(c) PROVE IInv'
  BY <1>4 DEF DialFails, Coherent, OneGoroutineLeft, Ended
<1>5. ASSUME NEW c \in Clients, NEW s \in Sides, CopyTaken(c, s) PROVE IInv'
  <2>1. TypeOK' /\ Coherent'
    BY <1>5 DEF CopyTaken, Coherent
  <2>2. copy'[c][s] = "done" /\ copy'[c][Other(s)] = copy[c][Other(s)]
    BY <1>5, OtherSide DEF CopyTaken
  <2>3. copy[c][Other(s)] \in {"copying", "sending"}
    BY <1>5, OtherSide DEF CopyTaken, OneGoroutineLeft
  <2>4. OneGoroutineLeft'
    BY <1>5, <2>2, <2>3, OtherSide DEF CopyTaken, OneGoroutineLeft
  <2>5. Ended'
    BY <1>5 DEF CopyTaken, Ended
  <2>6. QED
    BY <2>1, <2>4, <2>5
<1>6. QED
  BY <1>1, <1>2, <1>3, <1>4, <1>5 DEF LoopStep

(* The copying goroutines.                                                 *)
LEMMA CopyInv ==
  ASSUME IInv, NEW c \in Clients, NEW s \in Sides, CopyStep(c, s)
  PROVE  IInv'
<1> USE BytesAssumption DEF IInv, TypeOK
<1>1. CASE Copy(c, s)
  <2>1. TypeOK' /\ Coherent' /\ OneGoroutineLeft'
    BY <1>1 DEF Copy, Coherent, OneGoroutineLeft
  <2>2. Ended'
    BY <1>1 DEF Copy, Ended
  <2>3. QED
    BY <2>1, <2>2
<1>2. CASE CopyEnds(c, s)
  <2>1. TypeOK' /\ Coherent'
    BY <1>2 DEF CopyEnds, Coherent
  <2>2. OneGoroutineLeft'
    BY <1>2, OtherSide DEF CopyEnds, OneGoroutineLeft
  <2>3. Ended'
    BY <1>2 DEF CopyEnds, Ended
  <2>4. QED
    BY <2>1, <2>2, <2>3
<1>3. QED
  BY <1>1, <1>2 DEF CopyStep

(* The clients, the targets and the network.                               *)
LEMMA EndsInv ==
  ASSUME IInv,
         \/ LoseSsh
         \/ \E c \in Clients : Connect(c) \/ Shut(c)
         \/ \E c \in Clients, s \in Sides : Send(c, s) \/ Leave(c, s)
  PROVE  IInv'
<1> USE BytesAssumption DEF IInv, TypeOK, ClientStates
<1>1. CASE LoseSsh
  <2>1. /\ \A c \in Clients, s \in Sides : peer'[c][s] \in {peer[c][s], "lost"}
        /\ \A c \in Clients :
             state'[c] = state[c] \/ (state[c] = "queued" /\ state'[c] = "refused")
    BY <1>1 DEF LoseSsh, Unlisten, Sides, Tunnelled
  <2>2. peer' \in [Clients -> [Sides -> PeerStates]]
    BY <1>1 DEF LoseSsh, Sides, Tunnelled
  <2>3. TypeOK' /\ Coherent'
    BY <1>1, <2>2 DEF LoseSsh, Unlisten, Coherent
  <2>4. OneGoroutineLeft'
    BY <1>1, <2>1 DEF LoseSsh, OneGoroutineLeft
  <2>5. Ended'
    BY <1>1, <2>1, OtherSide DEF LoseSsh, Ended
  <2>6. QED
    BY <2>3, <2>4, <2>5
<1>2. ASSUME NEW c \in Clients, Connect(c) PROVE IInv'
  BY <1>2 DEF Connect, Coherent, OneGoroutineLeft, Ended
<1>3. ASSUME NEW c \in Clients, NEW s \in Sides, Send(c, s) PROVE IInv'
  <2>1. sent' = [sent EXCEPT ![c][s] = @ + 1] /\ sent'[c][s] \in 0..Bytes
    BY <1>3 DEF Send, Sides
  <2>2. TypeOK' /\ Coherent' /\ OneGoroutineLeft'
    BY <1>3, <2>1 DEF Send, Coherent, OneGoroutineLeft
  <2>3. Ended'
    BY <1>3, <2>1 DEF Send, Ended
  <2>4. QED
    BY <2>2, <2>3
<1>4. ASSUME NEW c \in Clients, Shut(c) PROVE IInv'
  <2>1. TypeOK' /\ Coherent' /\ OneGoroutineLeft'
    BY <1>4 DEF Shut, Coherent, OneGoroutineLeft, Sides
  <2>2. Ended'
    BY <1>4, OtherSide DEF Shut, Ended, Sides
  <2>3. QED
    BY <2>1, <2>2
<1>5. ASSUME NEW c \in Clients, NEW s \in Sides, Leave(c, s) PROVE IInv'
  <2> PICK p \in {"gone", "lost"} : peer' = [peer EXCEPT ![c][s] = p]
    BY <1>5 DEF Leave
  <2>1. TypeOK' /\ Coherent' /\ OneGoroutineLeft'
    BY <1>5 DEF Leave, Coherent, OneGoroutineLeft
  <2>2. Ended'
    BY <1>5, OtherSide DEF Leave, Ended
  <2>3. QED
    BY <2>1, <2>2
<1>6. QED
  BY <1>1, <1>2, <1>3, <1>4, <1>5

(* IInv holds in every reachable state: one goroutine serves one client at *)
(* a time, and what each copying goroutine has done when it is over.       *)
THEOREM Invariance == Spec => []IInv
<1>1. IInv /\ [Next]_vars => IInv'
  <2> SUFFICES ASSUME IInv, [Next]_vars PROVE IInv'
    OBVIOUS
  <2>1. CASE UNCHANGED vars
    BY <2>1 DEF vars, IInv, TypeOK, Coherent, OneGoroutineLeft, Ended
  <2>2. CASE Next
    BY <2>2, CallerInv, LoopInv, CopyInv, EndsInv DEF Next
  <2>3. QED
    BY <2>1, <2>2
<1>2. QED
  BY InitInv, <1>1, PTL DEF Spec

(* The types, for every set of clients.                                    *)
THEOREM TypeCorrect == Spec => []TypeOK
BY Invariance, PTL DEF IInv

(* The accept loop serves one client at a time, and every goroutine runs   *)
(* exactly when the function that starts it has returned without an error. *)
THEOREM OneAtATime == Spec => []Coherent
BY Invariance, PTL DEF IInv

(* copyConnections reads its channel once: a connection the loop has left  *)
(* keeps exactly one copying goroutine, for ever or until both ends go.    *)
THEOREM GoroutineTheorem == Spec => []OneGoroutineLeft
BY Invariance, PTL DEF IInv

(* No copy ends early: all that was sent has been handed on, nobody reads, *)
(* or the stream it came from is broken.                                   *)
THEOREM NothingCutOff == Spec => []EndsWhole
<1>1. IInv => EndsWhole
  BY DEF IInv, Ended, EndsWhole
<1>2. QED
  BY Invariance, <1>1, PTL

-----------------------------------------------------------------------------
(* Every step is a step of PortForward or leaves its variables alone.      *)
USE DEF PF!Sides, PF!Other, PF!PeerStates, PF!Away

LEMMA StepRefines ==
  ASSUME IInv, Next
  PROVE  PF!Next \/ UNCHANGED PF!vars
<1> USE DEF IInv
<1>1. CASE BuildClient \/ StartListening \/ CloseListener \/ Cancel
  BY <1>1 DEF BuildClient, StartListening, CloseListener, Unlisten, Cancel, PF!vars, TypeOK
<1>2. CASE LoopStep
  <2>1. CASE AcceptFails
    BY <2>1 DEF AcceptFails, PF!vars
  <2>2. ASSUME NEW c \in Clients, Accept(c) \/ DialFails(c) PROVE UNCHANGED PF!vars
    BY <2>2 DEF Accept, DialFails, PF!vars, TypeOK
  <2>3. ASSUME NEW c \in Clients, DialTarget(c) PROVE PF!Join(c)
    BY <2>3 DEF DialTarget, PF!Join, TypeOK
  <2>4. ASSUME NEW c \in Clients, NEW s \in Sides, CopyTaken(c, s) PROVE UNCHANGED PF!vars
    BY <2>4 DEF CopyTaken, PF!vars, TypeOK
  <2>5. QED
    BY <1>2, <2>1, <2>2, <2>3, <2>4 DEF LoopStep, PF!Next
<1>3. ASSUME NEW c \in Clients, NEW s \in Sides, CopyStep(c, s)
      PROVE  PF!Deliver(c, s) \/ UNCHANGED PF!vars
  <2>1. CASE Copy(c, s)
    <3>1. state[c] \in {"joined", "left"}
      BY <2>1 DEF Copy, OneGoroutineLeft
    <3>2. QED
      BY <2>1, <3>1 DEF Copy, PF!Deliver, Other
  <2>2. CASE CopyEnds(c, s)
    BY <2>2 DEF CopyEnds, PF!vars
  <2>3. QED
    BY <1>3, <2>1, <2>2 DEF CopyStep
<1>4. CASE LoseSsh
  <2>1. \A c \in Clients, s \in Sides : peer'[c][s] \in {peer[c][s], "lost"}
    BY <1>4 DEF LoseSsh, TypeOK, Sides, Tunnelled
  <2>2. peer' \in [Clients -> [Sides -> PeerStates]]
    BY <1>4 DEF LoseSsh, TypeOK, Sides, Tunnelled
  <2>3. UNCHANGED {c \in Clients : state[c] \in {"joined", "left"}}
    BY <1>4 DEF LoseSsh, Unlisten, TypeOK
  <2>4. PF!Close
    BY <1>4, <2>1, <2>2, <2>3 DEF LoseSsh, PF!Close, Sides
  <2>5. QED
    BY <2>4 DEF PF!Next
<1>5. ASSUME NEW c \in Clients, Connect(c) PROVE UNCHANGED PF!vars
  BY <1>5 DEF Connect, PF!vars, TypeOK
<1>6. ASSUME NEW c \in Clients, Shut(c) PROVE PF!Close
  <2>1. peer' \in [Clients -> [Sides -> PeerStates]]
    BY <1>6 DEF Shut, TypeOK, Sides
  <2>2. QED
    BY <1>6, <2>1 DEF Shut, PF!Close, TypeOK, Sides
<1>7. ASSUME NEW c \in Clients, NEW s \in Sides, Send(c, s) PROVE PF!Send(c, s)
  BY <1>7, BytesAssumption DEF Send, PF!Send, TypeOK, Sides
<1>8. ASSUME NEW c \in Clients, NEW s \in Sides, Leave(c, s) PROVE PF!Close
  <2> PICK p \in {"gone", "lost"} : peer' = [peer EXCEPT ![c][s] = p]
    BY <1>8 DEF Leave
  <2>1. peer' \in [Clients -> [Sides -> PeerStates]]
    BY <1>8 DEF Leave, TypeOK
  <2>2. QED
    BY <1>8, <2>1 DEF Leave, PF!Close, TypeOK, Sides
<1>9. QED
  BY <1>1, <1>2, <1>3, <1>4, <1>5, <1>6, <1>7, <1>8 DEF Next, PF!Next, Sides

(* Whatever is dialled, lost, cancelled or left, the forwarder carries the *)
(* connections it has joined, and nothing else, as PortForward says.       *)
THEOREM Refinement == Spec => PortForwarded
<1>1. Init => PF!Init
  BY DEF Init, PF!Init, Sides
<1>2. IInv /\ [Next]_vars => [PF!Next]_PF!vars
  BY StepRefines DEF vars, PF!vars
<1>3. QED
  BY Invariance, <1>1, <1>2, PTL DEF Spec, PortForwarded, PF!Spec

-----------------------------------------------------------------------------
(* What has moved, from end to end: an answer that has arrived was sent,   *)
(* what was sent as an answer has a request that has arrived, and that was *)
(* sent; and nothing moves before the target has been dialled.             *)
Flow(c) ==
  /\ moved[c]["target"] <= sent[c]["target"] /\ sent[c]["target"] <= moved[c]["client"]
  /\ moved[c]["client"] <= sent[c]["client"]
  /\ state[c] \notin {"joined", "left"} => moved[c]["client"] = 0
NothingMadeUp == \A c \in Clients : Flow(c)

LEMMA FlowStep == IInv /\ NothingMadeUp /\ [Next]_vars => NothingMadeUp'
<1> SUFFICES ASSUME IInv, NothingMadeUp, [Next]_vars, NEW c \in Clients PROVE Flow(c)'
  BY DEF NothingMadeUp
<1> USE DEF IInv, TypeOK
<1>1. Flow(c)
  BY DEF NothingMadeUp
<1>2. CASE UNCHANGED <<sent, moved>> /\ (state[c] \in {"joined", "left"} => state'[c] \in {"joined", "left"})
  BY <1>1, <1>2 DEF Flow
<1>3. CASE BuildClient \/ StartListening \/ CloseListener \/ Cancel \/ LoseSsh \/ UNCHANGED vars
  BY <1>2, <1>3 DEF BuildClient, StartListening, CloseListener, Unlisten, Cancel, LoseSsh, vars
<1>4. CASE LoopStep
  BY <1>2, <1>4 DEF LoopStep, AcceptFails, Accept, DialTarget, DialFails, CopyTaken
<1>5. ASSUME NEW d \in Clients, NEW s \in Sides, CopyStep(d, s) PROVE Flow(c)'
  <2>1. CASE CopyEnds(d, s)
    BY <1>2, <2>1 DEF CopyEnds
  <2>2. CASE Copy(d, s)
    <3>1. state[d] \in {"joined", "left"} /\ moved[d][s] < sent[d][s]
            /\ UNCHANGED <<state, sent>> /\ moved' = [moved EXCEPT ![d][s] = @ + 1]
      BY <2>2 DEF Copy, OneGoroutineLeft
    <3>2. moved[c]["client"] \in Nat /\ moved[c]["target"] \in Nat
            /\ sent[c]["client"] \in Nat /\ sent[c]["target"] \in Nat
      BY BytesAssumption DEF Sides
    <3>3. QED
      BY <1>1, <3>1, <3>2 DEF Flow, Sides
  <2>3. QED
    BY <1>5, <2>1, <2>2 DEF CopyStep
<1>6. ASSUME NEW d \in Clients, NEW s \in Sides, Send(d, s) PROVE Flow(c)'
  <2>1. moved[c]["client"] \in Nat /\ moved[c]["target"] \in Nat
          /\ sent[c]["client"] \in Nat /\ sent[c]["target"] \in Nat
    BY BytesAssumption DEF Sides
  <2>2. QED
    BY <1>1, <1>6, <2>1 DEF Send, Flow, Sides
<1>7. ASSUME NEW d \in Clients, Connect(d) \/ Shut(d) \/ \E s \in Sides : Leave(d, s)
      PROVE  Flow(c)'
  BY <1>2, <1>7 DEF Connect, Shut, Leave
<1>8. QED
  BY <1>3, <1>4, <1>5, <1>6, <1>7 DEF Next

(* No byte arrives that was not sent, before its target was dialled, or in *)
(* answer to one that has not arrived (io.Copy in both directions).        *)
THEOREM FlowTheorem == Spec => []NothingMadeUp
<1>1. Init => NothingMadeUp
  <2> SUFFICES ASSUME Init, NEW c \in Clients PROVE Flow(c)
    BY DEF NothingMadeUp
  <2>1. \A s \in Sides : sent[c][s] = 0 /\ moved[c][s] = 0
    BY DEF Init
  <2>2. QED
    BY <2>1 DEF Flow, Sides
<1>2. QED
  BY <1>1, FlowStep, Invariance, PTL DEF Spec

-----------------------------------------------------------------------------
(* Who waits for whom.  A copy that is not over can go on when there is    *)
(* something to carry, or nothing to wait for.                             *)
CanCopy(c, s) ==
  copy[c][s] = "copying" /\ (moved[c][s] < sent[c][s] \/ peer[c][s] # "open")

(* The listener and the context, and those they let go.                    *)
Released ==
  /\ lis # "open" => \A c \in Clients : state[c] # "queued"
  /\ cancelled => closer # "none"
  /\ closer = "done" => lis = "closed"

(* The accepting goroutine has a client to dial for, or to wait for.       *)
Serving ==
  /\ loop = "dial" => \E c \in Clients : state[c] = "taken"
  /\ loop = "copy" => \E c \in Clients : state[c] = "joined"

LEMMA ReleasedStep == IInv /\ Released /\ [Next]_vars => Released'
<1> SUFFICES ASSUME IInv, Released, [Next]_vars PROVE Released'
  OBVIOUS
<1> USE DEF IInv, TypeOK, Released
<1>1. CASE BuildClient \/ StartListening \/ Cancel \/ UNCHANGED vars
  BY <1>1 DEF BuildClient, StartListening, Cancel, Coherent, vars
<1>2. CASE CloseListener \/ LoseSsh
  BY <1>2 DEF CloseListener, LoseSsh, Unlisten
<1>3. CASE LoopStep
  BY <1>3 DEF LoopStep, AcceptFails, Accept, DialTarget, DialFails, CopyTaken
<1>4. CASE \E c \in Clients, s \in Sides : CopyStep(c, s) \/ Send(c, s) \/ Leave(c, s)
  BY <1>4 DEF CopyStep, Copy, CopyEnds, Send, Leave
<1>5. CASE \E c \in Clients : Connect(c) \/ Shut(c)
  BY <1>5 DEF Connect, Shut
<1>6. QED
  BY <1>1, <1>2, <1>3, <1>4, <1>5 DEF Next

LEMMA ServingStep == IInv /\ Serving /\ [Next]_vars => Serving'
<1> SUFFICES ASSUME IInv, Serving, [Next]_vars PROVE Serving'
  OBVIOUS
<1> USE DEF IInv, TypeOK, Serving
<1>1. CASE BuildClient \/ StartListening \/ Cancel \/ UNCHANGED vars
  BY <1>1 DEF BuildClient, StartListening, Cancel, vars
<1>2. CASE CloseListener \/ LoseSsh
  BY <1>2 DEF CloseListener, LoseSsh, Unlisten
<1>3. CASE LoopStep
  BY <1>3 DEF LoopStep, AcceptFails, Accept, DialTarget, DialFails, CopyTaken
<1>4. CASE \E c \in Clients, s \in Sides : CopyStep(c, s) \/ Send(c, s) \/ Leave(c, s)
  BY <1>4 DEF CopyStep, Copy, CopyEnds, Send, Leave
<1>5. CASE \E c \in Clients : Connect(c) \/ Shut(c)
  BY <1>5 DEF Connect, Shut
<1>6. QED
  BY <1>1, <1>2, <1>3, <1>4, <1>5 DEF Next

(* Nobody waits in vain: no client in the queue of a listener that is      *)
(* gone, no goroutine for a context nobody watches, and the accepting      *)
(* goroutine for a copy only while both ends keep the connection, or that  *)
(* copy can go on or is over.  With fairness, QueueMoves and CancelEnds.   *)
NoVainWait ==
  /\ Released
  /\ loop = "dial" => \E c \in Clients : state[c] = "taken"
  /\ loop = "copy" => Busy \/ \E c \in Clients : state[c] = "joined" /\
       \E s \in Sides : copy[c][s] = "sending" \/ CanCopy(c, s)
THEOREM WaitTheorem == Spec => []NoVainWait
<1>1. Init => Released /\ Serving
  BY DEF Init, Released, Serving
<1>2. IInv /\ Released /\ Serving => NoVainWait
  <2> SUFFICES ASSUME IInv, Released, Serving, loop = "copy", ~Busy
               PROVE  \E c \in Clients : state[c] = "joined" /\
                        \E s \in Sides : copy[c][s] = "sending" \/ CanCopy(c, s)
    BY DEF NoVainWait, Serving
  <2>1. PICK c \in Clients : state[c] = "joined"
    BY DEF Serving
  <2>2. PICK s \in Sides : peer[c][s] # "open"
    BY <2>1 DEF Busy
  <2>3. copy[c][s] \in {"copying", "sending"}
    BY <2>1 DEF IInv, OneGoroutineLeft
  <2>4. QED
    BY <2>1, <2>2, <2>3 DEF CanCopy
<1>3. QED
  BY <1>1, <1>2, ReleasedStep, ServingStep, Invariance, PTL DEF Spec
=============================================================================
