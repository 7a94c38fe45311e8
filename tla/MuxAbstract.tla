---------------------------- MODULE MuxAbstract ----------------------------
(***************************************************************************)
(* What the message multiplexer promises its operations (spec 4.4, 5):     *)
(* every message has its own FIFO queue of responses, holding them in the *)
(* order the server emitted them; an operation receives only from the      *)
(* queue of its own MessageID; Finish discards what the queue still holds; *)
(* Close discards every queue, after which nothing is received.  How one   *)
(* transport and one reader goroutine produce these queues is not said.    *)
(***************************************************************************)
EXTENDS Naturals, Sequences

CONSTANTS MaxID

IDs == 1..MaxID

VARIABLES
  nextID,      \* the next MessageID to hand out
  registered,  \* MessageIDs with a response queue
  queue,       \* queue[id]: responses message id has still to receive
  closed       \* the session is closed

avars == <<nextID, registered, queue, closed>>

\* Every response in s carries MessageID id.
AllFor(s, id) == \A i \in DOMAIN s : s[i].id = id

AInit ==
  /\ nextID = 1
  /\ registered = {}
  /\ queue = [id \in IDs |-> <<>>]
  /\ closed = FALSE

\* A fresh MessageID; none is handed out twice.
AAlloc ==
  /\ nextID <= MaxID
  /\ nextID' = nextID + 1
  /\ UNCHANGED <<registered, queue, closed>>

\* Submit on an open session, for an ID that was handed out and has no queue
\* yet: its queue will hold the whole response, whatever the server sends.
ASubmit(id) ==
  /\ ~closed
  /\ id < nextID
  /\ id \notin registered
  /\ registered' = registered \cup {id}
  /\ DOMAIN queue' = IDs
  /\ AllFor(queue'[id], id)
  /\ \A i \in IDs \ {id} : queue'[i] = queue[i]
  /\ UNCHANGED <<nextID, closed>>

\* The operation of message id receives the oldest response of its queue.
AReceive(id) ==
  /\ ~closed
  /\ id \in registered
  /\ queue[id] # <<>>
  /\ queue' = [queue EXCEPT ![id] = Tail(@)]
  /\ UNCHANGED <<nextID, registered, closed>>

\* Finish: the queue is removed with whatever it still holds.
AFinish(id) ==
  /\ id \in registered
  /\ registered' = registered \ {id}
  /\ queue' = [queue EXCEPT ![id] = <<>>]
  /\ UNCHANGED <<nextID, closed>>

\* Close: every queue is emptied and the session accepts nothing more.
AClose ==
  /\ ~closed
  /\ closed' = TRUE
  /\ queue' = [id \in IDs |-> <<>>]
  /\ UNCHANGED <<nextID, registered>>

ANext ==
  \/ AAlloc
  \/ AClose
  \/ \E id \in IDs : ASubmit(id) \/ AReceive(id) \/ AFinish(id)

ASpec == AInit /\ [][ANext]_avars

=============================================================================
