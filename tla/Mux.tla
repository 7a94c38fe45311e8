-------------------------------- MODULE Mux --------------------------------
(***************************************************************************)
(* The message multiplexer of Conn (spec section 4.4; conn.go is not part  *)
(* of src/, so every definition here is modelled from the spec).           *)
(*                                                                         *)
(* One transport carries the requests of several operations.  Each request *)
(* gets the next MessageID and a response queue registered under it.  The  *)
(* server answers every message with its own stream of PDUs and           *)
(* interleaves the streams of different messages on the wire in any order, *)
(* keeping each one in order.  A single reader goroutine takes PDUs off    *)
(* the wire one at a time and hands each to the queue of its MessageID.    *)
(* The hand-off is synchronous: the reader is blocked until the operation  *)
(* takes the PDU (spec 4.5, backpressure).  PDUs whose MessageID has no    *)
(* queue are dropped.  When the connection is closed (Close, or the        *)
(* transport failing) the reader stops, PDUs not yet read are lost, and    *)
(* every queue is closed, so that an operation waiting on one sees !ok.    *)
(*                                                                         *)
(* The operations themselves are defined by the modules that extend this   *)
(* one; they use AllocID, Submit, Holding, Take and QueueClosed.            *)
(***************************************************************************)
EXTENDS Naturals, Sequences

CONSTANTS
  Ops,      \* the operations issued on the connection
  MaxID     \* the largest MessageID the model hands out

ASSUME MaxID \in Nat \ {0}

IDs  == 1..MaxID

VARIABLES
  nextID,     \* Conn.MessageID: the next MessageID to hand out
  registered, \* MessageIDs that have a response queue (msgCtx map)
  srv,        \* srv[id]: PDUs the server has still to send for message id
  wire,       \* PDUs on the transport, in order, not yet read
  rd,         \* <<p>> while the reader hands PDU p over, else <<>>
  closed,     \* the connection is closed
  sent        \* history: the LDAPMessages written, in order

muxVars == <<nextID, registered, srv, wire, rd, closed, sent>>

\* The MessageID of an LDAPMessage: its first child (spec 3).
MsgID(msg) == msg[1].val

\* The PDUs of a sequence.
Pkts(s) == {s[i] : i \in DOMAIN s}

MuxTypeOK ==
  /\ nextID \in 1..(MaxID + 1)
  /\ registered \subseteq IDs
  /\ DOMAIN srv = IDs
  /\ \A p \in Pkts(wire) \cup Pkts(rd) \cup UNION {Pkts(srv[i]) : i \in IDs} :
        p.id \in IDs
  /\ Len(rd) <= 1
  /\ closed \in BOOLEAN
  /\ \A i \in DOMAIN sent : MsgID(sent[i]) \in IDs

MuxInit ==
  /\ nextID = 1
  /\ registered = {}
  /\ srv = [i \in IDs |-> <<>>]
  /\ wire = <<>>
  /\ rd = <<>>
  /\ closed = FALSE
  /\ sent = <<>>

-----------------------------------------------------------------------------
(* Steps of the server and of the reader goroutine.                        *)

\* The server writes the next PDU of message id to the transport.
ServerEmit(id) ==
  /\ ~closed
  /\ srv[id] # <<>>
  /\ wire' = Append(wire, Head(srv[id]))
  /\ srv' = [srv EXCEPT ![id] = Tail(@)]
  /\ UNCHANGED <<nextID, registered, rd, closed, sent>>

\* The reader reads one PDU: it holds it for the queue of its MessageID, or
\* drops it when no queue is registered under that MessageID.
ReaderRead ==
  /\ ~closed
  /\ rd = <<>>
  /\ wire # <<>>
  /\ wire' = Tail(wire)
  /\ rd' = IF Head(wire).id \in registered THEN <<Head(wire)>> ELSE <<>>
  /\ UNCHANGED <<nextID, registered, srv, closed, sent>>

\* Mutant: an in-flight hand-off survives Close.
CloseConnKeepsHandoff ==
  /\ ~closed
  /\ closed' = TRUE
  /\ wire' = <<>>
  /\ srv' = [i \in IDs |-> <<>>]
  /\ UNCHANGED <<nextID, registered, rd, sent>>

\* Close(), or the transport failing: the reader stops, PDUs still on the
\* wire are lost, and every response queue is closed.
CloseConn ==
  /\ ~closed
  /\ closed' = TRUE
  /\ wire' = <<>>
  /\ rd' = <<>>
  /\ srv' = [i \in IDs |-> <<>>]
  /\ UNCHANGED <<nextID, registered, sent>>

-----------------------------------------------------------------------------
(* What an operation does with the connection.                             *)

\* nextMessageID: take the next MessageID (under the connection's lock).
\* Taking it and sending the request are separate steps of the operation.
AllocID ==
  /\ nextID <= MaxID
  /\ nextID' = nextID + 1
  /\ UNCHANGED <<registered, srv, wire, rd, closed, sent>>

\* sendMessage on an open connection: register a queue for message id and
\* write the message msg; the server will answer with stream.
Submit(id, msg, stream) ==
  /\ ~closed
  /\ registered' = registered \cup {id}
  /\ srv' = [srv EXCEPT ![id] = stream]
  /\ sent' = Append(sent, msg)
  /\ UNCHANGED <<nextID, wire, rd, closed>>

\* The reader offers a PDU on the queue of message id.
Holding(id) == rd # <<>> /\ rd[1].id = id

\* The operation receives the offered PDU; the reader is free again.
Take(id) ==
  /\ Holding(id)
  /\ rd' = <<>>
  /\ UNCHANGED <<nextID, registered, srv, wire, closed, sent>>

\* The queue of message id has been closed by the connection.
QueueClosed(id) == closed /\ id \in registered

-----------------------------------------------------------------------------
(* Refinement of MuxAbstract.  The queue of a registered message is what    *)
(* its operation has still to receive: the PDU the reader holds for it,    *)
(* then its PDUs on the wire, then those the server has yet to send.       *)

QueueOf(id) ==
  IF id \in registered
  THEN (IF Holding(id) THEN rd ELSE <<>>)
       \o SelectSeq(wire, LAMBDA p : p.id = id)
       \o srv[id]
  ELSE <<>>

Abstract == INSTANCE MuxAbstract WITH queue <- [id \in IDs |-> QueueOf(id)]

\* The multiplexer implements one FIFO queue per MessageID: the reader's
\* demultiplexing of the shared wire, its hand-off, the dropping of PDUs
\* of finished messages and Close together behave as MuxAbstract's queues.
MuxRefinement == Abstract!ASpec

=============================================================================
