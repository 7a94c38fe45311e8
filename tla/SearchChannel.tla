--------------------------- MODULE SearchChannel ---------------------------
(***************************************************************************)
(* Conn.SearchWithChannel (src/v3/search.go 524-611) run by several        *)
(* operations at once on one connection (Mux), each with the consumer      *)
(* goroutine the application ranges over its channel with, as in          *)
(* ExampleConn_SearchWithChannel (src/v3/examples_test.go 53-89).          *)
(*                                                                         *)
(* The channel is unbuffered: `ch <- r` completes only when the consumer   *)
(* takes r.  The server answers operation o's request with K results       *)
(* (positions in RefPos are SearchResultReferences, the others entries)    *)
(* and a SearchResultDone that is a success, a success carrying controls,  *)
(* or an error result.  A result value is [op, k]; k = 0 is the record of  *)
(* the Done's controls.                                                    *)
(***************************************************************************)
EXTENDS Mux, SearchRequest, SequencesExt

CONSTANTS
  K,                 \* results per search
  RefPos,            \* positions of the results that are referrals
  ConsumersMayQuit,  \* may a consumer stop ranging over its channel?
  Requests           \* the SearchRequests the application may issue

ASSUME /\ K \in Nat
       /\ RefPos \subseteq 1..K
       /\ ConsumersMayQuit \in BOOLEAN
       /\ MaxID >= Cardinality(Ops)

Val(o, k) == [op |-> o, k |-> k]
Outcomes  == {"success", "controls", "error"}

\* The PDUs the server sends for operation o's request with MessageID id.
Stream(o, id, outcome) ==
  [i \in 1..K |-> [id |-> id, kind |-> IF i \in RefPos THEN "ref" ELSE "entry",
                   val |-> Val(o, i), code |-> "none"]]
  \o <<[id |-> id, kind |-> "done", val |-> Val(o, 0), code |-> outcome]>>

\* What o's consumer should receive: the results, then the controls record.
Expected(o, outcome) ==
  [i \in 1..K |-> Val(o, i)]
  \o (IF outcome = "controls" THEN <<Val(o, 0)>> ELSE <<>>)

VARIABLES
  pc,        \* pc[o]: "start", "send", "recv", "push", "done"
  mid,       \* mid[o]: the MessageID of o's request, 0 before it has one
  outcome,   \* outcome[o]: how the server ends o's search
  pending,   \* pending[o]: <<r>> while o is blocked in ch <- r
  final,     \* final[o]: the pending record is the Done's controls record
  failed,    \* failed[o]: SearchWithChannel returned an error
  chClosed,  \* chClosed[o]: close(ch) has run
  got,       \* got[o]: what o's consumer has received (Search: its result), in order
  cons,      \* cons[o]: "reading", "quit" (stopped ranging), "done"
  searchOps, \* the operations that call Search instead of SearchWithChannel
  req,       \* req[o]: the *SearchRequest o was called with
  msg        \* msg[o]: the children of o's request packet, as appendTo left them

opVars == <<pc, mid, outcome, pending, final, failed, chClosed, got, cons, searchOps, req, msg>>
vars == <<muxVars, opVars>>

TypeOK ==
  /\ MuxTypeOK
  /\ pc \in [Ops -> {"start", "send", "recv", "push", "done"}]
  /\ mid \in [Ops -> 0..MaxID]
  /\ outcome \in [Ops -> Outcomes]
  /\ \A o \in Ops : pending[o] \in Seq([op : Ops, k : 0..K]) /\ Len(pending[o]) <= 1
  /\ final \in [Ops -> BOOLEAN]
  /\ failed \in [Ops -> BOOLEAN]
  /\ chClosed \in [Ops -> BOOLEAN]
  /\ got \in [Ops -> Seq([op : Ops, k : 0..K])]
  /\ cons \in [Ops -> {"reading", "quit", "done"}]
  /\ searchOps \subseteq Ops
  /\ req \in [Ops -> Requests]
  /\ DOMAIN msg = Ops

-----------------------------------------------------------------------------
(* SearchWithChannel.                                                      *)

\* SearchWithChannel returns: the deferred finishMessage, then the deferred
\* close(ch).
Return(o, err) ==
  /\ registered' = registered \ {mid[o]}
  /\ pc' = [pc EXCEPT ![o] = "done"]
  /\ failed' = [failed EXCEPT ![o] = err]
  /\ chClosed' = [chClosed EXCEPT ![o] = TRUE]

\* Mutant: the operation keeps the counter after the increment.
StartPreIncrement(o) ==
  /\ pc[o] = "start"
  /\ AllocID
  /\ mid' = [mid EXCEPT ![o] = nextID + 1]
  /\ msg' = [msg EXCEPT ![o] = AppendTo(<<MessageIDPacket(nextID + 1)>>, req[o]).env]
  /\ pc' = [pc EXCEPT ![o] = "send"]
  /\ UNCHANGED <<outcome, pending, final, got, cons, failed, chClosed, searchOps, req>>

\* The request packet gets l.nextMessageID(); searchRequest.appendTo adds
\* the request, and a filter that does not compile ends the call with an
\* error.
Start(o) ==
  /\ pc[o] = "start"
  /\ AllocID
  /\ mid' = [mid EXCEPT ![o] = nextID]
  /\ LET r == AppendTo(<<MessageIDPacket(nextID)>>, req[o]) IN
       /\ msg' = [msg EXCEPT ![o] = r.env]
       /\ \/ /\ ~r.err
             /\ pc' = [pc EXCEPT ![o] = "send"]
             /\ UNCHANGED <<failed, chClosed>>
          \/ /\ r.err
             /\ pc' = [pc EXCEPT ![o] = "done"]
             /\ failed' = [failed EXCEPT ![o] = TRUE]
             /\ chClosed' = [chClosed EXCEPT ![o] = TRUE]
  /\ UNCHANGED <<outcome, pending, final, got, cons, searchOps, req>>

\* l.sendMessage(packet): fails on a closed connection, else the request is
\* written and the server will answer it.
Send(o) ==
  /\ pc[o] = "send"
  /\ \/ /\ closed
        /\ pc' = [pc EXCEPT ![o] = "done"]
        /\ failed' = [failed EXCEPT ![o] = TRUE]
        /\ chClosed' = [chClosed EXCEPT ![o] = TRUE]
        /\ UNCHANGED <<muxVars, outcome>>
     \/ \E oc \in Outcomes :
          /\ Submit(mid[o], msg[o], Stream(o, mid[o], oc))
          /\ outcome' = [outcome EXCEPT ![o] = oc]
          /\ pc' = [pc EXCEPT ![o] = "recv"]
          /\ UNCHANGED <<failed, chClosed>>
  /\ UNCHANGED <<mid, pending, final, got, cons, searchOps, req, msg>>

\* Mutant: one response channel shared by all operations.
RecvResultShared(o) ==
  /\ pc[o] = "recv"
  /\ rd # <<>>
  /\ rd[1].kind \in {"entry", "ref"}
  /\ rd' = <<>>
  /\ pending' = [pending EXCEPT ![o] = <<rd[1].val>>]
  /\ final' = [final EXCEPT ![o] = FALSE]
  /\ pc' = [pc EXCEPT ![o] = "push"]
  /\ UNCHANGED <<nextID, registered, srv, wire, closed, sent>>
  /\ UNCHANGED <<mid, outcome, failed, chClosed, got, cons, searchOps, req, msg>>

\* <-msgCtx.responses yields a SearchResultEntry or SearchResultReference:
\* the call blocks in ch <- &SearchResult{...}.
RecvResult(o) ==
  /\ o \notin searchOps
  /\ pc[o] = "recv"
  /\ Holding(mid[o])
  /\ rd[1].kind \in {"entry", "ref"}
  /\ Take(mid[o])
  /\ pending' = [pending EXCEPT ![o] = <<rd[1].val>>]
  /\ final' = [final EXCEPT ![o] = FALSE]
  /\ pc' = [pc EXCEPT ![o] = "push"]
  /\ UNCHANGED <<mid, outcome, failed, chClosed, got, cons, searchOps, req, msg>>

\* Mutant: the Done's controls are not passed on (no len(Children) == 3 case).
RecvDoneNoControls(o) ==
  /\ pc[o] = "recv"
  /\ Holding(mid[o])
  /\ rd[1].kind = "done"
  /\ rd' = <<>>
  /\ Return(o, rd[1].code = "error")
  /\ UNCHANGED <<pending, final>>
  /\ UNCHANGED <<nextID, srv, wire, closed, sent, mid, outcome, got, cons, searchOps, req, msg>>

\* The SearchResultDone: an error result returns it; with controls
\* (len(packet.Children) == 3) the controls record is sent on ch first;
\* otherwise the loop ends and the call returns nil.
RecvDone(o) ==
  /\ o \notin searchOps
  /\ pc[o] = "recv"
  /\ Holding(mid[o])
  /\ rd[1].kind = "done"
  /\ \/ /\ rd[1].code = "error"
        /\ rd' = <<>>
        /\ Return(o, TRUE)
        /\ UNCHANGED <<pending, final>>
     \/ /\ rd[1].code = "controls"
        /\ Take(mid[o])
        /\ pending' = [pending EXCEPT ![o] = <<rd[1].val>>]
        /\ final' = [final EXCEPT ![o] = TRUE]
        /\ pc' = [pc EXCEPT ![o] = "push"]
        /\ UNCHANGED <<failed, chClosed>>
     \/ /\ rd[1].code = "success"
        /\ rd' = <<>>
        /\ Return(o, FALSE)
        /\ UNCHANGED <<pending, final>>
  /\ UNCHANGED <<nextID, srv, wire, closed, sent, mid, outcome, got, cons, searchOps, req, msg>>

\* The response queue was closed under the call: "response channel closed".
RecvClosed(o) ==
  /\ pc[o] = "recv"
  /\ QueueClosed(mid[o])
  /\ Return(o, TRUE)
  /\ UNCHANGED <<nextID, srv, wire, rd, closed, sent>>
  /\ UNCHANGED <<mid, outcome, pending, final, got, cons, searchOps, req, msg>>

\* Mutant: after the controls record the loop goes on reading.
PushedNoExit(o) ==
  /\ pc[o] = "push"
  /\ pending[o] = <<>>
  /\ pc' = [pc EXCEPT ![o] = "recv"]
  /\ UNCHANGED <<muxVars, failed, chClosed>>
  /\ UNCHANGED <<mid, outcome, pending, final, got, cons, searchOps, req, msg>>

\* The consumer has taken the pending record: loop again, or, after the
\* controls record, leave the loop and return nil.
Pushed(o) ==
  /\ pc[o] = "push"
  /\ pending[o] = <<>>
  /\ IF final[o]
     THEN /\ Return(o, FALSE)
          /\ UNCHANGED <<nextID, srv, wire, rd, closed, sent>>
     ELSE /\ pc' = [pc EXCEPT ![o] = "recv"]
          /\ UNCHANGED <<muxVars, failed, chClosed>>
  /\ UNCHANGED <<mid, outcome, pending, final, got, cons, searchOps, req, msg>>

-----------------------------------------------------------------------------
(* Search (search.go 477-522) on the same connection: doRequest takes the  *)
(* MessageID and sends as Start and Send do; the read loop appends to its  *)
(* own result (got) and returns it on the Done, or on the closed queue     *)
(* (RecvClosed).  chClosed then means that the result has been returned.   *)

\* case 4 and case 19: append the entry or the referral to the result.
SearchRecvResult(o) ==
  /\ o \in searchOps
  /\ pc[o] = "recv"
  /\ Holding(mid[o])
  /\ rd[1].kind \in {"entry", "ref"}
  /\ Take(mid[o])
  /\ got' = [got EXCEPT ![o] = Append(@, rd[1].val)]
  /\ UNCHANGED <<pc, mid, outcome, pending, final, failed, chClosed, cons, searchOps, req, msg>>

\* case 5: an error result returns the partial result with the error; else
\* the controls are appended and the result returned.
SearchRecvDone(o) ==
  /\ o \in searchOps
  /\ pc[o] = "recv"
  /\ Holding(mid[o])
  /\ rd[1].kind = "done"
  /\ rd' = <<>>
  /\ got' = [got EXCEPT ![o] = IF rd[1].code = "controls" THEN Append(@, rd[1].val) ELSE @]
  /\ Return(o, rd[1].code = "error")
  /\ UNCHANGED <<nextID, srv, wire, closed, sent, mid, outcome, pending, final, cons, searchOps, req, msg>>

-----------------------------------------------------------------------------
(* The consumer goroutine: for res := range ch { ... }.                    *)

ConsumerRecv(o) ==
  /\ cons[o] = "reading"
  /\ pending[o] # <<>>
  /\ got' = [got EXCEPT ![o] = got[o] \o pending[o]]
  /\ pending' = [pending EXCEPT ![o] = <<>>]
  /\ UNCHANGED <<muxVars, pc, mid, outcome, final, failed, chClosed, cons, searchOps, req, msg>>

ConsumerClose(o) ==
  /\ cons[o] = "reading"
  /\ chClosed[o]
  /\ cons' = [cons EXCEPT ![o] = "done"]
  /\ UNCHANGED <<muxVars, pc, mid, outcome, pending, final, failed, chClosed, got, searchOps, req, msg>>

\* The consumer leaves the range loop early (e.g. it found what it needed).
ConsumerQuit(o) ==
  /\ ConsumersMayQuit
  /\ cons[o] = "reading"
  /\ cons' = [cons EXCEPT ![o] = "quit"]
  /\ UNCHANGED <<muxVars, pc, mid, outcome, pending, final, failed, chClosed, got, searchOps, req, msg>>

-----------------------------------------------------------------------------

Init ==
  /\ MuxInit
  /\ pc = [o \in Ops |-> "start"]
  /\ mid = [o \in Ops |-> 0]
  /\ outcome = [o \in Ops |-> "success"]
  /\ pending = [o \in Ops |-> <<>>]
  /\ final = [o \in Ops |-> FALSE]
  /\ failed = [o \in Ops |-> FALSE]
  /\ chClosed = [o \in Ops |-> FALSE]
  /\ got = [o \in Ops |-> <<>>]
  /\ searchOps \in SUBSET Ops
  /\ req \in [Ops -> Requests]
  /\ msg = [o \in Ops |-> <<>>]
  /\ cons = [o \in Ops |-> IF o \in searchOps THEN "done" ELSE "reading"]

OpStep(o) ==
  \/ Start(o) \/ Send(o) \/ RecvResult(o) \/ RecvDone(o) \/ RecvClosed(o)
  \/ Pushed(o) \/ SearchRecvResult(o) \/ SearchRecvDone(o)

\* The connection's own steps leave the operations alone.
Reader       == ReaderRead /\ UNCHANGED opVars
Server(id)   == ServerEmit(id) /\ UNCHANGED opVars
Close        == CloseConn /\ UNCHANGED opVars

Next ==
  \/ Reader
  \/ \E id \in IDs : Server(id)
  \/ Close
  \/ \E o \in Ops : OpStep(o)
  \/ \E o \in Ops : ConsumerRecv(o) \/ ConsumerClose(o) \/ ConsumerQuit(o)

\* Goroutines that can run eventually do: every operation, the reader, the
\* server answering, and the consumers that are still ranging.  Closing the
\* connection and quitting a consumer are choices nobody has to make.
Fairness ==
  /\ WF_vars(Reader)
  /\ \A id \in IDs : WF_vars(Server(id))
  /\ \A o \in Ops : WF_vars(OpStep(o))
  /\ \A o \in Ops : WF_vars(ConsumerRecv(o)) /\ WF_vars(ConsumerClose(o))

Spec == Init /\ [][Next]_vars /\ Fairness

-----------------------------------------------------------------------------
(* Properties.                                                             *)

\* Each consumer (or buffered Search result) receives only its own search's
\* results, each once, in the order the server sent them, although all
\* searches share one wire and one reader.
OwnResultsInOrder ==
  \A o \in Ops : IsPrefix(got[o], Expected(o, outcome[o]))

\* When SearchWithChannel returns nil, its consumer has received every
\* result and the controls record, and the channel is closed; when Search
\* returns a nil error, its result holds every entry, referral and control.
CompleteOnSuccess ==
  \A o \in Ops : pc[o] = "done" /\ ~failed[o] =>
      /\ got[o] = Expected(o, outcome[o])
      /\ chClosed[o]

\* With consumers that keep reading, every SearchWithChannel call returns
\* and its consumer's range loop ends, and every Search call returns.
SearchesTerminate ==
  \A o \in Ops : <>(pc[o] = "done" /\ cons[o] = "done")

\* Spec 4.4 (iii) and 8: after Close no operation blocks indefinitely.
CloseUnblocks ==
  closed ~> \A o \in Ops : pc[o] = "done"

\* Spec 8: the MessageIDs emitted within one session are strictly increasing.
MonotonicIDs ==
  \A i \in 1..(Len(sent) - 1) : MsgID(sent[i]) < MsgID(sent[i + 1])

\* Every LDAPMessage written to the shared connection is read by the server
\* as exactly the SearchRequest of the operation owning its MessageID: the
\* eight fields in RFC order and with their values (after the uint64
\* conversions of appendTo), and the controls exactly when there are some.
\* So a request whose filter does not compile is never written, and no
\* operation's request carries another's MessageID.
RequestsSentIntact ==
  \A i \in DOMAIN sent :
    \E o \in Ops : mid[o] = MsgID(sent[i]) /\ ReadsAs(sent[i], req[o])

=============================================================================
