---------------------------- MODULE SearchPaging ----------------------------
(***************************************************************************)
(* Conn.SearchWithPaging and the buffered Conn.Search it calls in a loop   *)
(* (src/v3/search.go), run against a directory server that answers each   *)
(* SearchRequest with a stream of SearchResultEntry / SearchResultReference*)
(* PDUs closed by a SearchResultDone that may carry a Paging control.      *)
(*                                                                         *)
(* The client is one goroutine: the application calls SearchWithPaging,    *)
(* which issues one Search per page and reads that page's PDUs one at a   *)
(* time from its message queue, or runs the manual paging loop of         *)
(* ExampleControlPaging_manualPaging (src/v3/examples_test.go 349-384),   *)
(* which calls Search itself and ends the program on any error.  The server, the transport and the         *)
(* application are the environment: the server may or may not support     *)
(* paging, may end a page with an error result or a malformed control, and *)
(* the connection may drop at any moment (the library never reconnects).   *)
(*                                                                         *)
(* A search result item is a number 1..N; the items in RefItems are        *)
(* referrals, the others entries.  A cookie is the server's position in   *)
(* the result set: 0 is the empty cookie, c > 0 resumes after item c.      *)
(***************************************************************************)
EXTENDS Integers, Sequences

CONSTANTS
  N,             \* number of items the search matches on the server
  RefItems,      \* the items that are SearchResultReferences
  PageSize,      \* the pagingSize argument of SearchWithPaging
  OtherSize,     \* a paging size the application may have put in the request
  ReuseRequest   \* may the application pass the same *SearchRequest again?

ASSUME /\ N \in Nat \ {0}
       /\ RefItems \subseteq 1..N
       /\ PageSize \in Nat \ {0}
       /\ OtherSize \in Nat \ {0, PageSize}
       /\ ReuseRequest \in BOOLEAN

Items   == 1..N
Cookies == 0..(N - 1)
Empty   == 0

\* searchRequest.Controls as far as FindControl(_, ControlTypePaging) sees it:
\* no paging control, a control of the paging type that is not a
\* *ControlPaging, or a *ControlPaging with its size and cookie.
Ctl(kind, size, cookie) == [kind |-> kind, size |-> size, cookie |-> cookie]
NoCtl     == Ctl("none", PageSize, Empty)
Foreign   == Ctl("foreign", PageSize, Empty)
PagingCtl == [kind : {"paging"}, size : {PageSize, OtherSize}, cookie : Cookies]
NoCall    == Ctl("nocall", PageSize, Empty)
NoCookie  == -1

\* A PDU of the response to one SearchRequest.  A Done carries its result
\* ("success", "error", or "badctl": success with a control DecodeControl
\* rejects), whether a Paging control is attached, and that control's cookie.
ItemPkt(i)  == [kind |-> IF i \in RefItems THEN "ref" ELSE "entry", item |-> i]
DonePkt(code, ctl, c) == [kind |-> "done", code |-> code, ctl |-> ctl, cookie |-> c]
Packet == [kind : {"entry", "ref"}, item : Items]
          \cup [kind : {"done"}, code : {"success", "error", "badctl"},
                ctl : BOOLEAN, cookie : Cookies]

\* What the application expects to get back: every entry and every referral,
\* each once, in the server's order.
AllItems    == [i \in Items |-> i]
AllEntries  == SelectSeq(AllItems, LAMBDA i : i \notin RefItems)
AllRefs     == SelectSeq(AllItems, LAMBDA i : i \in RefItems)
NoResult    == [entries |-> <<>>, refs |-> <<>>]

VARIABLES
  pc,           \* "idle" (no call in progress), "send" (next Search to issue), "read",
                \* "exited" (the manual loop's log.Fatal ended the program)
  client,       \* the loop issuing the Searches: "helper" (SearchWithPaging) or "manual"
  reqCtl,       \* the paging control held by the application's *SearchRequest
  callCtl,      \* the control the request carried when the current call began
  inbox,        \* PDUs of the outstanding Search not yet read (msgCtx.responses)
  page,         \* the SearchResult the running Search has built so far
  acc,          \* searchResult: what SearchWithPaging has accumulated
  received,     \* history: every entry any Search of this call has read
  prevCookie,   \* history: cookie of the last Done of this call, NoCookie if none
  lastReq,      \* history: [size, cookie, first] of the last request sent
  ret,          \* what the last finished call returned: [err, entries, refs]
  faulted,      \* history: the server or the transport failed during the call
  serverPaging, \* does the server implement the paged results control?
  open,         \* cookies of paged result sets the server keeps open
  connUp        \* the transport is still up

vars == <<pc, client, reqCtl, callCtl, inbox, page, acc, received, prevCookie,
          lastReq, ret, faulted, serverPaging, open, connUp>>
server == <<serverPaging, open, connUp>>

TypeOK ==
  /\ pc \in {"idle", "send", "read", "exited"}
  /\ client \in {"helper", "manual"}
  /\ reqCtl \in {NoCtl, Foreign} \cup PagingCtl
  /\ callCtl \in {NoCall, NoCtl, Foreign} \cup PagingCtl
  /\ inbox \in Seq(Packet)
  /\ page \in [entries : Seq(Items), refs : Seq(Items)]
  /\ acc \in [entries : Seq(Items), refs : Seq(Items)]
  /\ received \in Seq(Items)
  /\ prevCookie \in Cookies \cup {NoCookie}
  /\ lastReq \in [size : {PageSize, OtherSize}, cookie : Cookies, first : BOOLEAN]
  /\ ret \in [err : BOOLEAN, entries : Seq(Items), refs : Seq(Items)]
  /\ faulted \in BOOLEAN
  /\ serverPaging \in BOOLEAN
  /\ open \subseteq Cookies \ {Empty}
  /\ connUp \in BOOLEAN

-----------------------------------------------------------------------------
(* The server (environment).                                               *)

\* Items start+1 .. start+size of the result set, as PDUs.
PagePkts(start, size) ==
  LET last == IF start + size < N THEN start + size ELSE N
  IN  [k \in 1..(last - start) |-> ItemPkt(start + k)]
NextCookie(start, size) == IF start + size < N THEN start + size ELSE Empty

\* The possible answers to request req: [pkts, open, fault].  A cookie the
\* server holds open resumes its result set; a stale one (already used) may
\* be rejected or honoured as a position, as servers differ.
ServerReplies(req) ==
  LET c     == req.cookie
      pkts  == PagePkts(c, req.size)
      next  == NextCookie(c, req.size)
      used  == open \ {c}
      stale == c # Empty /\ c \notin open
  IN IF ~serverPaging
     THEN {[pkts |-> [k \in Items |-> ItemPkt(k)]
                     \o <<DonePkt("success", FALSE, Empty)>>,
            open |-> open, fault |-> FALSE]}
     ELSE {[pkts |-> pkts \o <<DonePkt("success", TRUE, next)>>,
            open |-> used \cup ({next} \ {Empty}), fault |-> FALSE]}
          \cup {[pkts |-> <<DonePkt("error", FALSE, Empty)>>,
                 open |-> open, fault |-> FALSE] : x \in IF stale THEN {c} ELSE {}}
          \* faults: an error result after part of the page (sizeLimitExceeded,
          \* timeLimitExceeded, busy...), or a control the client cannot decode
          \cup {[pkts |-> SubSeq(pkts, 1, k) \o <<DonePkt("error", FALSE, Empty)>>,
                 open |-> used, fault |-> TRUE] : k \in 0..Len(pkts)}
          \* (the server sent a valid next cookie, so it keeps that result set)
          \cup {[pkts |-> pkts \o <<DonePkt("badctl", TRUE, Empty)>>,
                 open |-> used \cup ({next} \ {Empty}), fault |-> TRUE]}

\* The transport fails: the reader goroutine closes every message queue and
\* PDUs still on the wire are lost.  The server forgets its paged results.
ConnDrop ==
  /\ connUp
  /\ connUp' = FALSE
  /\ inbox' = <<>>
  /\ open' = {}
  /\ faulted' = (faulted \/ pc # "idle")
  /\ UNCHANGED <<pc, client, reqCtl, callCtl, page, acc, received, prevCookie,
                 lastReq, ret, serverPaging>>

-----------------------------------------------------------------------------
(* The client: SearchWithPaging and Search.                                *)

\* The control a new request carries: none, a foreign control of the paging
\* type, or a fresh NewControlPaging of either size.
FreshCtls == {NoCtl, Foreign} \cup {Ctl("paging", sz, Empty) : sz \in {PageSize, OtherSize}}

\* SearchWithPaging returns to the application.
Return(err, result) ==
  /\ pc' = "idle"
  /\ ret' = [err |-> err, entries |-> result.entries, refs |-> result.refs]

\* Mutant of Call: the size check inverted (== for !=), so a request whose
\* control already has the requested size is refused.
CallSizeCheckInverted ==
  /\ pc = "idle"
  /\ \E ctl \in FreshCtls \cup (IF ReuseRequest THEN {reqCtl} ELSE {}) :
       /\ callCtl' = ctl
       /\ \/ /\ ctl = NoCtl
             /\ reqCtl' = Ctl("paging", PageSize, Empty)
             /\ pc' = "send"
             /\ UNCHANGED ret
          \/ /\ ctl = Foreign
             /\ reqCtl' = ctl
             /\ Return(TRUE, NoResult)
          \/ /\ ctl \in PagingCtl
             /\ reqCtl' = ctl
             /\ IF ctl.size = PageSize
                THEN Return(TRUE, NoResult)
                ELSE pc' = "send" /\ UNCHANGED ret
  /\ acc' = NoResult
  /\ received' = <<>>
  /\ prevCookie' = NoCookie
  /\ faulted' = ~connUp
  /\ client' = "helper"
  /\ UNCHANGED <<inbox, page, lastReq, server>>

\* Mutant of Call: the control attached to a request without one is
\* NewControlPaging(0) instead of NewControlPaging(pagingSize).
CallZeroSize ==
  /\ pc = "idle"
  /\ \E ctl \in FreshCtls \cup (IF ReuseRequest THEN {reqCtl} ELSE {}) :
       /\ callCtl' = ctl
       /\ \/ /\ ctl = NoCtl
             /\ reqCtl' = Ctl("paging", 0, Empty)
             /\ pc' = "send"
             /\ UNCHANGED ret
          \/ /\ ctl = Foreign
             /\ reqCtl' = ctl
             /\ Return(TRUE, NoResult)
          \/ /\ ctl \in PagingCtl
             /\ reqCtl' = ctl
             /\ IF ctl.size # PageSize
                THEN Return(TRUE, NoResult)
                ELSE pc' = "send" /\ UNCHANGED ret
  /\ acc' = NoResult
  /\ received' = <<>>
  /\ prevCookie' = NoCookie
  /\ faulted' = ~connUp
  /\ client' = "helper"
  /\ UNCHANGED <<inbox, page, lastReq, server>>

\* SearchWithPaging(searchRequest, PageSize): look up the paging control,
\* attach a new one if there is none, fail without a query on a mismatch.
Call ==
  /\ pc = "idle"
  /\ \E ctl \in FreshCtls \cup (IF ReuseRequest THEN {reqCtl} ELSE {}) :
       /\ callCtl' = ctl
       /\ \/ /\ ctl = NoCtl
             /\ reqCtl' = Ctl("paging", PageSize, Empty)
             /\ pc' = "send"
             /\ UNCHANGED ret
          \/ /\ ctl = Foreign
             /\ reqCtl' = ctl
             /\ Return(TRUE, NoResult)
          \/ /\ ctl \in PagingCtl
             /\ reqCtl' = ctl
             /\ IF ctl.size # PageSize
                THEN Return(TRUE, NoResult)
                ELSE pc' = "send" /\ UNCHANGED ret
  /\ acc' = NoResult
  /\ received' = <<>>
  /\ prevCookie' = NoCookie
  /\ faulted' = ~connUp        \* a call on a dead connection cannot succeed
  /\ client' = "helper"
  /\ UNCHANGED <<inbox, page, lastReq, server>>

\* l.Search(searchRequest) on a closed connection: doRequest fails and
\* SearchWithPaging returns what it has accumulated with the error.
SendFail ==
  /\ client = "helper"
  /\ pc = "send"
  /\ ~connUp
  /\ Return(TRUE, acc)
  /\ UNCHANGED <<client, reqCtl, callCtl, inbox, page, acc, received, prevCookie,
                 lastReq, faulted, server>>

\* l.Search(searchRequest): the request goes out with the control's current
\* size and cookie; the server's answer is queued for this message.
Send ==
  /\ pc = "send"
  /\ connUp
  /\ lastReq' = [size |-> reqCtl.size, cookie |-> reqCtl.cookie,
                 first |-> prevCookie = NoCookie]
  /\ \E r \in ServerReplies(reqCtl) :
       /\ inbox' = r.pkts
       /\ open' = r.open
       /\ faulted' = (faulted \/ r.fault)
  /\ page' = NoResult
  /\ pc' = "read"
  /\ UNCHANGED <<client, reqCtl, callCtl, acc, received, prevCookie, ret,
                 serverPaging, connUp>>

\* Search reads a SearchResultEntry and appends it to result.Entries.
ReadEntry ==
  /\ pc = "read"
  /\ inbox # <<>>
  /\ Head(inbox).kind = "entry"
  /\ inbox' = Tail(inbox)
  /\ page' = [page EXCEPT !.entries = Append(@, Head(inbox).item)]
  /\ received' = Append(received, Head(inbox).item)
  /\ UNCHANGED <<pc, client, reqCtl, callCtl, acc, prevCookie, lastReq, ret,
                 faulted, server>>

\* Search reads a SearchResultReference and appends it to result.Referrals.
ReadReference ==
  /\ pc = "read"
  /\ inbox # <<>>
  /\ Head(inbox).kind = "ref"
  /\ inbox' = Tail(inbox)
  /\ page' = [page EXCEPT !.refs = Append(@, Head(inbox).item)]
  /\ UNCHANGED <<pc, client, reqCtl, callCtl, acc, received, prevCookie, lastReq,
                 ret, faulted, server>>

\* Mutant of ReadDoneError: an error result is treated as retryable and the
\* same page is requested again instead of returning.
ReadDoneErrorRetry ==
  /\ client = "helper"
  /\ pc = "read"
  /\ inbox # <<>>
  /\ Head(inbox).kind = "done"
  /\ Head(inbox).code \in {"error", "badctl"}
  /\ inbox' = Tail(inbox)
  /\ pc' = "send"
  /\ UNCHANGED <<client, reqCtl, callCtl, page, acc, received, prevCookie, lastReq,
                 ret, faulted, server>>

\* Search reads a SearchResultDone whose result is an error, or whose
\* controls fail to decode: it returns (result, err), and SearchWithPaging
\* returns (searchResult, err), leaving this page's result behind.
ReadDoneError ==
  /\ client = "helper"
  /\ pc = "read"
  /\ inbox # <<>>
  /\ Head(inbox).kind = "done"
  /\ Head(inbox).code \in {"error", "badctl"}
  /\ inbox' = Tail(inbox)
  /\ Return(TRUE, acc)
  /\ UNCHANGED <<client, reqCtl, callCtl, page, acc, received, prevCookie, lastReq,
                 faulted, server>>

\* Mutant of AccumulatePage: the referrals of a page are not carried over.
AccumulatePageNoRefs(a, p) == [entries |-> a.entries \o p.entries, refs |-> a.refs]

\* searchResult.Entries/Referrals = append(..., result.Entries/Referrals...)
AccumulatePage(a, p) ==
  [entries |-> a.entries \o p.entries, refs |-> a.refs \o p.refs]

\* Mutant of ReadDone: the empty-cookie break is missing, so the loop asks
\* for another page with the empty cookie.
ReadDoneNoEmptyCheck ==
  /\ client = "helper"
  /\ pc = "read"
  /\ inbox # <<>>
  /\ Head(inbox).kind = "done"
  /\ Head(inbox).code = "success"
  /\ LET d == Head(inbox)
         a == AccumulatePage(acc, page)
     IN /\ inbox' = Tail(inbox)
        /\ acc' = a
        /\ IF d.ctl
           THEN /\ reqCtl' = [reqCtl EXCEPT !.cookie = d.cookie]
                /\ prevCookie' = d.cookie
                /\ pc' = "send"
                /\ UNCHANGED ret
           ELSE /\ Return(FALSE, a)
                /\ UNCHANGED <<reqCtl, prevCookie>>
  /\ UNCHANGED <<client, callCtl, page, received, lastReq, faulted, server>>

\* Search reads a successful SearchResultDone and returns its result.
\* SearchWithPaging appends the page, then stops if the response has no
\* Paging control or an empty cookie, else copies the cookie into the
\* request's control and loops.  Both exits set pagingControl to nil, so
\* the size-0 abandon search after the loop is never issued.
ReadDone ==
  /\ client = "helper"
  /\ pc = "read"
  /\ inbox # <<>>
  /\ Head(inbox).kind = "done"
  /\ Head(inbox).code = "success"
  /\ LET d == Head(inbox)
         a == AccumulatePage(acc, page)
     IN /\ inbox' = Tail(inbox)
        /\ acc' = a
        /\ IF d.ctl /\ d.cookie # Empty
           THEN /\ reqCtl' = [reqCtl EXCEPT !.cookie = d.cookie]
                /\ prevCookie' = d.cookie
                /\ pc' = "send"
                /\ UNCHANGED ret
           ELSE /\ Return(FALSE, a)
                /\ UNCHANGED <<reqCtl, prevCookie>>
  /\ UNCHANGED <<client, callCtl, page, received, lastReq, faulted, server>>

\* readPacket on a message queue closed by the reader: Search returns
\* (result, err), SearchWithPaging (searchResult, err).
ReadFail ==
  /\ client = "helper"
  /\ pc = "read"
  /\ inbox = <<>>
  /\ ~connUp
  /\ Return(TRUE, acc)
  /\ UNCHANGED <<client, reqCtl, callCtl, inbox, page, acc, received, prevCookie,
                 lastReq, faulted, server>>

-----------------------------------------------------------------------------
(* The manual paging loop of ExampleControlPaging_manualPaging.            *)

\* The running Search returns an error: the connection is closed when it is
\* sent, its Done is an error or carries a control that does not decode, or
\* its message queue is closed.
SearchErr ==
  \/ pc = "send" /\ ~connUp
  \/ /\ pc = "read" /\ inbox # <<>> /\ Head(inbox).kind = "done"
     /\ Head(inbox).code \in {"error", "badctl"}
  \/ pc = "read" /\ inbox = <<>> /\ ~connUp

\* The example dials its own connection (log.Fatal if that fails), makes
\* pagingControl := NewControlPaging(pageSize) and puts it in the controls
\* every request of its loop is built with.
ManualCall ==
  /\ pc = "idle"
  /\ \/ /\ client' = "manual"
        /\ callCtl' = Ctl("paging", PageSize, Empty)
        /\ reqCtl' = Ctl("paging", PageSize, Empty)
        /\ pc' = "send"
        /\ acc' = NoResult
        /\ received' = <<>>
        /\ prevCookie' = NoCookie
        /\ faulted' = FALSE
        /\ connUp' = TRUE
        /\ open' = {}
        /\ UNCHANGED <<inbox, page, lastReq, ret, serverPaging>>
     \/ /\ pc' = "exited"
        /\ UNCHANGED <<client, reqCtl, callCtl, inbox, page, acc, received,
                       prevCookie, lastReq, ret, faulted, server>>

\* conn.Search(request) returns an error: log.Fatalf ends the program, and
\* with it the connection.
ManualSearchFails ==
  /\ client = "manual"
  /\ SearchErr
  /\ pc' = "exited"
  /\ connUp' = FALSE
  /\ open' = {}
  /\ inbox' = <<>>
  /\ UNCHANGED <<client, reqCtl, callCtl, page, acc, received, prevCookie,
                 lastReq, ret, faulted, serverPaging>>

\* conn.Search(request) returns the page, which the example handles (acc).
\* A Paging control with a non-empty cookie is copied into pagingControl
\* by SetCookie and the loop continues; otherwise it breaks, the example
\* returns, and its deferred conn.Close() closes the connection.
ManualReadDone ==
  /\ client = "manual"
  /\ pc = "read"
  /\ inbox # <<>>
  /\ Head(inbox).kind = "done"
  /\ Head(inbox).code = "success"
  /\ LET d == Head(inbox)
         a == AccumulatePage(acc, page)
     IN /\ inbox' = Tail(inbox)
        /\ acc' = a
        /\ \/ /\ d.ctl /\ d.cookie # Empty
              /\ reqCtl' = [reqCtl EXCEPT !.cookie = d.cookie]
              /\ prevCookie' = d.cookie
              /\ pc' = "send"
              /\ UNCHANGED <<ret, open, connUp>>
           \/ /\ ~(d.ctl /\ d.cookie # Empty)
              /\ Return(FALSE, a)
              /\ connUp' = FALSE
              /\ open' = {}
              /\ UNCHANGED <<reqCtl, prevCookie>>
  /\ UNCHANGED <<client, callCtl, page, received, lastReq, faulted, serverPaging>>

\* After log.Fatal nothing runs any more.
Exited == pc = "exited" /\ UNCHANGED vars

-----------------------------------------------------------------------------

Init ==
  /\ pc = "idle"
  /\ client = "helper"
  /\ reqCtl = NoCtl
  /\ callCtl = NoCall
  /\ inbox = <<>>
  /\ page = NoResult
  /\ acc = NoResult
  /\ received = <<>>
  /\ prevCookie = NoCookie
  /\ lastReq = [size |-> PageSize, cookie |-> Empty, first |-> TRUE]
  /\ ret = [err |-> FALSE, entries |-> <<>>, refs |-> <<>>]
  /\ faulted = FALSE
  /\ serverPaging \in BOOLEAN
  /\ open = {}
  /\ connUp = TRUE

ClientStep ==
  \/ SendFail \/ Send \/ ReadEntry \/ ReadReference \/ ReadDoneError
  \/ ReadDone \/ ReadFail \/ ManualSearchFails \/ ManualReadDone

Next == Call \/ ManualCall \/ ClientStep \/ ConnDrop \/ Exited

\* The goroutine inside SearchWithPaging (or the example's loop) keeps running; the application and
\* the transport are under no obligation.
Spec == Init /\ [][Next]_vars /\ WF_vars(ClientStep)

-----------------------------------------------------------------------------
(* Properties.                                                             *)

Returned == pc = "idle" /\ callCtl # NoCall

\* The spec's precondition on the request (section 4.5): no paging control,
\* or a *ControlPaging whose size is the requested one.
ValidCall == callCtl = NoCtl \/ (callCtl \in PagingCtl /\ callCtl.size = PageSize)

\* Every page request after the first of a SearchWithPaging call carries the
\* non-empty cookie the server returned in the previous SearchResultDone:
\* the cookie is threaded through the request's control, and the loop never
\* asks for a next page after an empty cookie.
CookieChain ==
  pc = "read" /\ ~lastReq.first =>
      /\ prevCookie # Empty
      /\ lastReq.cookie = prevCookie
      /\ lastReq.size = PageSize

\* When SearchWithPaging returns without error, its result holds every
\* entry and every referral of the search, each exactly once and in the
\* server's order, whether the server pages or not.
PagedResultComplete ==
  Returned /\ ~ret.err => ret.entries = AllEntries /\ ret.refs = AllRefs

\* A SearchWithPaging call on a valid request during which neither the
\* server nor the transport failed returns the whole result without error.
FaultFreeSucceeds ==
  Returned /\ ValidCall /\ ~faulted =>
      ~ret.err /\ ret.entries = AllEntries /\ ret.refs = AllRefs

\* Section 7 of the spec: partial search results are returned alongside a
\* terminal error.  When SearchWithPaging fails, it returns every entry its
\* Searches received.
PartialResultsKept ==
  Returned /\ ret.err => ret.entries = received

\* Every SearchWithPaging call eventually returns to the application, and
\* the manual paging loop eventually returns or ends the program.
PagingTerminates == (pc \in {"send", "read"}) ~> (pc \in {"idle", "exited"})

=============================================================================
