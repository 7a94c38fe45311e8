---------------------------- MODULE SearchRequest ----------------------------
(***************************************************************************)
(* Search request construction (search.go 342-404): NewSearchRequest and  *)
(* appendTo, which adds the SearchRequest PDU, and the controls when there *)
(* are any, to an LDAPMessage envelope that already holds the MessageID.   *)
(*                                                                         *)
(* A BER packet is a record of its class, its tag and its value: a         *)
(* primitive value, or the sequence of its children.  Strings, filters    *)
(* and controls are model values; the filter compiler and the control     *)
(* encoders are other components, so CompileFilter is reduced to whether  *)
(* the filter compiles and encodeControls to the [0] Controls sequence.    *)
(***************************************************************************)
EXTENDS Integers, Sequences

CONSTANTS
  BadFilters,  \* filter strings that CompileFilter rejects
  IntWidth     \* the bit width of Go's int and uint64 (64, scaled down)

ASSUME IntWidth \in Nat \ {0}

\* ldap's ApplicationSearchRequest: [APPLICATION 3].
ApplicationSearchRequest == 3

Pkt(cls, tag, v) == [cls |-> cls, tag |-> tag, val |-> v]

\* uint64(x) of an int: the same bits read as unsigned.
Uint64(x) == x % (2 ^ IntWidth)

\* ber.NewInteger of a uint64 encodes int64(v): the same bits read as a
\* two's-complement integer, which is what the server decodes (spec 4.1).
NewInteger(tag, u) ==
  Pkt("Universal", tag, IF u >= 2 ^ (IntWidth - 1) THEN u - 2 ^ IntWidth ELSE u)

\* The first child of every LDAPMessage: ber.NewInteger(..., MessageID).
MessageIDPacket(id) == Pkt("Universal", "Integer", id)

\* CompileFilter(req.Filter) succeeds, and the packet it returns.
Compiles(f) == f \notin BadFilters
FilterPacket(f) == Pkt("Context", "Filter", f)

\* encodeControls: the [0] sequence of the controls.
EncodeControls(cs) == Pkt("Context", 0, cs)

\* NewSearchRequest: the request holds its arguments as given.
NewSearchRequest(BaseDN, Scope, DerefAliases, SizeLimit, TimeLimit, TypesOnly, Filter, Attributes, Controls) ==
  [BaseDN |-> BaseDN, Scope |-> Scope, DerefAliases |-> DerefAliases,
   SizeLimit |-> SizeLimit, TimeLimit |-> TimeLimit, TypesOnly |-> TypesOnly,
   Filter |-> Filter, Attributes |-> Attributes, Controls |-> Controls]

\* Mutant: Scope and Deref Aliases appended in the other order.
SearchPDUSwapped(req) ==
  Pkt("Application", ApplicationSearchRequest,
      << Pkt("Universal", "OctetString", req.BaseDN),
         NewInteger("Enumerated", Uint64(req.DerefAliases)),
         NewInteger("Enumerated", Uint64(req.Scope)),
         NewInteger("Integer", Uint64(req.SizeLimit)),
         NewInteger("Integer", Uint64(req.TimeLimit)),
         Pkt("Universal", "Boolean", req.TypesOnly),
         FilterPacket(req.Filter),
         Pkt("Universal", "Sequence",
             [i \in DOMAIN req.Attributes |->
                Pkt("Universal", "OctetString", req.Attributes[i])]) >>)

\* The SearchRequest PDU of a request whose filter compiles.
SearchPDU(req) ==
  Pkt("Application", ApplicationSearchRequest,
      << Pkt("Universal", "OctetString", req.BaseDN),
         NewInteger("Enumerated", Uint64(req.Scope)),
         NewInteger("Enumerated", Uint64(req.DerefAliases)),
         NewInteger("Integer", Uint64(req.SizeLimit)),
         NewInteger("Integer", Uint64(req.TimeLimit)),
         Pkt("Universal", "Boolean", req.TypesOnly),
         FilterPacket(req.Filter),
         Pkt("Universal", "Sequence",
             [i \in DOMAIN req.Attributes |->
                Pkt("Universal", "OctetString", req.Attributes[i])]) >>)

\* req.appendTo(envelope): the envelope's children afterwards, and whether
\* it returned an error.  A filter that does not compile returns before the
\* PDU is added, so the envelope is left as it was.
AppendTo(envelope, req) ==
  IF ~Compiles(req.Filter)
  THEN [env |-> envelope, err |-> TRUE]
  ELSE [env |-> Append(envelope, SearchPDU(req))
                \o (IF req.Controls = <<>> THEN <<>>
                    ELSE <<EncodeControls(req.Controls)>>),
        err |-> FALSE]

-----------------------------------------------------------------------------
(* How the server reads an LDAPMessage (spec 3, RFC 4511 4.1.1 and 4.5.1): *)
(* the MessageID, the SearchRequest with its eight fields in order, and    *)
(* the optional [0] Controls.  This is the reference appendTo is checked   *)
(* against.                                                                *)

SearchFieldTags ==
  <<"OctetString", "Enumerated", "Enumerated", "Integer", "Integer",
    "Boolean", "Filter", "Sequence">>

\* The message is a well-formed LDAPMessage carrying a SearchRequest.
IsSearchMessage(msg) ==
  /\ Len(msg) \in {2, 3}
  /\ msg[1].tag = "Integer"
  /\ msg[2].cls = "Application" /\ msg[2].tag = ApplicationSearchRequest
  /\ Len(msg[2].val) = 8
  /\ \A i \in 1..8 : msg[2].val[i].tag = SearchFieldTags[i]
  /\ Len(msg) = 3 => msg[3].cls = "Context" /\ msg[3].tag = 0

\* The message carries exactly the request req.
ReadsAs(msg, req) ==
  LET f == msg[2].val IN
  /\ IsSearchMessage(msg)
  /\ req = [BaseDN |-> f[1].val, Scope |-> f[2].val, DerefAliases |-> f[3].val,
            SizeLimit |-> f[4].val, TimeLimit |-> f[5].val,
            TypesOnly |-> f[6].val, Filter |-> f[7].val,
            Attributes |-> [i \in DOMAIN f[8].val |-> f[8].val[i].val],
            Controls |-> IF Len(msg) = 3 THEN msg[3].val ELSE <<>>]

=============================================================================
