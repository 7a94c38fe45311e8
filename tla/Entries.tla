------------------------------ MODULE Entries ------------------------------
(***************************************************************************)
(* Entry and EntryAttribute (src/v3/search.go 44-148, 172-296): how an     *)
(* application builds entries (NewEntry) or receives them (the decoding in *)
(* SearchWithChannel), reads them with the eight Get* lookups, and         *)
(* unmarshals them into a struct with Entry.Unmarshal.                     *)
(*                                                                         *)
(* Data.  A string is a number standing for its text.  An attribute name   *)
(* is [w, up]: word w (words are numbered in alphabetical order and start  *)
(* with distinct letters) written in lower or in upper case, so that       *)
(* sort.Strings' byte order and strings.EqualFold are exact on the names   *)
(* of the model.  A value is its decimal text when it is not in NonNumeric.*)
(* A struct field's content is a sequence of values: <<>> for "" or nil,   *)
(* <<v>> for a string, a []byte or an int, all values for a []string.     *)
(* Go's widths are scaled: ParseBits stands for ParseInt's 64 bits and     *)
(* IntBits for the platform's int (64 or 32 bits).                         *)
(***************************************************************************)
EXTENDS Integers, Sequences, SequencesExt

CONSTANTS
  AttrNames,   \* names of the attributes entries may have
  ValueLists,  \* value lists an application passes to NewEntry
  WireLists,   \* value lists a server sends in a SearchResultEntry
  MaxAttrs,    \* most attributes in a received entry
  DNVal,       \* the entries' DN
  NonNumeric,  \* values whose text is not a decimal integer
  DNTag,       \* the name "dn"
  Fields,      \* the target struct type: its fields, in declaration order
  ParseBits,   \* bit width of strconv.ParseInt(v, 10, 64)
  IntBits      \* bit width of Go's int on the platform

EmptyStr == 0   \* the string "" and the empty []byte

\* sort.Strings: byte order.  Every upper-case letter sorts before every
\* lower-case one.
ByteLess(a, b) == IF a.up # b.up THEN a.up ELSE a.w < b.w

\* strings.EqualFold
EqualFold(a, b) == a.w = b.w

\* An attribute: Name, Values and ByteValues ([]byte(value) has the bytes
\* of the value's text).
Attr(name, values) == [name |-> name, values |-> values, bytes |-> values]

-----------------------------------------------------------------------------
(* Building and receiving entries.                                         *)

\* NewEntry(dn, attributes): the map's keys in the (random) iteration order
\* iter, sorted, then NewEntryAttribute for each.
NewEntryOf(dn, m, iter) ==
  LET names == SortSeq(iter, ByteLess)
  IN  [dn |-> dn, attrs |-> [i \in 1..Len(names) |-> Attr(names[i], m[names[i]])]]

\* SearchWithChannel decodes a SearchResultEntry: the DN, then each
\* attribute in the server's order, its values appended to both Values and
\* ByteValues.
DecodeEntry(dn, wire) ==
  [dn |-> dn, attrs |-> [i \in 1..Len(wire) |-> Attr(wire[i].name, wire[i].values)]]

-----------------------------------------------------------------------------
(* The lookups: the first attribute that matches, in the entry's order.     *)

\* Index of the first attribute whose name is n (==) or folds to n.
FirstExact(e, n) == SelectInSeq(e.attrs, LAMBDA a : a.name = n)
FirstFold(e, n)  == SelectInSeq(e.attrs, LAMBDA a : EqualFold(n, a.name))

\* Mutant: the exact lookup compares with EqualFold.
GetAttributeValuesFold(e, n) ==
  IF FirstFold(e, n) = 0 THEN <<>> ELSE e.attrs[FirstFold(e, n)].values

GetAttributeValues(e, n) ==
  IF FirstExact(e, n) = 0 THEN <<>> ELSE e.attrs[FirstExact(e, n)].values
GetEqualFoldAttributeValues(e, n) ==
  IF FirstFold(e, n) = 0 THEN <<>> ELSE e.attrs[FirstFold(e, n)].values
GetRawAttributeValues(e, n) ==
  IF FirstExact(e, n) = 0 THEN <<>> ELSE e.attrs[FirstExact(e, n)].bytes
GetEqualFoldRawAttributeValues(e, n) ==
  IF FirstFold(e, n) = 0 THEN <<>> ELSE e.attrs[FirstFold(e, n)].bytes

\* The single-value forms: values[0], or "" (an empty []byte).
FirstOr(values) == IF values = <<>> THEN EmptyStr ELSE values[1]

GetAttributeValue(e, n)             == FirstOr(GetAttributeValues(e, n))
GetEqualFoldAttributeValue(e, n)    == FirstOr(GetEqualFoldAttributeValues(e, n))
GetRawAttributeValue(e, n)          == FirstOr(GetRawAttributeValues(e, n))
GetEqualFoldRawAttributeValue(e, n) == FirstOr(GetEqualFoldRawAttributeValues(e, n))

-----------------------------------------------------------------------------
(* Entry.Unmarshal.                                                        *)

NoTag == [w |-> -1, up |-> FALSE]   \* a field without an `ldap:"..."` tag

\* readTag: the tag's first comma-separated part, or the field's Go name.
\* (The omitempty flag it also returns is discarded by Unmarshal.)
ReadTag(f) == IF f.tag = NoTag THEN f.name ELSE f.tag

\* Mutant: ParseInt's error is dropped.
ParseOKIgnoringError(v) == TRUE

\* strconv.ParseInt(v, 10, 64): fails on text that is not a decimal
\* integer and on a number outside the 64-bit range.
ParseOK(v) ==
  /\ v \notin NonNumeric
  /\ -(2^(ParseBits - 1)) <= v /\ v < 2^(ParseBits - 1)

\* reflect.Value.SetInt stores the int64 in the field's own width: an int
\* field keeps the low IntBits bits, two's complement; an int64 keeps all.
SetInt(kind, v) ==
  IF kind = "int"
  THEN ((v + 2^(IntBits - 1)) % 2^IntBits) - 2^(IntBits - 1)
  ELSE v

\* The zero value of the struct.
ZeroObj == [n \in DOMAIN Fields |-> IF Fields[n].kind \in {"int", "int64"} THEN <<0>> ELSE <<>>]

\* Mutant: a bad int is skipped (continue) instead of returned.
RECURSIVE FillFieldsSkippingBadInt(_, _, _)
FillFieldsSkippingBadInt(e, o, n) ==
  IF n > Len(Fields) THEN [obj |-> o, err |-> "none"]
  ELSE
  LET f    == Fields[n]
      t    == ReadTag(f)
      vals == GetAttributeValues(e, t)
      Set(c) == FillFieldsSkippingBadInt(e, [o EXCEPT ![n] = c], n + 1)
      Rest == FillFieldsSkippingBadInt(e, o, n + 1)
  IN CASE ~f.exported                   -> Rest
       [] t = DNTag                     -> Set(<<e.dn>>)
       [] vals = <<>>                   -> Rest
       [] f.kind = "strings"            -> Set(o[n] \o vals)
       [] f.kind \in {"string", "bytes"} -> Set(<<vals[1]>>)
       [] f.kind \in {"int", "int64"}   ->
            IF ParseOK(vals[1]) THEN Set(<<SetInt(f.kind, vals[1])>>)
            ELSE [Rest EXCEPT !.err = "parse"]
       [] OTHER                         -> [obj |-> o, err |-> "type"]

\* The loop over the struct's fields from field n on, with the struct in
\* state o: unexported fields are skipped, the "dn" tag takes the DN, a
\* missing or empty attribute leaves the field, and each kind is filled by
\* its case; a bad int or an unsupported kind returns at once, with the
\* fields before it already written.
RECURSIVE FillFields(_, _, _)
FillFields(e, o, n) ==
  IF n > Len(Fields) THEN [obj |-> o, err |-> "none"]
  ELSE
  LET f    == Fields[n]
      t    == ReadTag(f)
      vals == GetAttributeValues(e, t)
      Set(c) == FillFields(e, [o EXCEPT ![n] = c], n + 1)
  IN CASE ~f.exported                   -> FillFields(e, o, n + 1)
       [] t = DNTag                     -> Set(<<e.dn>>)
       [] vals = <<>>                   -> FillFields(e, o, n + 1)
       [] f.kind = "strings"            -> Set(o[n] \o vals)
       [] f.kind \in {"string", "bytes"} -> Set(<<vals[1]>>)
       [] f.kind \in {"int", "int64"}   ->
            IF ParseOK(vals[1]) THEN Set(<<SetInt(f.kind, vals[1])>>)
            ELSE [obj |-> o, err |-> "parse"]
       [] OTHER                         -> [obj |-> o, err |-> "type"]

\* Mutant: no check of the argument's kind; reflect panics on a non-pointer.
UnmarshalNoKindCheck(e, arg, o) ==
  IF arg # "ptrstruct" THEN [obj |-> o, err |-> "panic"] ELSE FillFields(e, o, 1)

\* Unmarshal(i): i must be a pointer to a struct, else an error and nothing
\* written.
Unmarshal(e, arg, o) ==
  IF arg # "ptrstruct" THEN [obj |-> o, err |-> "arg"] ELSE FillFields(e, o, 1)

-----------------------------------------------------------------------------
(* An application: it builds or receives an entry, reads it, and           *)
(* unmarshals it into a new struct (user := UserEntry{};                   *)
(* entry.Unmarshal(&user), as in Unmarshal's comment).                     *)

VARIABLES
  entry,   \* the *Entry the application holds
  made,    \* entry was built by NewEntry (else received from a server)
  built,   \* the attributes map NewEntry was given
  obj,     \* the struct Unmarshal writes into, field by field
  err,     \* what the last Unmarshal returned: "none", "arg", "parse", "type"
  call     \* history: the argument of an Unmarshal that was the last step

vars == <<entry, made, built, obj, err, call>>

NoCall == "none"   \* no Unmarshal since the entry last changed
Maps  == UNION {[S -> ValueLists] : S \in SUBSET AttrNames}
Wires == UNION {[1..k -> [name : AttrNames, values : WireLists]] : k \in 0..MaxAttrs}
Args  == {"ptrstruct", "struct"}
Vals  == UNION {Range(l) : l \in ValueLists \cup WireLists} \cup {DNVal}

TypeOK ==
  /\ entry \in [dn : {DNVal}, attrs : Seq([name : AttrNames, values : Seq(Vals), bytes : Seq(Vals)])]
  /\ made \in BOOLEAN
  /\ made => built \in Maps
  /\ DOMAIN obj = DOMAIN Fields
  /\ \A n \in DOMAIN Fields : obj[n] \in Seq(Vals \cup Int)
  /\ err \in {"none", "arg", "parse", "type"}
  /\ call \in Args \cup {NoCall}

Init ==
  /\ entry = DecodeEntry(DNVal, <<>>)
  /\ made = FALSE
  /\ built = <<>>
  /\ obj = ZeroObj
  /\ err = "none"
  /\ call = NoCall

\* NewEntry(dn, attributes), whatever order Go's map iteration takes.
NewEntry ==
  \E m \in Maps : \E iter \in SetToSeqs(DOMAIN m) :
    /\ entry' = NewEntryOf(DNVal, m, iter)
    /\ made' = TRUE
    /\ built' = m
    /\ call' = NoCall
    /\ UNCHANGED <<obj, err>>

\* A SearchResultEntry arrives (SearchWithChannel's case 4).
ReceiveEntry ==
  \E wire \in Wires :
    /\ entry' = DecodeEntry(DNVal, wire)
    /\ made' = FALSE
    /\ built' = <<>>
    /\ call' = NoCall
    /\ UNCHANGED <<obj, err>>

\* entry.Unmarshal(&user) on a new user, or entry.Unmarshal(user) by mistake.
UnmarshalCall ==
  \E arg \in Args :
    LET r == Unmarshal(entry, arg, ZeroObj)
    IN  /\ obj' = r.obj
        /\ err' = r.err
        /\ call' = arg
        /\ UNCHANGED <<entry, made, built>>

Next == NewEntry \/ ReceiveEntry \/ UnmarshalCall

Spec == Init /\ [][Next]_vars

-----------------------------------------------------------------------------
(* Properties.                                                             *)

Names(e) == [i \in DOMAIN e.attrs |-> e.attrs[i].name]

\* Alphabetical order of two names: the order of their words, whatever the
\* case of the letters.
AlphaBefore(a, b) == a.w < b.w

\* NewEntry's comment (search.go 45-46): the map of attributes is accessed
\* in alphabetical order of the keys, so no attribute of a built entry
\* comes after one whose name is alphabetically later.  The code sorts with
\* sort.Strings (line 52), which compares bytes.
NewEntryAlphabetical ==
  made => \A i, j \in DOMAIN entry.attrs :
            i < j => ~AlphaBefore(entry.attrs[j].name, entry.attrs[i].name)

\* On an entry built by NewEntry the exact lookup returns the values the map
\* gave that name, and the EqualFold lookup those of the name, among the
\* keys that fold to it, that sorts first; both raw forms return the bytes
\* of the same values.
NewEntryLookups ==
  made => \A n \in AttrNames :
    LET folds == {k \in DOMAIN built : EqualFold(n, k)}
        least == CHOOSE k \in folds : \A j \in folds \ {k} : ByteLess(k, j)
    IN  /\ GetAttributeValues(entry, n) = (IF n \in DOMAIN built THEN built[n] ELSE <<>>)
        /\ GetRawAttributeValues(entry, n) = GetAttributeValues(entry, n)
        /\ GetEqualFoldAttributeValues(entry, n) = (IF folds = {} THEN <<>> ELSE built[least])
        /\ GetEqualFoldRawAttributeValues(entry, n) = GetEqualFoldAttributeValues(entry, n)

\* What Unmarshal's comment (search.go 185-227) promises for field n: "dn"
\* takes the DN; a []string all values; a string, []byte or int the first
\* value; other types "will not be regarded"; a missing attribute is no
\* error.
Promised(e, n) ==
  LET f == Fields[n]  t == ReadTag(f)  vals == GetAttributeValues(e, t)
  IN  IF ~f.exported THEN ZeroObj[n]
      ELSE IF t = DNTag THEN <<e.dn>>
      ELSE IF vals = <<>> \/ f.kind \notin {"strings", "string", "bytes", "int", "int64"}
           THEN ZeroObj[n]
      ELSE IF f.kind = "strings" THEN vals ELSE <<vals[1]>>

\* ...and it fails exactly when an int field's value "cannot be parsed into
\* an integer".
Unparsable(e) ==
  \E n \in DOMAIN Fields :
    LET vals == GetAttributeValues(e, ReadTag(Fields[n]))
    IN  /\ Fields[n].exported /\ ReadTag(Fields[n]) # DNTag
        /\ Fields[n].kind \in {"int", "int64"} /\ vals # <<>>
        /\ ~ParseOK(vals[1])

\* Unmarshal of an entry into a new struct returns nil exactly when no int
\* field's value is unparsable, and then every field holds what the comment
\* promises.
UnmarshalFaithful ==
  call = "ptrstruct" =>
    /\ (err = "none") = ~Unparsable(entry)
    /\ err = "none" => \A n \in DOMAIN Fields : obj[n] = Promised(entry, n)


\* Field n stops the loop: an exported, non-dn field whose attribute has
\* values, of an unsupported kind or an int kind with an unparsable value.
Fails(e, n) ==
  LET f == Fields[n]  vals == GetAttributeValues(e, ReadTag(f))
  IN  /\ f.exported /\ ReadTag(f) # DNTag /\ vals # <<>>
      /\ \/ f.kind \notin {"strings", "string", "bytes", "int", "int64"}
         \/ f.kind \in {"int", "int64"} /\ ~ParseOK(vals[1])

\* When Unmarshal into a new struct fails (line 275 or 279), the error names
\* the first field that stops the loop, every field before it already holds
\* what the comment promises, and it and every field after it are still
\* zero: the struct is left half-filled, in a predictable way.
UnmarshalErrorKeepsPrefix ==
  call = "ptrstruct" /\ err # "none" =>
    LET b == CHOOSE n \in DOMAIN Fields :
               Fails(entry, n) /\ \A m \in 1..(n - 1) : ~Fails(entry, m)
    IN  /\ \E n \in DOMAIN Fields : Fails(entry, n)
        /\ err = IF Fields[b].kind \in {"int", "int64"} THEN "parse" ELSE "type"
        /\ \A n \in DOMAIN Fields :
             obj[n] = IF n < b THEN Promised(entry, n) ELSE ZeroObj[n]

=============================================================================
