----------------------------- MODULE MCEntries -----------------------------
(***************************************************************************)
(* Entries with attribute words in alphabetical order: cn, dn, id, uid;   *)
(* cn also in upper case, so that the exact and the EqualFold lookups and  *)
(* the byte order of sort.Strings differ.  Values: 3 and 20 are numbers    *)
(* (20 fits ParseInt's width but not a 32-bit int's, scaled), 99 is text;  *)
(* the DN 50 is text.                                                      *)
(***************************************************************************)
EXTENDS Entries

cn  == [w |-> 1, up |-> FALSE]
CN  == [w |-> 1, up |-> TRUE]
dn  == [w |-> 2, up |-> FALSE]
DN  == [w |-> 2, up |-> TRUE]
ID  == [w |-> 3, up |-> TRUE]
uid == [w |-> 4, up |-> FALSE]

MCAttrNames  == {cn, CN, dn, uid}

\* Names in both cases whose byte order and alphabetical order differ:
\* "ID" sorts before "cn" byte-wise, after it alphabetically.
MCAttrNamesMixed == {cn, ID, uid}
MCValueLists == {<<3>>, <<20, 99>>}
MCWireLists  == {<<>>, <<99, 3>>, <<20>>}

Field(exported, name, tag, kind) ==
  [exported |-> exported, name |-> name, tag |-> tag, kind |-> kind]

\* type User struct {
\*   DN     string   `ldap:"dn"`
\*   Names  []string `ldap:"cn"`
\*   CN     []byte
\*   ID     int      `ldap:"uid"`
\*   secret string   `ldap:"uid"`
\*   Long   int64    `ldap:"cn"`
\* }
UserFields ==
  << Field(TRUE, DN, dn, "string"), Field(TRUE, ID, cn, "strings"),
     Field(TRUE, CN, NoTag, "bytes"), Field(TRUE, ID, uid, "int"),
     Field(FALSE, uid, uid, "string"), Field(TRUE, ID, cn, "int64") >>

\* The same with the comment's example of an unsupported field type:
\*   UserAccountControl uint32 `ldap:"uid"`
UserFieldsUint32 == UserFields \o << Field(TRUE, ID, uid, "other") >>

=============================================================================
