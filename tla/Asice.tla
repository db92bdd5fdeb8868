------------------------------- MODULE Asice --------------------------------
(***************************************************************************)
(* The documents that go-asice writes and reads: data files, signature     *)
(* documents (META-INF/signaturesN.xml), the manifest and the ZIP entries  *)
(* that carry them.                                                        *)
(*                                                                         *)
(* Cryptography is symbolic.  The digest of a value is the value itself    *)
(* (collision freedom), a signature value names the key that made it and   *)
(* the SignedInfo it was made over, and a key is named by the certificate  *)
(* that carries it.  XML and DER text is left out: an element that is      *)
(* absent, unreadable or in excess is a value of the field it belongs to.  *)
(***************************************************************************)
EXTENDS Integers, Sequences, FiniteSets, Functions

CONSTANTS
  Name,         (* names a data file may be given                          *)
  HashName,     (* those of them that begin with "#"                       *)
  ReservedName, (* those of them that checkDocName refuses                 *)
  Content,      (* data file contents                                      *)
  Size,         (* their sizes in bytes, a function on Content             *)
  BareType,     (* media types, without surrounding white space            *)
  Cert          (* signer certificates                                     *)

ASSUME AsiceAssumption ==
  /\ HashName \subseteq Name
  /\ ReservedName \subseteq Name
  /\ "" \notin Name \cup Content \cup BareType \cup Cert
  /\ {"/", "META-INF/"} \cap Name = {}
  /\ Size \in [Content -> Nat]

NoName   == ""      \* an attribute that is absent or empty
NoDigest == ""      \* a digest that is absent, undecodable or not SHA-256
NoCert   == ""      \* a certificate that is absent or does not parse
NoId     == <<>>    \* an absent Id, or a reference that is no fragment
NoTime   == -1      \* a SigningTime that is absent or not RFC 3339
NoBound  == -1      \* a time-stamp policy without a TSDelayTime extension

(***************************************************************************)
(* A media type attribute is a type with or without surrounding blanks:    *)
(* the reader trims the one in the signature and not the one in the        *)
(* manifest.                                                               *)
(***************************************************************************)
MediaType   == [type : BareType, padded : BOOLEAN]
NoMediaType == [type |-> "", padded |-> FALSE]
Trim(m)     == [m EXCEPT !.padded = FALSE]

Doc == [name : Name, mime : MediaType \cup {NoMediaType}, data : Content]

-----------------------------------------------------------------------------
(* The identifiers of signature document k all derive from k.              *)
SignatureID(k)        == <<"S", k>>
ReferenceID(k, i)     == <<"RefId", k, i>>
SignatureValueID(k)   == <<"SIG", k>>
SignedPropertiesID(k) == <<"SignedProperties", k>>

(* SignedInfo: what the signature value is made over.                      *)
NoInfo           == [refs |-> <<>>, spRefs |-> <<>>]
SignedInfo(sig)  == [refs |-> sig.refs, spRefs |-> sig.spRefs]

(* The canonical ds:SignatureValue element: its Id is part of it.          *)
SignatureValue(id, key, over) == [id |-> id, key |-> key, over |-> over]
NoSignatureValue == SignatureValue(NoId, NoCert, NoInfo)

(* An RFC 3161 token: what it stamps, when, the bound of its policy, and   *)
(* whether the verifier accepts the certificate that signed it: one of his *)
(* --tst-signers, for this use and at this time.                           *)
Token(imprint, gen, trusted, bound) ==
  [empty |-> FALSE, imprint |-> imprint, gen |-> gen,
   trusted |-> trusted, bound |-> bound]
NoToken == [Token(NoSignatureValue, 0, FALSE, NoBound) EXCEPT !.empty = TRUE]

(* A stored OCSP response.  "decodes": well-formed, successful and basic;  *)
(* "single": with one single response; "authentic": signed by an accepted  *)
(* responder.                                                              *)
Ocsp(status, cert, thisUpdate, producedAt) ==
  [empty |-> FALSE, decodes |-> TRUE, single |-> TRUE, status |-> status,
   cert |-> cert, thisUpdate |-> thisUpdate, producedAt |-> producedAt,
   authentic |-> TRUE]
OcspType ==
  [empty : BOOLEAN, decodes : BOOLEAN, single : BOOLEAN,
   status : {"good", "revoked", "unknown"}, cert : Cert \cup {NoCert},
   thisUpdate : Int, producedAt : Int, authentic : BOOLEAN]
NoOcsp == [Ocsp("unknown", NoCert, 0, 0) EXCEPT !.empty = TRUE, !.decodes = FALSE]

(* xades:UnsignedProperties; shape "extra": an element the strict order    *)
(* does not allow, which is reported and skipped.                          *)
Usp(tsts, ocsp) == [shape |-> "ok", tsts |-> tsts, ocsp |-> ocsp]
NoUsp           == [shape |-> "absent", tsts |-> <<>>, ocsp |-> NoOcsp]

-----------------------------------------------------------------------------
(***************************************************************************)
(* The signature documents that SignBES and SignTS render: one reference   *)
(* per data file and one to the SignedProperties, which describe the same  *)
(* files and the signer certificate.                                       *)
(***************************************************************************)
FileReferences(k, docs) ==
  [i \in 1..Len(docs) |->
     [id |-> ReferenceID(k, i - 1), uri |-> docs[i].name, dig |-> docs[i].data]]

DataObjectFormats(k, docs) ==
  [i \in 1..Len(docs) |->
     [ref |-> ReferenceID(k, i - 1), mime |-> docs[i].mime]]

SignedProperties(k, cert, docs, time) ==
  [id |-> SignedPropertiesID(k), time |-> time, policy |-> FALSE,
   cert |-> cert, dofs |-> DataObjectFormats(k, docs)]

(* The signature value as BuildSignature leaves it has no Id yet.          *)
BuildSignature(k, cert, docs, time) ==
  LET sp   == SignedProperties(k, cert, docs, time)
      info == [refs   |-> FileReferences(k, docs),
               spRefs |-> <<[target |-> sp.id, dig |-> sp]>>]
  IN  [shape |-> "ok", id |-> SignatureID(k), refs |-> info.refs,
       spRefs |-> info.spRefs, sv |-> SignatureValue(NoId, cert, info),
       cert |-> cert, target |-> SignatureID(k), sp |-> sp, usp |-> NoUsp]

SetSignatureValueId(sig, k) == [sig EXCEPT !.sv.id = SignatureValueID(k)]

SignBES(k, cert, docs, time) ==
  SetSignatureValueId(BuildSignature(k, cert, docs, time), k)

(* The UnsignedProperties are added after signing: no digest covers them.  *)
AddUnsignedProperties(sig, token, ocsp) ==
  [sig EXCEPT !.usp = Usp(<<token>>, ocsp)]

-----------------------------------------------------------------------------
(* ZIP entries, by what their name says they are.                          *)
MimetypeEntry(good) == [kind |-> "mimetype", good |-> good]
ManifestEntry(rows) == [kind |-> "manifest", rows |-> rows]
FileEntry(n, c)     == [kind |-> "file", name |-> n, data |-> c]
SignatureEntry(k, s) == [kind |-> "signature", key |-> k, doc |-> s]
OtherEntry(kind)    == [kind |-> kind]   \* "metainf" or "subfolder"

(* A row of the manifest: its path is a file name, "/", one under META-INF/ *)
(* or absent.                                                              *)
Row(path, mime) == [path |-> path, mime |-> mime]
RootMedia       == [type |-> "asice", padded |-> FALSE]
ManifestRows(docs) ==
  <<Row("/", RootMedia)>>
    \o [i \in 1..Len(docs) |-> Row(docs[i].name, docs[i].mime)]

(* The running totals of a list of sizes, and the last of them.            *)
Totals(sizes) ==
  LET sum[i \in 0..Len(sizes)] == IF i = 0 THEN 0 ELSE sum[i - 1] + sizes[i] IN sum
Total(sizes) == Totals(sizes)[Len(sizes)]

(* The entries of a container, in the order writeContainerZIP emits them.  *)
ContainerEntries(docs, sigs) ==
  <<MimetypeEntry(TRUE), ManifestEntry(ManifestRows(docs))>>
    \o [i \in 1..Len(docs) |-> FileEntry(docs[i].name, docs[i].data)]
    \o [i \in 1..Len(sigs) |-> SignatureEntry(i - 1, sigs[i])]
=============================================================================
