--------------------------- MODULE TimeStampToken ---------------------------
(***************************************************************************)
(* Time-stamp tokens and the answers that carry them: ParseTimeStampResp,  *)
(* the checks of a fresh token (checkTokenBody) and of a stored one        *)
(* (Validator.Check).  A digest is the value it is of, a CMS signature     *)
(* names its key and the signed attributes it is over.                     *)
(***************************************************************************)
EXTENDS Integers, Sequences, FiniteSets

CONSTANTS
  NoNonce,  (* the nonce of a request or token that has none               *)
  AnyPolicy (* a client that requires no policy                            *)

(* A TSA certificate: what a SignerInfo identifies it by (its subject key  *)
(* identifier, or its issuer and serial), its key, its validity window and *)
(* whether its usages allow time-stamping.                                 *)
Certificate(ski, key, from, to, stamping) ==
  [ski |-> ski, key |-> key, notBefore |-> from, notAfter |-> to, stamping |-> stamping]

TSTInfo(imprint, nonce, gen, acc, policy) ==
  [version |-> 1, imprint |-> imprint, nonce |-> nonce, gen |-> gen, acc |-> acc,
   policy |-> policy]

(* Signed attributes: the types present, in order, and what the digest,    *)
(* the time and the certificate attribute say.                             *)
KnownAttribute ==
  {"contentType", "messageDigest", "signingTime", "signingCert", "signingCertV2",
   "algorithmProtection"}
SignedAttributes(info, cert) ==
  [types |-> <<"contentType", "signingTime", "messageDigest", "signingCertV2">>,
   digest |-> info, time |-> info.gen, cert |-> cert]

Types(attrs) == {attrs.types[i] : i \in DOMAIN attrs.types}

(* The bytes a signature is over: the attributes as a SET, their order on  *)
(* the wire forgotten.                                                     *)
AttributeSet(attrs) == [attrs EXCEPT !.types = Types(attrs)]

(* What Parse returns for a token as an authority makes it.  cms: it is a  *)
(* SignedData of version 3 around a TSTInfo, with one SignerInfo whose     *)
(* algorithms belong together.                                             *)
TSToken(info, cert) ==
  [info |-> info, cms |-> TRUE, signer |-> cert.ski, certs |-> {cert},
   attrs |-> SignedAttributes(info, cert),
   sig |-> [key |-> cert.key, over |-> AttributeSet(SignedAttributes(info, cert))]]

-----------------------------------------------------------------------------
(* The body of an answer: its first element, what follows it, and the      *)
(* children of the first element when that is a SEQUENCE of neither kind   *)
(* below.  An element says what its content parses as: a PKIStatusInfo, a  *)
(* token, or neither.                                                      *)
NoStatus == -1
Element(tag, status, token) == [tag |-> tag, status |-> status, token |-> token]
StatusInfo(s)   == Element("sequence", s, <<>>)
ContentInfo(t)  == Element("sequence", NoStatus, <<t>>)
Explicit0(e)    == Element("context0", e.status, e.token)
Implicit16(t)   == Element("context16", NoStatus, <<t>>)
OtherElement    == Element("other", NoStatus, <<>>)
OuterSequence   == Element("sequence", NoStatus, <<>>)
Body(lead, children, rest) == [lead |-> lead, children |-> children, rest |-> rest]

Parsed(status, token) == [outcome |-> "ok", status |-> status, token |-> token]
Malformed == [outcome |-> "error", status |-> NoStatus, token |-> <<>>]
Panics    == [outcome |-> "panic", status |-> NoStatus, token |-> <<>>]

IsStatus(e)   == e.tag = "sequence" /\ e.status # NoStatus
IsSequence(e) == e.tag = "sequence"
IsTokenChild(e) == e.tag \in {"context16", "sequence"}

(* The token is at most one ContentInfo with nothing after it.             *)
FinishTimeStampResp(status, elements) ==
  CASE status = NoStatus -> Malformed
    [] status # NoStatus /\ elements = <<>> -> Parsed(status, <<>>)
    [] status # NoStatus /\ Len(elements) = 1 /\ elements[1].token # <<>> ->
         Parsed(status, elements[1].token)
    [] OTHER -> Malformed

Flat(b)     == IsStatus(b.lead)
OneOuter(b) == ~Flat(b) /\ b.rest = <<>> /\ IsSequence(b.lead)
Canonical(b) ==
  /\ OneOuter(b) /\ Len(b.children) \in 1..2
  /\ b.children[1].tag = "context0"
Wrapped(b) ==
  /\ OneOuter(b) /\ Len(b.children) \in 1..2
  /\ \A i \in DOMAIN b.children : IsSequence(b.children[i])

(* The three shapes; for any other the error message names the first       *)
(* child, which an empty SEQUENCE does not have.                           *)
ParseTimeStampResp(b) ==
  CASE Flat(b) -> FinishTimeStampResp(b.lead.status, b.rest)
    [] Canonical(b) ->
         IF \A e \in {b.children[i] : i \in 2..Len(b.children)} : IsTokenChild(e)
           THEN FinishTimeStampResp(b.children[1].status, Tail(b.children))
           ELSE Malformed
    [] Wrapped(b) -> FinishTimeStampResp(b.children[1].status, Tail(b.children))
    [] OneOuter(b) /\ b.children = <<>> -> Panics
    [] OTHER -> Malformed

-----------------------------------------------------------------------------
(* Mutant: the oldest genTime allowed is refused.                          *)
GenTimeUnderAge(now, info, maxAge, maxSkew) ==
  now - info.gen + info.acc < maxAge /\ info.gen <= now + (maxSkew - info.acc)

CheckGenTime(now, info, maxAge, maxSkew) ==
  now - info.gen + info.acc <= maxAge /\ info.gen <= now + (maxSkew - info.acc)

(* The first certificate of the pool the SignerInfo identifies.            *)
FindSignerCert(pool, signer, i) ==
  pool[i].ski = signer /\ \A j \in 1..(i - 1) : pool[j].ski # signer

(* Mutant: the messageDigest attribute is not compared with the content.   *)
SignedAttributesUnbound(attrs, info, cert) ==
  /\ \A i, j \in DOMAIN attrs.types : attrs.types[i] = attrs.types[j] => i = j
  /\ Types(attrs) \subseteq KnownAttribute
  /\ {"contentType", "messageDigest", "signingTime"} \subseteq Types(attrs)
  /\ Types(attrs) \cap {"signingCert", "signingCertV2"} # {}
  /\ attrs.time = info.gen /\ attrs.cert = cert

CheckSignedAttributes(attrs, info, cert) ==
  /\ \A i, j \in DOMAIN attrs.types : attrs.types[i] = attrs.types[j] => i = j
  /\ Types(attrs) \subseteq KnownAttribute
  /\ {"contentType", "messageDigest", "signingTime"} \subseteq Types(attrs)
  /\ Types(attrs) \cap {"signingCert", "signingCertV2"} # {}
  /\ attrs.digest = info /\ attrs.time = info.gen /\ attrs.cert = cert

CheckSignature(t, cert) == t.sig = [key |-> cert.key, over |-> AttributeSet(t.attrs)]

CheckSignedData(pool, t) ==
  /\ t.cms
  /\ \E i \in DOMAIN pool :
       /\ FindSignerCert(pool, t.signer, i) /\ pool[i] \in t.certs
       /\ CheckSignedAttributes(t.attrs, t.info, pool[i])
       /\ CheckSignature(t, pool[i])

(* Mutant: the version of the TSTInfo is only looked at by Validator.Check.*)
TokenBodyAnyVersion(pool, t, data, nonce, now, maxAge, maxSkew) ==
  /\ t.info.imprint = data
  /\ nonce # NoNonce => t.info.nonce = nonce
  /\ CheckGenTime(now, t.info, maxAge, maxSkew)
  /\ CheckSignedData(pool, t)

CheckTokenBody(pool, t, data, nonce, now, maxAge, maxSkew) ==
  /\ t.info.version = 1 /\ t.info.imprint = data
  /\ nonce # NoNonce => t.info.nonce = nonce
  /\ CheckGenTime(now, t.info, maxAge, maxSkew)
  /\ CheckSignedData(pool, t)

(* The TSA certificate against the pool as its own roots, at genTime.      *)
VerifyChain(cert, at) ==
  cert.notBefore <= at /\ at <= cert.notAfter /\ cert.stamping

(* Validator.Check of a stored token, as VerifyTST calls it: no nonce and  *)
(* no freshness.                                                           *)
Check(pool, t, data) ==
  /\ t.info.version = 1 /\ t.info.imprint = data
  /\ CheckSignedData(pool, t)
  /\ \E i \in DOMAIN pool :
       FindSignerCert(pool, t.signer, i) /\ VerifyChain(pool[i], t.info.gen)
=============================================================================
