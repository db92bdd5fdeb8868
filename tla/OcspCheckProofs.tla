-------------------------- MODULE OcspCheckProofs ---------------------------
(***************************************************************************)
(* Proofs about the check of a stored OCSP response, for any certificates, *)
(* any lists of them, any response and any times.                          *)
(***************************************************************************)
EXTENDS OcspCheck, SequenceTheorems, WellFoundedInduction, TLAPS

(* The parts of an input that the check relates.                           *)
LEMMA QueryParts ==
  ASSUME query \in Trust!QueryType
  PROVE  /\ query.intermediates \in Seq(Cert) /\ query.roots \in Seq(Cert)
         /\ query.configured \in Seq(Cert)
         /\ query.signer.aki \in KeyId \cup {NoKeyId} /\ query.maxAge \in Nat
         /\ response.embedded \in Seq(Cert \cup {Unparsable})
         /\ response.id.key \in KeyId /\ response.singles \in Nat
         /\ response.thisUpdate \in Int /\ response.producedAt \in Int
<1>1. query.response \in Trust!ResponseType
  BY DEF Trust!QueryType
<1>2. query.response.id \in Trust!CertIDType
  BY <1>1 DEF Trust!ResponseType
<1>3. query.response.id.key \in KeyId
  BY <1>2 DEF Trust!CertIDType
<1>4. /\ query.response.embedded \in Seq(Cert \cup {Unparsable})
      /\ query.response.singles \in Nat
      /\ query.response.thisUpdate \in Int /\ query.response.producedAt \in Int
  BY <1>1 DEF Trust!ResponseType
<1>5. /\ query.intermediates \in Seq(Cert) /\ query.roots \in Seq(Cert)
      /\ query.configured \in Seq(Cert)
      /\ query.signer.aki \in KeyId \cup {NoKeyId} /\ query.maxAge \in Nat
  BY DEF Trust!QueryType
<1> QED
  BY <1>3, <1>4, <1>5 DEF response

(* The issuer the check takes is one that was supplied.                    *)
LEMMA IssuerIsSupplied ==
  ASSUME query \in Trust!QueryType, NEW i \in DOMAIN Pool, IsIssuer(i)
  PROVE  Pool[i] \in Cert /\ Pool[i] \in Trust!IssuersOf(query)
<1>1. query.intermediates \in Seq(Cert) /\ query.roots \in Seq(Cert)
  BY QueryParts
<1>2. Pool \in Seq(Cert) /\ Range(Pool) = Range(query.intermediates) \cup Range(query.roots)
  BY <1>1, ConcatProperties, RangeConcatenation DEF Pool
<1>3. Pool[i] \in Cert /\ Pool[i] \in Range(Pool)
  BY <1>2 DEF Range
<1>4. Pool[i] \in Trust!Supplied(query)
  BY <1>2, <1>3 DEF Trust!Supplied, Trust!Range, Range
<1> QED
  BY <1>3, <1>4 DEF Trust!IssuersOf, IsIssuer

(* If an issuer was supplied, the check takes one.                         *)
LEMMA SuppliedIsTaken ==
  ASSUME query \in Trust!QueryType, NEW p \in Trust!IssuersOf(query),
         \A c, d \in Trust!IssuersOf(query) : c = d
  PROVE  \E i \in DOMAIN Pool : IsIssuer(i) /\ Pool[i] = p
<1>1. query.intermediates \in Seq(Cert) /\ query.roots \in Seq(Cert)
  BY QueryParts
<1>2. Pool \in Seq(Cert) /\ Range(Pool) = Range(query.intermediates) \cup Range(query.roots)
  BY <1>1, ConcatProperties, RangeConcatenation DEF Pool
<1>3. p \in Range(Pool) /\ query.subject[p] = query.signer.issuer
  BY <1>2 DEF Trust!IssuersOf, Trust!Supplied, Trust!Range, Range
<1> DEFINE Named == {i \in DOMAIN Pool : query.subject[Pool[i]] = query.signer.issuer}
<1>4. Len(Pool) \in Nat /\ DOMAIN Pool = 1..Len(Pool)
  BY <1>2
<1>5. \E i \in Named : TRUE
  BY <1>3 DEF Range
<1>6. PICK i \in Named : \A j \in Named : i <= j
  <2> HIDE DEF Named
  <2>1. Named \in SUBSET Nat /\ Named # {}
    BY <1>4, <1>5 DEF Named
  <2>2. PICK i \in Named : \A j \in Named : ~(<<j, i>> \in OpToRel(<, Nat))
    BY <2>1, WFMin, NatLessThanWellFounded
  <2>3. ASSUME NEW j \in Named PROVE i <= j
    <3>1. i \in Nat /\ j \in Nat
      BY <2>1
    <3>2. ~(j < i)
      <4> SUFFICES ASSUME j < i PROVE FALSE
        OBVIOUS
      <4> DEFINE edge == <<j, i>>
      <4>1. edge \in Nat \X Nat /\ edge[1] = j /\ edge[2] = i
        BY <3>1
      <4>2. edge[1] < edge[2]
        BY <4>1, Zenon
      <4> HIDE DEF edge
      <4>3. edge \in OpToRel(<, Nat)
        BY <4>1, <4>2, Zenon DEF OpToRel
      <4> QED
        BY <2>2, <4>3, Zenon DEF edge
    <3> QED
      BY <3>1, <3>2
  <2> QED
    BY <2>3
<1>7. IsIssuer(i)
  BY <1>4, <1>6 DEF IsIssuer
<1>8. Pool[i] \in Trust!IssuersOf(query)
  BY <1>7, IssuerIsSupplied
<1> QED
  BY <1>7, <1>8

-----------------------------------------------------------------------------
(* What the steps taken so far have established.                           *)
AfterDecode == {"certID", "configured", "embedded", "signature", "window"}
AfterId     == AfterDecode \ {"certID"}
AfterSearch == {"signature", "window"}

Decoded == response.decodes /\ response.singles = 1 /\ response.good
Signed  == response.algorithm /\ query.key[responder[1]] = response.by

IInv ==
  /\ TypeOK
  /\ pc \in AfterDecode => Decoded
  /\ pc \in AfterId => Trust!AboutSigner(query)
  /\ pc \in AfterSearch => Trust!TrustedResponder(query, responder[1])
  /\ pc = "window" => Signed
  /\ verdict = "accepted" => Trust!Attested(query)

LEMMA InitIInv == Init => IInv
BY OcspCheckAssumption DEF Init, IInv, TypeOK, AfterDecode, AfterId, AfterSearch

(* The matching of the CertID is the promised one, in one direction        *)
(* whatever was supplied and in the other where one issuer is.             *)
LEMMA MatchIsAbout ==
  ASSUME query \in Trust!QueryType, response.id.hash,
         response.id.name = query.signer.issuer, response.id.serial = query.signer.serial,
         KeyHashOK
  PROVE  Trust!AboutSigner(query)
<1>1. CASE response.id.key = query.signer.aki
  BY <1>1 DEF Trust!AboutSigner, response
<1>2. CASE \E i \in DOMAIN Pool : IsIssuer(i) /\ response.id.key = query.key[Pool[i]]
  BY <1>2, IssuerIsSupplied DEF Trust!AboutSigner, response
<1> QED
  BY <1>1, <1>2 DEF KeyHashOK

LEMMA VerifiedIsVouched ==
  ASSUME query \in Trust!QueryType, NEW c, VerifiesWithIssuer(c)
  PROVE  \E p \in Trust!IssuersOf(query) : Trust!Vouches(query, p, c)
<1>1. PICK i \in DOMAIN Pool : IsIssuer(i) /\ VerifyResponderCertificate(c, Pool[i])
  BY DEF VerifiesWithIssuer
<1>2. Pool[i] \in Trust!IssuersOf(query)
  BY <1>1, IssuerIsSupplied
<1>3. Trust!Vouches(query, Pool[i], c)
  BY <1>1 DEF VerifyResponderCertificate, Trust!Vouches, Trust!InWindow
<1> QED
  BY <1>2, <1>3

LEMMA NextIInv == IInv /\ [Next]_vars => IInv'
<1> SUFFICES ASSUME IInv, [Next]_vars PROVE IInv'
  OBVIOUS
<1>0. /\ query \in Trust!QueryType /\ UNCHANGED query /\ response' = response
      /\ pos \in Nat \ {0} /\ responder \in Seq(Cert) /\ Len(responder) <= 1
  BY DEF IInv, TypeOK, Next, Decode, MatchCertID, SearchConfigured, SearchEmbedded,
         VerifyResponseSignature, CheckWindow, vars, response
<1>u. /\ Decoded => Decoded'
      /\ Trust!AboutSigner(query) => Trust!AboutSigner(query)'
      /\ Trust!Attested(query) => Trust!Attested(query)'
  BY <1>0 DEF Decoded
<1>r. ASSUME UNCHANGED responder
      PROVE  /\ Trust!TrustedResponder(query, responder[1])
                  => Trust!TrustedResponder(query, responder[1])'
             /\ Signed => Signed'
  BY <1>0, <1>r DEF Signed
(* A rejection leaves nothing to show.                                     *)
<1>x. ASSUME Return("rejected"), UNCHANGED responder, pos' \in Nat \ {0}
      PROVE  IInv'
  BY <1>0, <1>x DEF IInv, TypeOK, Return, AfterDecode, AfterId, AfterSearch
<1>1. CASE Decode
  <2>1. CASE Decoded /\ pc' = "certID" /\ UNCHANGED verdict
    BY <1>0, <1>u, <1>1, <2>1 DEF Decode, IInv, TypeOK, AfterDecode, AfterId, AfterSearch
  <2> QED
    BY <1>0, <1>1, <1>x, <2>1 DEF Decode, Check, Decoded
<1>2. CASE MatchCertID
  <2>1. CASE /\ response.id.hash /\ response.id.name = query.signer.issuer
             /\ response.id.serial = query.signer.serial /\ KeyHashOK
             /\ pc' = "configured" /\ UNCHANGED verdict
    <3>1. Trust!AboutSigner(query)
      BY <1>0, <2>1, MatchIsAbout
    <3> QED
      BY <1>0, <1>u, <1>2, <2>1, <3>1 DEF MatchCertID, IInv, TypeOK, AfterDecode, AfterId, AfterSearch
  <2> QED
    BY <1>0, <1>2, <1>x, <2>1 DEF MatchCertID, Check
<1>f. ASSUME NEW c \in Cert, Found(c), pc \in {"configured", "embedded"},
             Trust!TrustedResponder(query, c)
      PROVE  IInv'
  <2>1. /\ responder' = <<c>> /\ responder'[1] = c /\ responder' \in Seq(Cert)
        /\ Len(responder') = 1 /\ responder' # <<>>
    BY <1>f DEF Found
  <2>2. Trust!TrustedResponder(query, responder[1])'
    BY <1>0, <1>f, <2>1
  <2>3. Decoded' /\ Trust!AboutSigner(query)'
    BY <1>u, <1>f DEF IInv, AfterDecode, AfterId
  <2>4. verdict' = verdict /\ pc' = "signature" /\ pos' = pos /\ verdict = "running"
    BY <1>f DEF Found, IInv, TypeOK
  <2>5. TypeOK'
    BY <1>0, <2>1, <2>4 DEF TypeOK
  <2> QED
    BY <2>2, <2>3, <2>4, <2>5 DEF IInv
<1>3. CASE SearchConfigured
  <2>0. pc = "configured" /\ query.configured \in Seq(Cert)
    BY <1>0, <1>3, QueryParts DEF SearchConfigured
  <2>1. CASE /\ pos \in DOMAIN query.configured
             /\ query.subject[query.configured[pos]] = response.responder
             /\ Found(query.configured[pos])
    <3>1. query.configured[pos] \in Cert
      BY <2>0, <2>1
    <3>2. Trust!TrustedResponder(query, query.configured[pos])
      BY <2>1, <3>1 DEF Trust!TrustedResponder, Trust!Range, response
    <3> QED
      BY <1>f, <2>0, <2>1, <3>1, <3>2
  <2>2. CASE /\ pos' = pos + 1 /\ UNCHANGED <<pc, responder, verdict>>
    BY <1>0, <1>u, <2>0, <2>2 DEF IInv, TypeOK, AfterDecode, AfterId, AfterSearch
  <2>3. CASE pos' = 1 /\ UNCHANGED responder /\ Check(~NoIssuer, "embedded")
    <3>1. CASE pc' = "embedded" /\ UNCHANGED verdict
      BY <1>0, <1>u, <2>0, <2>3, <3>1 DEF IInv, TypeOK, AfterDecode, AfterId, AfterSearch
    <3> QED
      BY <1>x, <2>3, <3>1 DEF Check
  <2> QED
    BY <1>3, <2>1, <2>2, <2>3 DEF SearchConfigured
<1>4. CASE SearchEmbedded
  <2>0. pc = "embedded" /\ response.embedded \in Seq(Cert \cup {Unparsable})
    BY <1>0, <1>4, QueryParts DEF SearchEmbedded
  <2>1. ASSUME pos \in DOMAIN response.embedded, response.embedded[pos] # Unparsable,
               query.subject[response.embedded[pos]] = response.responder,
               VerifiesWithIssuer(response.embedded[pos]), Found(response.embedded[pos])
        PROVE  IInv'
    <3>1. response.embedded[pos] \in Cert
      BY <2>0, <2>1
    <3>2. Trust!TrustedResponder(query, response.embedded[pos])
      BY <1>0, <2>1, <3>1, VerifiedIsVouched DEF Trust!TrustedResponder, Trust!Range, response
    <3> QED
      BY <1>f, <2>0, <2>1, <3>1, <3>2
  <2>2. CASE pos' = pos + 1 /\ UNCHANGED <<pc, responder, verdict>>
    BY <1>0, <1>u, <2>0, <2>2 DEF IInv, TypeOK, AfterDecode, AfterId, AfterSearch
  <2>3. CASE Return("rejected") /\ UNCHANGED <<pos, responder>>
    BY <1>0, <1>x, <2>3
  <2> QED
    BY <1>4, <2>1, <2>2, <2>3 DEF SearchEmbedded
<1>5. CASE VerifyResponseSignature
  <2>1. CASE Signed /\ pc' = "window" /\ UNCHANGED verdict
    BY <1>0, <1>u, <1>r, <1>5, <2>1
    DEF VerifyResponseSignature, IInv, TypeOK, AfterDecode, AfterId, AfterSearch
  <2> QED
    BY <1>0, <1>5, <1>x, <2>1 DEF VerifyResponseSignature, Check, Signed
<1>6. CASE CheckWindow
  <2> DEFINE age == response.producedAt - response.thisUpdate
  <2>0. /\ pc = "window" /\ UNCHANGED <<query, pos, responder>>
        /\ \/ age >= 0 /\ age <= query.maxAge /\ Return("accepted")
           \/ Return("rejected")
    BY <1>6 DEF CheckWindow
  <2>1. CASE age >= 0 /\ age <= query.maxAge /\ Return("accepted")
    <3>1. Trust!Fresh(query)
      <4>1. /\ response.producedAt \in Int /\ response.thisUpdate \in Int /\ query.maxAge \in Nat
        BY <1>0, QueryParts
      <4> QED
        BY <2>1, <4>1 DEF Trust!Fresh, response
    <3>2. /\ Decoded /\ Trust!AboutSigner(query) /\ Signed
          /\ Trust!TrustedResponder(query, responder[1])
      BY <2>0 DEF IInv, AfterDecode, AfterId, AfterSearch
    <3>3. responder[1] \in Cert
      BY <3>2 DEF Trust!TrustedResponder
    <3>4. Trust!Attested(query)
      BY <3>1, <3>2, <3>3 DEF Trust!Attested, Decoded, Signed, response
    <3> QED
      BY <1>0, <1>u, <2>0, <2>1, <3>4 DEF IInv, TypeOK, Return, AfterDecode, AfterId, AfterSearch
  <2> QED
    BY <1>0, <1>x, <2>0, <2>1
<1>7. CASE UNCHANGED vars
  BY <1>0, <1>u, <1>r, <1>7 DEF vars, IInv, TypeOK, AfterDecode, AfterId, AfterSearch
<1> QED
  BY <1>1, <1>2, <1>3, <1>4, <1>5, <1>6, <1>7 DEF Next

LEMMA Invariance == Spec => []IInv
BY InitIInv, NextIInv, PTL DEF Spec

(* The search never stands outside its lists' positions, and a responder   *)
(* has been found when its signature is checked.                           *)
THEOREM TypeCorrect == Spec => []TypeOK
<1>1. IInv => TypeOK
  BY DEF IInv
<1> QED
  BY <1>1, Invariance, PTL

LEMMA StepRefines == IInv /\ IInv' /\ [Next]_vars => [Trust!Next]_<<query, verdict>>
<1> SUFFICES ASSUME IInv, IInv', [Next]_vars, ~UNCHANGED <<query, verdict>> PROVE Trust!Next
  OBVIOUS
<1>1. UNCHANGED query /\ verdict = "running" /\ verdict' \in {"accepted", "rejected"}
  BY DEF IInv, TypeOK, Next, Decode, MatchCertID, SearchConfigured, SearchEmbedded,
         VerifyResponseSignature, CheckWindow, Check, Found, Return, vars
<1>2. CASE verdict' = "accepted"
  <2>1. Trust!Attested(query)
    BY <1>1, <1>2 DEF IInv
  <2> QED
    BY <1>1, <1>2, <2>1 DEF Trust!Next, Trust!Accept
<1>3. CASE verdict' = "rejected"
  BY <1>1, <1>3 DEF Trust!Next, Trust!Reject
<1> QED
  BY <1>1, <1>2, <1>3

(* checkOCSPResponse accepts only attested responses: those that say       *)
(* "good" of the signer, in their window, signed by a trusted responder.   *)
THEOREM Soundness == Spec => AcceptsAttested
<1>1. Init => Trust!Init
  BY DEF Init, Trust!Init
<1> QED
  BY <1>1, Invariance, StepRefines, PTL DEF Spec, AcceptsAttested, Trust!Spec

-----------------------------------------------------------------------------
(***************************************************************************)
(* Completeness.  Take an attested response.  Where names tell the         *)
(* certificates apart, the first certificate of the responder's name is    *)
(* the one that signed, so that no step can reject.                        *)
(***************************************************************************)
Clear == NamesAreUnique /\ Unparsable \notin Range(response.embedded) /\ Trust!Attested(query)

NotConfigured(n) == \A j \in 1..n : query.subject[query.configured[j]] # response.responder
NotEmbedded(n)   == \A j \in 1..n : query.subject[response.embedded[j]] # response.responder

OnTrack ==
  /\ verdict # "rejected"
  /\ pc \in {"decode", "certID"} => pos = 1
  /\ pc = "configured" => NotConfigured(pos - 1) /\ pos <= Len(query.configured) + 1
  /\ pc = "embedded" =>
       /\ NotConfigured(Len(query.configured))
       /\ NotEmbedded(pos - 1) /\ pos <= Len(response.embedded) + 1
  /\ pc \in AfterSearch => Signed

NeverRejects == Clear => OnTrack

(* The certificate that signed an attested response.                       *)
Signer(c) == Trust!TrustedResponder(query, c) /\ query.key[c] = response.by

LEMMA ClearParts ==
  ASSUME query \in Trust!QueryType, Clear
  PROVE  /\ Decoded /\ response.id.hash /\ response.id.name = query.signer.issuer
         /\ response.id.serial = query.signer.serial /\ KeyHashOK
         /\ response.algorithm
         /\ Trust!Fresh(query) /\ \E c \in Cert : Signer(c)
<1>1. Trust!Attested(query)
  BY DEF Clear
<1>2. Trust!AboutSigner(query)
  BY <1>1 DEF Trust!Attested
<1>3. /\ Decoded /\ response.algorithm /\ Trust!Fresh(query) /\ \E c \in Cert : Signer(c)
  BY <1>1 DEF Trust!Attested, Decoded, Signer, response
<1>4. /\ response.id.hash /\ response.id.name = query.signer.issuer
      /\ response.id.serial = query.signer.serial
  BY <1>2 DEF Trust!AboutSigner, response
<1>5. KeyHashOK
  <2>1. CASE response.id.key = query.signer.aki
    BY <2>1 DEF KeyHashOK
  <2>2. ASSUME NEW p \in Trust!IssuersOf(query), response.id.key = query.key[p]
        PROVE  KeyHashOK
    <3>1. \A c, d \in Trust!IssuersOf(query) : c = d
      BY DEF Clear, NamesAreUnique
    <3>2. \E i \in DOMAIN Pool : IsIssuer(i) /\ Pool[i] = p
      BY <3>1, SuppliedIsTaken
    <3> QED
      BY <2>2, <3>2 DEF KeyHashOK
  <2> QED
    BY <1>2, <2>1, <2>2 DEF Trust!AboutSigner, response
<1> QED
  BY <1>3, <1>4, <1>5

(* Two certificates of the responder's name, among those looked at, are    *)
(* one.                                                                    *)
LEMMA OneOfTheName ==
  ASSUME Clear, NEW c \in Cert, NEW d \in Cert,
         c \in Range(query.configured) \cup Range(response.embedded),
         d \in Range(query.configured) \cup Range(response.embedded),
         query.subject[c] = response.responder, query.subject[d] = response.responder
  PROVE  c = d
BY DEF Clear, NamesAreUnique

LEMMA SignerIsListed ==
  ASSUME NEW c, Signer(c)
  PROVE  /\ c \in Cert /\ query.subject[c] = response.responder
         /\ c \in Range(query.configured) \cup Range(response.embedded)
BY DEF Signer, Trust!TrustedResponder, Trust!Range, Range, response

LEMMA InitNeverRejects == Init => NeverRejects
BY DEF Init, NeverRejects, OnTrack, AfterSearch

LEMMA NextNeverRejects == IInv /\ NeverRejects /\ [Next]_vars => NeverRejects'
<1> SUFFICES ASSUME IInv, NeverRejects, [Next]_vars, Clear' PROVE OnTrack'
  BY DEF NeverRejects
<1>0. /\ query \in Trust!QueryType /\ UNCHANGED query /\ response' = response
      /\ pos \in Nat \ {0}
  BY DEF IInv, TypeOK, Next, Decode, MatchCertID, SearchConfigured, SearchEmbedded,
         VerifyResponseSignature, CheckWindow, vars, response
<1>1. Clear
  BY <1>0 DEF Clear, NamesAreUnique
<1>2. OnTrack
  BY <1>1 DEF NeverRejects
<1>3. /\ Decoded /\ response.id.hash /\ response.id.name = query.signer.issuer
      /\ response.id.serial = query.signer.serial /\ KeyHashOK
      /\ response.algorithm /\ Trust!Fresh(query)
  BY <1>0, <1>1, ClearParts
<1>4. PICK signer \in Cert : Signer(signer)
  BY <1>0, <1>1, ClearParts
<1>5. /\ query.configured \in Seq(Cert)
      /\ response.embedded \in Seq(Cert \cup {Unparsable})
  BY <1>0, QueryParts
<1>6. ASSUME NEW i \in DOMAIN response.embedded
      PROVE  response.embedded[i] \in Cert
  <2>1. response.embedded[i] \in Range(response.embedded)
    BY <1>5 DEF Range
  <2> QED
    BY <1>1, <1>5, <2>1 DEF Clear
(* The certificate found is the one that signed.                           *)
<1>f. ASSUME NEW c \in Range(query.configured) \cup Range(response.embedded), c \in Cert,
             query.subject[c] = response.responder, Found(c), verdict = "running"
      PROVE  OnTrack'
  <2>1. c = signer
    BY <1>1, <1>4, <1>f, SignerIsListed, OneOfTheName
  <2>2. responder' = <<c>> /\ responder'[1] = c
    BY <1>f DEF Found
  <2>3. Signed'
    BY <1>0, <1>3, <1>4, <2>1, <2>2 DEF Signed, Signer
  <2> QED
    BY <1>f, <2>3 DEF Found, OnTrack
<1>7. CASE Decode
  BY <1>2, <1>3, <1>7 DEF Decode, Check, Decoded, OnTrack, AfterSearch
<1>8. CASE MatchCertID
  <2>1. /\ pc' = "configured" /\ UNCHANGED <<verdict, pos>>
    BY <1>3, <1>8 DEF MatchCertID, Check
  <2>2. pc = "certID"
    BY <1>8 DEF MatchCertID
  <2> QED
    BY <1>0, <1>2, <1>5, <2>1, <2>2 DEF OnTrack, NotConfigured, AfterSearch
<1>9. CASE SearchConfigured
  <2>0. /\ pc = "configured" /\ NotConfigured(pos - 1) /\ pos <= Len(query.configured) + 1
        /\ verdict = "running"
    BY <1>2, <1>9 DEF SearchConfigured, OnTrack, IInv, TypeOK
  <2>1. CASE /\ pos \in DOMAIN query.configured
             /\ query.subject[query.configured[pos]] = response.responder
             /\ Found(query.configured[pos])
    <3>1. query.configured[pos] \in Cert /\ query.configured[pos] \in Range(query.configured)
      BY <1>5, <2>1 DEF Range
    <3> QED
      BY <1>f, <2>0, <2>1, <3>1
  <2>2. CASE /\ pos \in DOMAIN query.configured
             /\ query.subject[query.configured[pos]] # response.responder
             /\ pos' = pos + 1 /\ UNCHANGED <<pc, responder, verdict>>
    <3>1. NotConfigured(pos)
      BY <1>0, <2>0, <2>2 DEF NotConfigured
    <3>2. pos' - 1 = pos /\ pos' <= Len(query.configured) + 1
      BY <1>0, <1>5, <2>2
    <3> QED
      BY <1>0, <2>0, <2>2, <3>1, <3>2 DEF OnTrack, NotConfigured, AfterSearch
  <2>3. CASE pos \notin DOMAIN query.configured /\ pos' = 1 /\ Check(~NoIssuer, "embedded")
    <3>1. NotConfigured(Len(query.configured))
      BY <1>0, <1>5, <2>0, <2>3 DEF NotConfigured
    <3>2. signer \notin Range(query.configured)
      BY <1>4, <1>5, <3>1, SignerIsListed DEF NotConfigured, Range
    <3>3. \E p \in Trust!IssuersOf(query) : TRUE
      BY <1>4, <3>2 DEF Signer, Trust!TrustedResponder, Trust!Range, Range
    <3>4. ~NoIssuer
      BY <1>0, <1>1, <3>3, SuppliedIsTaken DEF NoIssuer, Clear, NamesAreUnique
    <3>5. pc' = "embedded" /\ verdict' = "running"
      BY <2>0, <2>3, <3>4 DEF Check
    <3> QED
      BY <1>0, <1>5, <2>3, <3>1, <3>5 DEF OnTrack, NotConfigured, NotEmbedded, AfterSearch
  <2> QED
    BY <1>9, <2>1, <2>2, <2>3 DEF SearchConfigured
<1>10. CASE SearchEmbedded
  <2>0. /\ pc = "embedded" /\ NotConfigured(Len(query.configured)) /\ verdict = "running"
        /\ NotEmbedded(pos - 1) /\ pos <= Len(response.embedded) + 1
    BY <1>2, <1>10 DEF SearchEmbedded, OnTrack, IInv, TypeOK
  <2>1. signer \notin Range(query.configured)
    BY <1>4, <1>5, <2>0, SignerIsListed DEF NotConfigured, Range
  <2>2. /\ signer \in Range(response.embedded)
        /\ \E p \in Trust!IssuersOf(query) : Trust!Vouches(query, p, signer)
    BY <1>4, <2>1 DEF Signer, Trust!TrustedResponder, Trust!Range, Range, response
  <2>3. VerifiesWithIssuer(signer)
    <3>1. PICK p \in Trust!IssuersOf(query) : Trust!Vouches(query, p, signer)
      BY <2>2
    <3>2. PICK i \in DOMAIN Pool : IsIssuer(i) /\ Pool[i] = p
      BY <1>0, <1>1, SuppliedIsTaken DEF Clear, NamesAreUnique
    <3>3. VerifyResponderCertificate(signer, p)
      BY <3>1 DEF VerifyResponderCertificate, Trust!Vouches, Trust!InWindow
    <3> QED
      BY <3>2, <3>3 DEF VerifiesWithIssuer
  <2>4. pos \in DOMAIN response.embedded
    <3>1. PICK k \in DOMAIN response.embedded : response.embedded[k] = signer
      BY <2>2 DEF Range
    <3>2. query.subject[response.embedded[k]] = response.responder
      BY <1>4, <3>1, SignerIsListed
    <3>3. ~(k \in 1..(pos - 1))
      BY <2>0, <3>2 DEF NotEmbedded
    <3> QED
      BY <1>0, <1>5, <2>0, <3>1, <3>3
  <2>5. /\ response.embedded[pos] \in Cert /\ response.embedded[pos] # Unparsable
        /\ response.embedded[pos] \in Range(response.embedded)
    BY <1>5, <1>6, <2>4, OcspCheckAssumption DEF Range
  <2>6. CASE query.subject[response.embedded[pos]] = response.responder
    <3>1. response.embedded[pos] = signer
      BY <1>1, <1>4, <2>5, <2>6, SignerIsListed, OneOfTheName
    <3>2. Found(response.embedded[pos])
      BY <1>10, <2>3, <2>4, <2>5, <2>6, <3>1 DEF SearchEmbedded
    <3> QED
      BY <1>f, <2>0, <2>5, <2>6, <3>2
  <2>7. CASE query.subject[response.embedded[pos]] # response.responder
    <3>1. pos' = pos + 1 /\ UNCHANGED <<pc, responder, verdict>>
      BY <1>10, <2>4, <2>5, <2>7 DEF SearchEmbedded
    <3>2. NotEmbedded(pos) /\ pos' - 1 = pos /\ pos' <= Len(response.embedded) + 1
      BY <1>0, <1>5, <2>0, <2>4, <2>7, <3>1 DEF NotEmbedded
    <3> QED
      BY <1>0, <2>0, <3>1, <3>2 DEF OnTrack, NotConfigured, NotEmbedded, AfterSearch
  <2> QED
    BY <2>6, <2>7
<1>11. CASE VerifyResponseSignature
  <2>1. Signed
    BY <1>2, <1>11 DEF VerifyResponseSignature, OnTrack, AfterSearch
  <2>2. pc' = "window" /\ UNCHANGED <<verdict, responder>>
    BY <1>11, <2>1 DEF VerifyResponseSignature, Check, Signed
  <2> QED
    BY <1>0, <1>2, <2>1, <2>2 DEF OnTrack, Signed
<1>12. CASE CheckWindow
  <2>1. /\ response.producedAt \in Int /\ response.thisUpdate \in Int /\ query.maxAge \in Nat
    BY <1>0, QueryParts
  <2>2. /\ response.producedAt - response.thisUpdate >= 0
        /\ response.producedAt - response.thisUpdate <= query.maxAge
    BY <1>3, <2>1 DEF Trust!Fresh, response
  <2>3. pc' = "done" /\ verdict' = "accepted"
    BY <1>12, <2>2 DEF CheckWindow, Return
  <2> QED
    BY <2>3 DEF OnTrack, AfterSearch
<1>13. CASE UNCHANGED vars
  BY <1>0, <1>2, <1>13 DEF vars, OnTrack, NotConfigured, NotEmbedded, AfterSearch, Signed
<1> QED
  BY <1>7, <1>8, <1>9, <1>10, <1>11, <1>12, <1>13 DEF Next

(* Where no two of the certificates at hand share the issuer's or the      *)
(* responder's name, an attested response is not rejected, wherever its    *)
(* responder stands in the lists.                                          *)
THEOREM Completeness == Spec => []UniqueNamesSuffice
<1>1. Spec => []NeverRejects
  BY InitNeverRejects, NextNeverRejects, Invariance, PTL DEF Spec
<1>2. NeverRejects => UniqueNamesSuffice
  BY DEF NeverRejects, UniqueNamesSuffice, Clear, OnTrack
<1> QED
  BY <1>1, <1>2, PTL
=============================================================================
