----------------------------- MODULE OcspCheck ------------------------------
(***************************************************************************)
(* checkOCSPResponse of a stored OCSP response, with the standard          *)
(* OCSPVerifierModule: the response is decoded and matched with the        *)
(* signer, its responder is looked for among the configured certificates   *)
(* and then among the embedded ones, and its signature and times are       *)
(* checked.  The first certificate with the responder's name decides; no   *)
(* other is tried.                                                         *)
(***************************************************************************)
EXTENDS Integers, Sequences, Functions

CONSTANTS Cert, Name, KeyId, NoKeyId, Unparsable, \* as in OcspTrust
          Query                                   \* the inputs considered

VARIABLES
  query,     (* the inputs                                                 *)
  pc,        (* the step to run next                                       *)
  pos,       (* the certificate to look at, in the list searched           *)
  responder, (* the responder found: a sequence of at most one             *)
  verdict    (* "running", "accepted" or "rejected"                        *)

vars == <<query, pc, pos, responder, verdict>>

Trust == INSTANCE OcspTrust

ASSUME OcspCheckAssumption ==
  /\ NoKeyId \notin KeyId /\ Unparsable \notin Cert
  /\ Query \subseteq Trust!QueryType

Init ==
  /\ query \in Query
  /\ pc = "decode" /\ pos = 1 /\ responder = <<>> /\ verdict = "running"

response == query.response
Pool     == query.intermediates \o query.roots

Return(v) == verdict' = v /\ pc' = "done"

(* Mutant: a failure is noted and the check goes on.                       *)
CheckGoesOn(ok, next) ==
  /\ pc' = next
  /\ \/ ok /\ UNCHANGED verdict
     \/ ~ok /\ verdict' = "rejected"

(* A check that ends in failure or goes on.                                *)
Check(ok, next) ==
  \/ ok /\ pc' = next /\ UNCHANGED verdict
  \/ ~ok /\ Return("rejected")

-----------------------------------------------------------------------------
(* Mutant: any number of single responses, the first of which counts.      *)
DecodeAnyNumber ==
  /\ pc = "decode"
  /\ Check(response.decodes /\ response.singles > 0 /\ response.good, "certID")
  /\ UNCHANGED <<query, pos, responder>>

Decode ==
  /\ pc = "decode"
  /\ Check(response.decodes /\ response.singles = 1 /\ response.good, "certID")
  /\ UNCHANGED <<query, pos, responder>>

(* issuerCertificate: the first certificate of the signer's issuer's name. *)
IsIssuer(i) ==
  /\ query.subject[Pool[i]] = query.signer.issuer
  /\ \A j \in 1..(i - 1) : query.subject[Pool[j]] # query.signer.issuer
NoIssuer == \A i \in DOMAIN Pool : ~IsIssuer(i)

(* Mutant: the authority key identifier alone names the issuer's key.      *)
KeyHashByConvention == response.id.key = query.signer.aki

(* Either the authority key identifier of the signer's certificate or the  *)
(* hash of the issuer's key.                                               *)
KeyHashOK ==
  \/ response.id.key = query.signer.aki
  \/ \E i \in DOMAIN Pool : IsIssuer(i) /\ response.id.key = query.key[Pool[i]]

MatchCertID ==
  /\ pc = "certID"
  /\ Check(/\ response.id.hash /\ response.id.name = query.signer.issuer
           /\ response.id.serial = query.signer.serial /\ KeyHashOK,
           "configured")
  /\ UNCHANGED <<query, pos, responder>>

Found(c) == responder' = <<c>> /\ pc' = "signature" /\ UNCHANGED <<pos, verdict>>

(* Mutant: the search never moves to the next certificate.                 *)
SearchConfiguredInPlace ==
  /\ pc = "configured"
  /\ \/ /\ pos \in DOMAIN query.configured
        /\ query.subject[query.configured[pos]] = response.responder
        /\ Found(query.configured[pos])
     \/ /\ pos \in DOMAIN query.configured
        /\ query.subject[query.configured[pos]] # response.responder
        /\ UNCHANGED <<pc, pos, responder, verdict>>
     \/ /\ pos \notin DOMAIN query.configured
        /\ pos' = 1 /\ UNCHANGED responder
        /\ Check(~NoIssuer, "embedded")
  /\ UNCHANGED query

(* A configured certificate of the name is the responder, without a look   *)
(* at its window or its use.                                               *)
SearchConfigured ==
  /\ pc = "configured"
  /\ \/ /\ pos \in DOMAIN query.configured
        /\ query.subject[query.configured[pos]] = response.responder
        /\ Found(query.configured[pos])
     \/ /\ pos \in DOMAIN query.configured
        /\ query.subject[query.configured[pos]] # response.responder
        /\ pos' = pos + 1 /\ UNCHANGED <<pc, responder, verdict>>
     \/ /\ pos \notin DOMAIN query.configured
        /\ pos' = 1 /\ UNCHANGED responder
        /\ Check(~NoIssuer, "embedded")
  /\ UNCHANGED query

(* Mutant: the issuer's own window is not looked at.                       *)
VerifiesAnyTime(c, p) ==
  /\ c = p \/ (query.issuer[c] = query.subject[p] /\ <<c, p>> \in query.signed)
  /\ query.notBefore[c] <= query.at /\ query.at <= query.notAfter[c]
  /\ {c, p} \subseteq query.ocspSigning \cup query.anyUse

(* VerifyResponderCertificate: a chain of crypto/x509 to the issuer alone, *)
(* at the signing time.  It is asked for the OCSPSigning usage, and takes  *)
(* a certificate without extended key usages as one for any use.           *)
VerifyResponderCertificate(c, p) ==
  /\ c = p \/ (query.issuer[c] = query.subject[p] /\ <<c, p>> \in query.signed)
  /\ \A x \in {c, p} : query.notBefore[x] <= query.at /\ query.at <= query.notAfter[x]
  /\ {c, p} \subseteq query.ocspSigning \cup query.anyUse

VerifiesWithIssuer(c) ==
  \E i \in DOMAIN Pool : IsIssuer(i) /\ VerifyResponderCertificate(c, Pool[i])

(* The embedded certificates up to the first of the name must parse, and   *)
(* that one must verify.                                                   *)
SearchEmbedded ==
  /\ pc = "embedded"
  /\ \/ /\ pos \in DOMAIN response.embedded
        /\ response.embedded[pos] # Unparsable
        /\ LET c == response.embedded[pos] IN
           \/ /\ query.subject[c] = response.responder /\ VerifiesWithIssuer(c)
              /\ Found(c)
           \/ /\ query.subject[c] = response.responder /\ ~VerifiesWithIssuer(c)
              /\ Return("rejected") /\ UNCHANGED <<pos, responder>>
           \/ /\ query.subject[c] # response.responder
              /\ pos' = pos + 1 /\ UNCHANGED <<pc, responder, verdict>>
     \/ /\ (pos \in DOMAIN response.embedded => response.embedded[pos] = Unparsable)
        /\ Return("rejected") /\ UNCHANGED <<pos, responder>>
  /\ UNCHANGED query

VerifyResponseSignature ==
  /\ pc = "signature"
  /\ Check(response.algorithm /\ query.key[responder[1]] = response.by, "window")
  /\ UNCHANGED <<query, pos, responder>>

CheckWindow ==
  /\ pc = "window"
  /\ LET age == response.producedAt - response.thisUpdate
         ok  == age >= 0 /\ age <= query.maxAge
     IN  \/ ok /\ Return("accepted")
         \/ ~ok /\ Return("rejected")
  /\ UNCHANGED <<query, pos, responder>>

Next ==
  \/ Decode \/ MatchCertID \/ SearchConfigured \/ SearchEmbedded
  \/ VerifyResponseSignature \/ CheckWindow

(* One goroutine that waits for nothing: it keeps running.                 *)
Spec == Init /\ [][Next]_vars /\ WF_vars(Next)

-----------------------------------------------------------------------------
(* Types: what each variable may hold at each step.                        *)
TypeOK ==
  /\ query \in Trust!QueryType
  /\ pc \in {"decode", "certID", "configured", "embedded", "signature", "window", "done"}
  /\ pos \in Nat \ {0}
  /\ responder \in Seq(Cert) /\ Len(responder) <= 1
  /\ pc \in {"signature", "window"} => responder # <<>>
  /\ verdict \in {"running", "accepted", "rejected"}
  /\ pc = "done" <=> verdict # "running"

(* checkOCSPResponse accepts no response that a trusted responder did not  *)
(* sign for this signer, and its verdict stands.                           *)
AcceptsAttested == Trust!Spec

(* Where names tell certificates apart, taking the first one of a name     *)
(* loses nothing: an attested response is accepted.                        *)
NamesAreUnique ==
  /\ \A c, d \in Trust!IssuersOf(query) : c = d
  /\ \A c, d \in Range(query.configured) \cup Range(response.embedded) :
       {c, d} \subseteq Cert /\ query.subject[c] = response.responder
         /\ query.subject[d] = response.responder => c = d
UniqueNamesSuffice ==
  verdict = "rejected" /\ NamesAreUnique /\ Unparsable \notin Range(response.embedded)
    => ~Trust!Attested(query)

(* The search ends.                                                        *)
Decides == <>(verdict # "running")

(* verify.go:73 "when the embedded responder certificate is not in the     *)
(* list, the response is verified against the signer's issuer certificate  *)
(* instead".                                                               *)
FallsBackToIssuer ==
  verdict = "rejected" /\ Trust!Attested(query) /\ (\A c, d \in Trust!IssuersOf(query) : c = d) =>
    ~\E c \in Cert :
       /\ response.embedded = <<c>> /\ c \notin Range(query.configured)
       /\ query.key[c] = response.by /\ query.subject[c] = response.responder
       /\ VerifiesWithIssuer(c)

(* verify_signature.go:994 the responder is "the first embedded            *)
(* certificate with a matching subject that chains to the signer's issuer  *)
(* with the OCSPSigning EKU": the one an issuer delegates to has it.       *)
EmbeddedHasUsage ==
  verdict = "accepted" =>
    responder[1] \in Range(query.configured) \cup Trust!IssuersOf(query) \cup query.ocspSigning
=============================================================================
