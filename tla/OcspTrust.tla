----------------------------- MODULE OcspTrust ------------------------------
(***************************************************************************)
(* What the check of a stored OCSP response promises: it accepts a         *)
(* response only if that says "good" of the signer's certificate, was      *)
(* produced within the bound after its own thisUpdate, and is signed by a  *)
(* responder the verifier was told to trust or one that the signer's own   *)
(* issuer vouches for.                                                     *)
(***************************************************************************)
EXTENDS Integers, Sequences, Functions

CONSTANTS
  Cert,      (* certificates, by their encoding                            *)
  Name,      (* distinguished names                                        *)
  KeyId,     (* public keys, and what may pass for a key's hash            *)
  NoKeyId,   (* an authority key identifier that is absent                 *)
  Unparsable (* an embedded certificate that does not parse                *)

VARIABLES
  query,   (* the response, the certificates and the times                 *)
  verdict  (* "running", "accepted" or "rejected"                          *)

(* The CertID of a single response: "hash" tells whether its hash is SHA-1.*)
CertIDType == [hash : BOOLEAN, name : Name, key : KeyId, serial : Nat]

(* decodes: well-formed, successful, basic; by: the key that signed it.    *)
ResponseType ==
  [decodes : BOOLEAN, singles : Nat, good : BOOLEAN, id : CertIDType,
   responder : Name, embedded : Seq(Cert \cup {Unparsable}), algorithm : BOOLEAN,
   by : KeyId, thisUpdate : Int, producedAt : Int]

(* signed: the pairs <<c, p>> for which c.CheckSignatureFrom(p) succeeds;  *)
(* ocspSigning: the certificates whose extended key usages list it;        *)
(* anyUse: those that list the one for any use, or none at all.            *)
QueryType ==
  [subject : [Cert -> Name], issuer : [Cert -> Name], key : [Cert -> KeyId],
   signed : SUBSET (Cert \X Cert), ocspSigning : SUBSET Cert, anyUse : SUBSET Cert,
   notBefore : [Cert -> Int], notAfter : [Cert -> Int],
   configured : Seq(Cert), intermediates : Seq(Cert), roots : Seq(Cert),
   signer : [issuer : Name, aki : KeyId \cup {NoKeyId}, serial : Nat],
   at : Int, maxAge : Nat, response : ResponseType]

-----------------------------------------------------------------------------
Supplied(q) == Range(q.intermediates) \cup Range(q.roots)
IssuersOf(q) == {c \in Supplied(q) : q.subject[c] = q.signer.issuer}

InWindow(q, c) == q.notBefore[c] <= q.at /\ q.at <= q.notAfter[c]

(* A certificate p vouches for responder c: it is c, or it issued c, and   *)
(* no extended key usage of theirs forbids it to answer.  The comment of   *)
(* ocspResponder asks for more: see OcspCheck's EmbeddedHasUsage.          *)
Vouches(q, p, c) ==
  /\ c = p \/ (q.issuer[c] = q.subject[p] /\ <<c, p>> \in q.signed)
  /\ InWindow(q, c) /\ InWindow(q, p)
  /\ {c, p} \subseteq q.ocspSigning \cup q.anyUse

(* The response is about the signer: issuer name and serial are his, the   *)
(* key is the one his certificate names or that of a supplied issuer.      *)
AboutSigner(q) ==
  LET id == q.response.id IN
  /\ id.hash /\ id.name = q.signer.issuer /\ id.serial = q.signer.serial
  /\ id.key = q.signer.aki \/ \E p \in IssuersOf(q) : id.key = q.key[p]

TrustedResponder(q, c) ==
  /\ c \in Cert /\ q.subject[c] = q.response.responder
  /\ \/ c \in Range(q.configured)
     \/ c \in Range(q.response.embedded) /\ \E p \in IssuersOf(q) : Vouches(q, p, c)

Fresh(q) ==
  /\ q.response.thisUpdate <= q.response.producedAt
  /\ q.response.producedAt <= q.response.thisUpdate + q.maxAge

Attested(q) ==
  /\ q.response.decodes /\ q.response.singles = 1 /\ q.response.good
  /\ AboutSigner(q) /\ Fresh(q) /\ q.response.algorithm
  /\ \E c \in Cert : TrustedResponder(q, c) /\ q.key[c] = q.response.by

-----------------------------------------------------------------------------
Init == verdict = "running"

Accept == Attested(query) /\ verdict' = "accepted"
Reject == verdict' = "rejected"

Next == verdict = "running" /\ UNCHANGED query /\ (Accept \/ Reject)

Spec == Init /\ [][Next]_<<query, verdict>>
=============================================================================
