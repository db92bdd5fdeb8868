----------------------------- MODULE TrustPath ------------------------------
(***************************************************************************)
(* What a certificate chain verifier promises: it accepts a signer         *)
(* certificate only if some path of issuers leads from it to a trust       *)
(* anchor, every certificate on it being within its validity window.       *)
(* Which path, and whether one is found, is left open.                     *)
(***************************************************************************)
EXTENDS Integers, Sequences, Functions

CONSTANTS
  Cert,    (* certificates, by their encoding                              *)
  Subject, (* distinguished names                                          *)
  MaxChain (* certificates in the longest chain accepted                   *)

VARIABLES
  pki,    (* what the verifier is given: the certificates' fields, the     *)
          (* trust certificates, the leaf and the signing time             *)
  verdict (* "running", "accepted" or "rejected"                           *)

(* signed: the pairs <<c, p>> for which c.CheckSignatureFrom(p) succeeds.  *)
PkiType ==
  [subject : [Cert -> Subject], issuer : [Cert -> Subject],
   signed : SUBSET (Cert \X Cert),
   notBefore : [Cert -> Int], notAfter : [Cert -> Int],
   commitment : SUBSET Cert, sha1 : SUBSET Cert,
   roots : Seq(Cert), intermediates : Seq(Cert),
   leaf : Cert, at : Int]

Issues(k, p, c)  == k.subject[p] = k.issuer[c] /\ <<c, p>> \in k.signed
InWindow(k, c)   == k.notBefore[c] <= k.at /\ k.at <= k.notAfter[c]
IsRoot(k, c)     == c \in Range(k.roots)
Supplied(k)      == Range(k.intermediates) \cup Range(k.roots)

(* A path from the leaf to a trust anchor, which lies on it only at its    *)
(* end.                                                                    *)
IsPath(k, p, n) ==
  /\ p[1] = k.leaf
  /\ \A i \in 1..n : InWindow(k, p[i])
  /\ \A i \in 1..(n - 1) : ~IsRoot(k, p[i])
  /\ \A i \in 1..(n - 1) : p[i + 1] \in Supplied(k) /\ Issues(k, p[i + 1], p[i])
  /\ IsRoot(k, p[n])

PathExists(k) == \E n \in 1..MaxChain : \E p \in [1..n -> Cert] : IsPath(k, p, n)

MaySign(k) == k.leaf \in k.commitment /\ k.leaf \notin k.sha1

-----------------------------------------------------------------------------
Init == verdict = "running"

Accept == MaySign(pki) /\ PathExists(pki) /\ verdict' = "accepted"
Reject == verdict' = "rejected"

Next == verdict = "running" /\ UNCHANGED pki /\ (Accept \/ Reject)

Spec == Init /\ [][Next]_<<pki, verdict>>
=============================================================================
