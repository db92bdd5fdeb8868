----------------------------- MODULE CertChain ------------------------------
(***************************************************************************)
(* VerifyChain of the standard CertificateChainModule: the leaf's key      *)
(* usage and signature algorithm are looked at first, then the chain grows *)
(* edge by edge, each time with the first certificate of the pool that     *)
(* fits, until it reaches a trust anchor.  It never goes back.             *)
(***************************************************************************)
EXTENDS Integers, Sequences, Functions

CONSTANTS Cert, Subject, MaxChain, \* as in TrustPath; MaxChain is 16
          Pki                      \* the inputs considered

VARIABLES pki, pc, chain, verdict

vars == <<pki, pc, chain, verdict>>

Path == INSTANCE TrustPath

ASSUME CertChainAssumption ==
  /\ MaxChain \in Nat \ {0}
  /\ Pki \subseteq Path!PkiType

Init ==
  /\ pki \in Pki
  /\ pc = "leaf" /\ chain = <<>> /\ verdict = "running"

Current == chain[Len(chain)]
Pool    == pki.intermediates \o pki.roots

Return(v) == verdict' = v /\ pc' = "done"

(* Mutant: the leaf's key usage is not looked at.                          *)
CheckLeafAnyUsage ==
  /\ pc = "leaf"
  /\ \/ pki.leaf \in pki.sha1 /\ Return("rejected") /\ UNCHANGED chain
     \/ /\ pki.leaf \notin pki.sha1
        /\ chain' = <<pki.leaf>> /\ pc' = "validity" /\ UNCHANGED verdict
  /\ UNCHANGED pki

CheckLeaf ==
  /\ pc = "leaf"
  /\ \/ /\ pki.leaf \notin pki.commitment \/ pki.leaf \in pki.sha1
        /\ Return("rejected") /\ UNCHANGED chain
     \/ /\ pki.leaf \in pki.commitment /\ pki.leaf \notin pki.sha1
        /\ chain' = <<pki.leaf>> /\ pc' = "validity" /\ UNCHANGED verdict
  /\ UNCHANGED pki

(* Mutant: the last instant of the window is outside it.                   *)
ValidBefore(c) == ~(pki.at < pki.notBefore[c]) /\ ~(pki.at >= pki.notAfter[c])

(* Both ends of the window are within it.                                  *)
ValidAt(c) == ~(pki.at < pki.notBefore[c]) /\ ~(pki.at > pki.notAfter[c])

CheckValidity ==
  /\ pc = "validity"
  /\ \/ ValidAt(Current)  /\ pc' = "anchor" /\ UNCHANGED verdict
     \/ ~ValidAt(Current) /\ Return("rejected")
  /\ UNCHANGED <<pki, chain>>

PoolContains(c) == \E i \in DOMAIN pki.roots : pki.roots[i] = c

CheckAnchor ==
  /\ pc = "anchor"
  /\ \/ PoolContains(Current)  /\ Return("accepted")
     \/ ~PoolContains(Current) /\ pc' = "issuer" /\ UNCHANGED verdict
  /\ UNCHANGED <<pki, chain>>

(* Mutant: the issuer is found by its name alone.                          *)
FitsByName(i) == pki.subject[Pool[i]] = pki.issuer[Current]

Fits(i) ==
  /\ pki.subject[Pool[i]] = pki.issuer[Current]
  /\ <<Current, Pool[i]>> \in pki.signed

(* Mutants: no chain limit for one more certificate; the chain does not    *)
(* grow, so that its length limits nothing.                                *)
FindIssuerOneMore ==
  /\ pc = "issuer"
  /\ \/ (\A i \in DOMAIN Pool : ~Fits(i)) /\ Return("rejected") /\ UNCHANGED chain
     \/ \E i \in DOMAIN Pool :
          /\ Fits(i) /\ \A j \in 1..(i - 1) : ~Fits(j)
          /\ chain' = Append(chain, Pool[i])
          /\ IF Len(chain) > MaxChain
             THEN Return("rejected")
             ELSE pc' = "validity" /\ UNCHANGED verdict
  /\ UNCHANGED pki
FindIssuerInPlace ==
  /\ pc = "issuer"
  /\ \/ (\A i \in DOMAIN Pool : ~Fits(i)) /\ Return("rejected") /\ UNCHANGED chain
     \/ \E i \in DOMAIN Pool :
          /\ Fits(i) /\ \A j \in 1..(i - 1) : ~Fits(j)
          /\ chain' = [chain EXCEPT ![Len(chain)] = Pool[i]]
          /\ pc' = "validity" /\ UNCHANGED verdict
  /\ UNCHANGED pki

FindIssuer ==
  /\ pc = "issuer"
  /\ \/ /\ \A i \in DOMAIN Pool : ~Fits(i)
        /\ Return("rejected") /\ UNCHANGED chain
     \/ \E i \in DOMAIN Pool :
          /\ Fits(i) /\ \A j \in 1..(i - 1) : ~Fits(j)
          /\ chain' = Append(chain, Pool[i])
          /\ IF Len(chain') > MaxChain
             THEN Return("rejected")
             ELSE pc' = "validity" /\ UNCHANGED verdict
  /\ UNCHANGED pki

Next == CheckLeaf \/ CheckValidity \/ CheckAnchor \/ FindIssuer

Spec == Init /\ [][Next]_vars /\ WF_vars(Next)

-----------------------------------------------------------------------------
(* Types: the chain holds certificates and at most one more of them than a *)
(* chain may have.                                                         *)
TypeOK ==
  /\ pki \in Path!PkiType
  /\ pc \in {"leaf", "validity", "anchor", "issuer", "done"}
  /\ chain \in Seq(Cert)
  /\ Len(chain) <= MaxChain + 1
  /\ verdict \in {"running", "accepted", "rejected"}

(* An accepted chain is a path from the signer's certificate to a trust    *)
(* anchor: every edge is signed, every certificate on it is within its     *)
(* window at the signing time, and it is not longer than the limit.        *)
AcceptedIsPath ==
  verdict = "accepted" =>
    /\ Path!MaySign(pki)
    /\ Len(chain) \in 1..MaxChain
    /\ Path!IsPath(pki, chain, Len(chain))

(* The verifier accepts nothing that has no path, and its verdict stands.  *)
ChainIsSound == Path!Spec

(* Where no two supplied certificates fit the same one, not going back     *)
(* loses nothing: a signer certificate with a path is accepted.            *)
Unambiguous ==
  \A c, p, q \in Cert :
    {p, q} \subseteq Path!Supplied(pki) /\ Path!Issues(pki, p, c) /\ Path!Issues(pki, q, c)
      => p = q
UnambiguousIsComplete ==
  verdict = "rejected" /\ Unambiguous => ~(Path!MaySign(pki) /\ Path!PathExists(pki))

(* The walk ends, also on certificates that issue each other in a circle.  *)
WalkEnds == <>(verdict # "running")
=============================================================================
