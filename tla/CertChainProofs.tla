-------------------------- MODULE CertChainProofs ---------------------------
(***************************************************************************)
(* Proofs about the chain walk, for any set of certificates, any trust     *)
(* certificates and any chain limit.                                       *)
(***************************************************************************)
EXTENDS CertChain, SequenceTheorems, TLAPS

(* The pool holds the supplied trust certificates and nothing else.        *)
LEMMA PoolIsSupplied ==
  ASSUME pki \in Path!PkiType
  PROVE  /\ Pool \in Seq(Cert)
         /\ \A c : c \in Path!Supplied(pki) <=> \E i \in DOMAIN Pool : Pool[i] = c
<1>1. pki.intermediates \in Seq(Cert) /\ pki.roots \in Seq(Cert)
  BY DEF Path!PkiType
<1>2. Pool \in Seq(Cert) /\ Range(Pool) = Range(pki.intermediates) \cup Range(pki.roots)
  BY <1>1, ConcatProperties, RangeConcatenation DEF Pool
<1>3. Path!Supplied(pki) = Range(Pool)
  BY <1>2 DEF Path!Supplied, Path!Range, Range
<1> QED
  BY <1>2, <1>3 DEF Range

-----------------------------------------------------------------------------
(* What the walk has established about the chain it has built so far.      *)
Walked ==
  /\ chain[1] = pki.leaf
  /\ \A i \in 1..(Len(chain) - 1) :
       /\ Path!InWindow(pki, chain[i]) /\ ~Path!IsRoot(pki, chain[i])
       /\ chain[i + 1] \in Path!Supplied(pki)
       /\ Path!Issues(pki, chain[i + 1], chain[i])

Walking == {"validity", "anchor", "issuer"}

IInv ==
  /\ TypeOK
  /\ pc = "done" <=> verdict # "running"
  /\ pc = "leaf" => chain = <<>>
  /\ pc \in Walking => Len(chain) \in 1..MaxChain
  /\ Len(chain) > 0 => Path!MaySign(pki) /\ Walked
  /\ pc \in {"anchor", "issuer"} => Path!InWindow(pki, Current)
  /\ pc = "issuer" => ~Path!IsRoot(pki, Current)
  /\ verdict = "accepted" =>
       /\ Len(chain) \in 1..MaxChain
       /\ Path!InWindow(pki, Current) /\ Path!IsRoot(pki, Current)

(* The two ways of writing the tests of the walk agree.                    *)
LEMMA Tests ==
  ASSUME pki \in Path!PkiType, NEW c \in Cert
  PROVE  /\ ValidAt(c) <=> Path!InWindow(pki, c)
         /\ PoolContains(c) <=> Path!IsRoot(pki, c)
<1>1. /\ pki.at \in Int /\ pki.notBefore[c] \in Int /\ pki.notAfter[c] \in Int
  BY DEF Path!PkiType
<1>2. ValidAt(c) <=> Path!InWindow(pki, c)
  BY <1>1 DEF ValidAt, Path!InWindow
<1>3. PoolContains(c) <=> Path!IsRoot(pki, c)
  BY DEF PoolContains, Path!IsRoot, Path!Range
<1> QED
  BY <1>2, <1>3

LEMMA InitIInv == Init => IInv
<1> SUFFICES ASSUME Init PROVE IInv
  OBVIOUS
<1>1. pki \in Path!PkiType /\ MaxChain \in Nat \ {0}
  BY CertChainAssumption DEF Init
<1>2. chain = <<>> /\ Len(chain) = 0 /\ chain \in Seq(Cert)
  BY DEF Init
<1> QED
  BY <1>1, <1>2 DEF Init, IInv, TypeOK, Walking

LEMMA NextIInv == IInv /\ [Next]_vars => IInv'
<1> SUFFICES ASSUME IInv, [Next]_vars PROVE IInv'
  OBVIOUS
<1>0. /\ pki \in Path!PkiType /\ MaxChain \in Nat \ {0}
      /\ chain \in Seq(Cert) /\ Len(chain) \in Nat /\ pki.leaf \in Cert
  BY CertChainAssumption DEF IInv, TypeOK, Path!PkiType
<1>1. CASE CheckLeaf
  <2>1. CASE pki.leaf \notin pki.commitment \/ pki.leaf \in pki.sha1
    <3>1. verdict' = "rejected" /\ pc' = "done" /\ UNCHANGED <<pki, chain>>
      BY <1>1, <2>1 DEF CheckLeaf, Return
    <3> QED
      BY <3>1, <1>0, <1>1 DEF IInv, TypeOK, Walking, Walked, CheckLeaf, Current
  <2>2. CASE pki.leaf \in pki.commitment /\ pki.leaf \notin pki.sha1
    <3>1. chain' = <<pki.leaf>> /\ pc' = "validity" /\ UNCHANGED <<pki, verdict>> /\ pc = "leaf"
      BY <1>1, <2>2 DEF CheckLeaf
    <3>2. chain' \in Seq(Cert) /\ Len(chain') = 1 /\ chain'[1] = pki.leaf
      BY <3>1, <1>0
    <3>3. verdict = "running"
      BY <3>1 DEF IInv
    <3>4. Path!MaySign(pki)' /\ Walked'
      BY <2>2, <3>1, <3>2 DEF Path!MaySign, Walked
    <3>5. TypeOK'
      BY <3>1, <3>2, <3>3, <1>0 DEF TypeOK
    <3> QED
      BY <3>1, <3>2, <3>3, <3>4, <3>5, <1>0 DEF IInv, Walking
  <2> QED
    BY <2>1, <2>2
<1>2. CASE CheckValidity
  <2>1. /\ pc = "validity" /\ UNCHANGED <<pki, chain>> /\ Current \in Cert
        /\ Len(chain) \in 1..MaxChain /\ verdict = "running"
    BY <1>0, <1>2 DEF CheckValidity, IInv, Walking, Current
  <2>2. CASE ValidAt(Current) /\ pc' = "anchor" /\ UNCHANGED verdict
    BY <2>1, <2>2, <1>0, Tests DEF IInv, TypeOK, Walking, Walked, Current
  <2>3. CASE Return("rejected")
    BY <2>1, <2>3, <1>0 DEF IInv, TypeOK, Walking, Walked, Current, Return
  <2> QED
    BY <1>2, <2>2, <2>3 DEF CheckValidity
<1>3. CASE CheckAnchor
  <2>1. /\ pc = "anchor" /\ UNCHANGED <<pki, chain>> /\ Current \in Cert
        /\ Len(chain) \in 1..MaxChain /\ verdict = "running" /\ Path!InWindow(pki, Current)
    BY <1>0, <1>3 DEF CheckAnchor, IInv, Walking, Current
  <2>2. CASE PoolContains(Current) /\ Return("accepted")
    BY <2>1, <2>2, <1>0, Tests DEF IInv, TypeOK, Walking, Walked, Current, Return
  <2>3. CASE ~PoolContains(Current) /\ pc' = "issuer" /\ UNCHANGED verdict
    BY <2>1, <2>3, <1>0, Tests DEF IInv, TypeOK, Walking, Walked, Current
  <2> QED
    BY <1>3, <2>2, <2>3 DEF CheckAnchor
<1>4. CASE FindIssuer
  <2>1. /\ pc = "issuer" /\ UNCHANGED pki /\ Current \in Cert
        /\ Len(chain) \in 1..MaxChain /\ verdict = "running"
        /\ Path!InWindow(pki, Current) /\ ~Path!IsRoot(pki, Current)
        /\ Path!MaySign(pki) /\ Walked
    BY <1>0, <1>4 DEF FindIssuer, IInv, Walking, Current
  <2>2. CASE Return("rejected") /\ UNCHANGED chain
    BY <2>1, <2>2, <1>0 DEF IInv, TypeOK, Walking, Walked, Current, Return
  <2>3. ASSUME NEW i \in DOMAIN Pool, Fits(i), chain' = Append(chain, Pool[i]),
               IF Len(chain') > MaxChain
               THEN Return("rejected")
               ELSE pc' = "validity" /\ UNCHANGED verdict
        PROVE  IInv'
    <3>1. Pool[i] \in Cert /\ Pool[i] \in Path!Supplied(pki)
      BY <1>0, PoolIsSupplied
    <3>2. Path!Issues(pki, Pool[i], Current)
      BY <2>3 DEF Fits, Path!Issues
    <3>3. /\ chain' \in Seq(Cert) /\ Len(chain') = Len(chain) + 1
          /\ \A j \in 1..Len(chain) : chain'[j] = chain[j]
          /\ chain'[Len(chain) + 1] = Pool[i]
      BY <1>0, <2>3, <3>1
    <3>4. Walked'
      <4>1. chain'[1] = pki'.leaf
        BY <2>1, <3>3 DEF Walked
      <4>2. ASSUME NEW j \in 1..(Len(chain') - 1)
            PROVE  /\ Path!InWindow(pki, chain'[j]) /\ ~Path!IsRoot(pki, chain'[j])
                   /\ chain'[j + 1] \in Path!Supplied(pki)
                   /\ Path!Issues(pki, chain'[j + 1], chain'[j])
        <5>1. CASE j = Len(chain)
          <6>1. chain'[j] = Current /\ chain'[j + 1] = Pool[i]
            BY <5>1, <3>3, <2>1 DEF Current
          <6> QED
            BY <6>1, <2>1, <3>1, <3>2
        <5>2. CASE j # Len(chain)
          <6>1. j \in 1..(Len(chain) - 1) /\ chain'[j] = chain[j] /\ chain'[j + 1] = chain[j + 1]
            BY <5>2, <4>2, <3>3, <1>0
          <6> QED
            BY <6>1, <2>1 DEF Walked
        <5> QED
          BY <5>1, <5>2
      <4> QED
        BY <4>1, <4>2, <2>1 DEF Walked
    <3>5. Path!MaySign(pki)'
      BY <2>1
    <3>6. CASE Len(chain') > MaxChain
      <4>1. verdict' = "rejected" /\ pc' = "done"
        BY <2>3, <3>6 DEF Return
      <4>2. TypeOK'
        BY <4>1, <3>3, <2>1, <1>0 DEF TypeOK
      <4> QED
        BY <4>1, <4>2, <3>4, <3>5 DEF IInv, Walking
    <3>7. CASE ~(Len(chain') > MaxChain)
      <4>1. verdict' = "running" /\ pc' = "validity"
        BY <2>1, <2>3, <3>7
      <4>2. TypeOK'
        BY <4>1, <3>3, <2>1, <1>0 DEF TypeOK
      <4>3. Len(chain') \in 1..MaxChain
        BY <3>3, <3>7, <2>1, <1>0
      <4> QED
        BY <4>1, <4>2, <4>3, <3>4, <3>5 DEF IInv, Walking
    <3> QED
      BY <3>6, <3>7
  <2> QED
    BY <1>4, <2>2, <2>3 DEF FindIssuer
<1>5. CASE UNCHANGED vars
  BY <1>5 DEF vars, IInv, TypeOK, Walking, Walked, Current
<1> QED
  BY <1>1, <1>2, <1>3, <1>4, <1>5 DEF Next

LEMMA Invariance == Spec => []IInv
BY InitIInv, NextIInv, PTL DEF Spec

(* The chain never holds anything but certificates, nor more than one over *)
(* the limit.                                                              *)
THEOREM TypeCorrect == Spec => []TypeOK
<1>1. IInv => TypeOK
  BY DEF IInv
<1> QED
  BY <1>1, Invariance, PTL

LEMMA IInvAccepted == IInv => AcceptedIsPath
<1> SUFFICES ASSUME IInv, verdict = "accepted"
             PROVE  /\ Path!MaySign(pki) /\ Len(chain) \in 1..MaxChain
                    /\ Path!IsPath(pki, chain, Len(chain))
  BY DEF AcceptedIsPath
<1>1. /\ Len(chain) \in 1..MaxChain /\ Path!InWindow(pki, Current) /\ Path!IsRoot(pki, Current)
      /\ Len(chain) \in Nat /\ MaxChain \in Nat
  BY CertChainAssumption DEF IInv
<1>2. Path!MaySign(pki) /\ Walked
  BY <1>1 DEF IInv
<1>3. \A i \in 1..Len(chain) : Path!InWindow(pki, chain[i])
  <2> TAKE i \in 1..Len(chain)
  <2>1. CASE i = Len(chain)
    BY <2>1, <1>1 DEF Current
  <2>2. CASE i # Len(chain)
    BY <2>2, <1>1, <1>2 DEF Walked
  <2> QED
    BY <2>1, <2>2
<1> QED
  BY <1>1, <1>2, <1>3 DEF Path!IsPath, Walked, Current

(* VerifyChain accepts a signer certificate only along a path of signed    *)
(* edges, valid at the signing time, that ends at a trust anchor.          *)
THEOREM Soundness == Spec => []AcceptedIsPath
BY IInvAccepted, Invariance, PTL

LEMMA StepRefines == IInv /\ IInv' /\ [Next]_vars => [Path!Next]_<<pki, verdict>>
<1> SUFFICES ASSUME IInv, IInv', [Next]_vars, ~UNCHANGED <<pki, verdict>> PROVE Path!Next
  OBVIOUS
<1>1. /\ UNCHANGED pki /\ verdict = "running" /\ verdict' \in {"accepted", "rejected"}
  BY DEF IInv, Next, CheckLeaf, CheckValidity, CheckAnchor, FindIssuer, Return, vars
<1>2. CASE verdict' = "accepted"
  <2>1. AcceptedIsPath'
    BY IInvAccepted, PTL
  <2>2. /\ Path!MaySign(pki) /\ Len(chain') \in 1..MaxChain
        /\ Path!IsPath(pki, chain', Len(chain'))
    BY <1>1, <1>2, <2>1 DEF AcceptedIsPath
  <2>3. chain' \in [1..Len(chain') -> Cert]
    BY DEF IInv, TypeOK
  <2> QED
    BY <1>1, <1>2, <2>2, <2>3 DEF Path!Next, Path!Accept, Path!PathExists
<1>3. CASE verdict' = "rejected"
  BY <1>1, <1>3 DEF Path!Next, Path!Reject
<1> QED
  BY <1>1, <1>2, <1>3

(* The walk implements the abstract verifier: whatever it accepts has a    *)
(* path, and a verdict once given is not changed.                          *)
THEOREM Refinement == Spec => ChainIsSound
<1>1. Init => Path!Init
  BY DEF Init, Path!Init
<1> QED
  BY <1>1, Invariance, StepRefines, PTL DEF Spec, ChainIsSound, Path!Spec

-----------------------------------------------------------------------------
(***************************************************************************)
(* Completeness.  Take any path from the leaf to a trust anchor.  If no    *)
(* two supplied certificates fit the same one, the walk cannot leave it.   *)
(***************************************************************************)
OnPath(p, n) ==
  /\ verdict # "rejected"
  /\ Len(chain) <= n
  /\ \A i \in 1..Len(chain) : chain[i] = p[i]
  /\ pc = "issuer" => Len(chain) < n

NeverLeaves ==
  Unambiguous /\ Path!MaySign(pki) =>
    \A n \in 1..MaxChain : \A p \in [1..n -> Cert] :
      Path!IsPath(pki, p, n) => OnPath(p, n)

LEMMA InitNeverLeaves == Init => NeverLeaves
BY DEF Init, NeverLeaves, OnPath

LEMMA NextNeverLeaves == IInv /\ NeverLeaves /\ [Next]_vars => NeverLeaves'
<1> SUFFICES ASSUME IInv, NeverLeaves, [Next]_vars, Unambiguous', Path!MaySign(pki)',
                    NEW n \in 1..MaxChain, NEW p \in [1..n -> Cert],
                    Path!IsPath(pki, p, n)'
             PROVE  OnPath(p, n)'
  BY DEF NeverLeaves
<1>0. UNCHANGED pki
  BY DEF Next, CheckLeaf, CheckValidity, CheckAnchor, FindIssuer, vars
<1>1. Unambiguous /\ Path!MaySign(pki) /\ Path!IsPath(pki, p, n)
  BY <1>0 DEF Unambiguous, Path!MaySign, Path!IsPath
<1>2. OnPath(p, n)
  BY <1>1 DEF NeverLeaves
<1>3. /\ pki \in Path!PkiType /\ MaxChain \in Nat \ {0} /\ n \in Nat
      /\ chain \in Seq(Cert) /\ Len(chain) \in Nat /\ pki.leaf \in Cert
  <2>1. /\ pki \in Path!PkiType /\ chain \in Seq(Cert)
    BY DEF IInv, TypeOK
  <2> QED
    BY <2>1, CertChainAssumption DEF Path!PkiType
<1>4. CASE CheckLeaf
  <2>1. chain' = <<pki.leaf>> /\ pc' = "validity" /\ UNCHANGED verdict
    BY <1>1, <1>4 DEF CheckLeaf, Path!MaySign
  <2>2. p[1] = pki.leaf /\ Len(chain') = 1 /\ chain'[1] = pki.leaf
    BY <1>1, <2>1 DEF Path!IsPath
  <2> QED
    BY <1>2, <1>3, <2>1, <2>2 DEF OnPath
<1>5. CASE CheckValidity
  <2>1. /\ Current = p[Len(chain)] /\ Current \in Cert /\ Len(chain) \in 1..n
        /\ UNCHANGED chain
    BY <1>2, <1>3, <1>5 DEF CheckValidity, Current, OnPath, IInv, Walking
  <2>2. ValidAt(Current)
    BY <1>1, <1>3, <2>1, Tests DEF Path!IsPath
  <2> QED
    BY <1>2, <1>5, <2>1, <2>2 DEF CheckValidity, OnPath
<1>6. CASE CheckAnchor
  <2>1. /\ Current = p[Len(chain)] /\ Current \in Cert /\ Len(chain) \in 1..n
        /\ UNCHANGED chain
    BY <1>2, <1>3, <1>6 DEF CheckAnchor, Current, OnPath, IInv, Walking
  <2>2. CASE PoolContains(Current) /\ Return("accepted")
    BY <1>2, <2>1, <2>2 DEF OnPath, Return
  <2>3. CASE ~PoolContains(Current) /\ pc' = "issuer" /\ UNCHANGED verdict
    <3>1. Path!IsRoot(pki, p[n])
      BY <1>1 DEF Path!IsPath
    <3>2. Len(chain) # n
      BY <1>3, <2>1, <2>3, <3>1, Tests
    <3> QED
      BY <1>2, <1>3, <2>1, <2>3, <3>2 DEF OnPath
  <2> QED
    BY <1>6, <2>2, <2>3 DEF CheckAnchor
<1>7. CASE FindIssuer
  <2> DEFINE next == p[Len(chain) + 1]
  <2>1. /\ Current = p[Len(chain)] /\ Current \in Cert
        /\ Len(chain) \in 1..(n - 1) /\ pc = "issuer"
    BY <1>2, <1>3, <1>7 DEF FindIssuer, Current, OnPath, IInv, Walking
  <2>2. /\ next \in Cert /\ next \in Path!Supplied(pki)
        /\ Path!Issues(pki, next, Current)
    BY <1>1, <1>3, <2>1 DEF Path!IsPath
  <2>3. PICK k \in DOMAIN Pool : Pool[k] = next
    BY <1>3, <2>2, PoolIsSupplied
  <2>4. Fits(k)
    BY <2>2, <2>3 DEF Fits, Path!Issues
  <2>5. PICK i \in DOMAIN Pool :
          /\ Fits(i) /\ chain' = Append(chain, Pool[i])
          /\ IF Len(chain') > MaxChain
             THEN Return("rejected")
             ELSE pc' = "validity" /\ UNCHANGED verdict
    BY <1>7, <2>4 DEF FindIssuer
  <2>6. Pool[i] \in Cert /\ Pool[i] \in Path!Supplied(pki)
    BY <1>3, PoolIsSupplied
  <2>7. Path!Issues(pki, Pool[i], Current)
    BY <2>5 DEF Fits, Path!Issues
  <2>8. Pool[i] = next
    BY <1>1, <2>1, <2>2, <2>6, <2>7 DEF Unambiguous
  <2>9. /\ Len(chain') = Len(chain) + 1
        /\ \A j \in 1..Len(chain) : chain'[j] = chain[j]
        /\ chain'[Len(chain) + 1] = next
    BY <1>3, <2>5, <2>6, <2>8
  <2>10. Len(chain') <= n /\ ~(Len(chain') > MaxChain)
    BY <1>3, <2>1, <2>9
  <2>11. pc' = "validity" /\ UNCHANGED verdict
    BY <2>5, <2>10
  <2>12. \A j \in 1..Len(chain') : chain'[j] = p[j]
    BY <1>2, <1>3, <2>9 DEF OnPath
  <2> QED
    BY <1>2, <2>10, <2>11, <2>12 DEF OnPath
<1>8. CASE UNCHANGED vars
  BY <1>2, <1>8 DEF vars, OnPath
<1> QED
  BY <1>4, <1>5, <1>6, <1>7, <1>8 DEF Next

(* Where no two supplied certificates fit the same one, a signer           *)
(* certificate that has a path to a trust anchor is not rejected.          *)
THEOREM Completeness == Spec => []UnambiguousIsComplete
<1>1. Spec => []NeverLeaves
  BY InitNeverLeaves, NextNeverLeaves, Invariance, PTL DEF Spec
<1>2. NeverLeaves => UnambiguousIsComplete
  BY DEF NeverLeaves, UnambiguousIsComplete, Path!PathExists, OnPath
<1> QED
  BY <1>1, <1>2, PTL
=============================================================================
