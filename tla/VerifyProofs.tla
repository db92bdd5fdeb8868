---------------------------- MODULE VerifyProofs ----------------------------
(***************************************************************************)
(* Proofs about Verify, for any archives of up to a hundred signature      *)
(* documents, any options and any bounds.                                  *)
(***************************************************************************)
EXTENDS Verify, SequenceTheorems, WellFoundedInduction, TLAPS

Opening  == {"open", "entries", "manifest"}
Checking == Tags \cup {"finish"}

Keys     == {zip[i].key : i \in {j \in DOMAIN zip : zip[j].kind = "signature"}}
Reported == {report.sigs[i].key : i \in DOMAIN report.sigs}

(* The archive is what the assumption says of the inputs; ...              *)
ZipInv ==
  /\ zip \in Seq(Range(zip))
  /\ \A i \in DOMAIN zip :
       /\ zip[i].kind = "file" => zip[i].data \in Content
       /\ zip[i].kind = "signature" => zip[i].key \in 0..99

(* ... while no failure of the container is known, its signature documents *)
(* are those of the entries read so far, and of all of them once opened;   *)
(* none is looked at otherwise; ...                                        *)
OpenInv ==
  /\ DOMAIN ctr = DOMAIN EmptyContainer /\ DOMAIN report = {"ok", "sigs"}
  /\ DOMAIN ctr.sigDocs \subseteq 0..99
  /\ report.sigs \in Seq(Range(report.sigs))
  /\ pc \in Opening => todo = {} /\ report.sigs = <<>>
  /\ cerrs # {} => pc \in {"entries", "done"} /\ todo = {} /\ report.sigs = <<>>
  /\ pc = "open" => ctr.sigDocs = EmptyMap /\ pos = 2
  /\ pc = "entries" => Len(zip) > 0 /\ zip[1].kind = "mimetype"
  /\ pc = "entries" /\ cerrs = {} =>
       DOMAIN ctr.sigDocs
         = {zip[i].key : i \in {j \in DOMAIN zip : j < pos /\ zip[j].kind = "signature"}}
  /\ pc \notin {"open", "entries"} /\ cerrs = {} => DOMAIN ctr.sigDocs = Keys

(* ... every document is reported, being verified or to do, and the three  *)
(* come in this order; ...                                                 *)
OrderInv ==
  /\ pc \notin Opening /\ cerrs = {} =>
       DOMAIN ctr.sigDocs = Reported \cup todo \cup (IF pc \in Checking THEN {cur} ELSE {})
  /\ pc = "done" => todo = {}
  /\ \A i, j \in DOMAIN report.sigs :
       i < j => LexRank(report.sigs[i].key) < LexRank(report.sigs[j].key)
  /\ \A i \in DOMAIN report.sigs, k \in todo : LexRank(report.sigs[i].key) < LexRank(k)
  /\ pc \in Checking =>
       /\ \A i \in DOMAIN report.sigs : LexRank(report.sigs[i].key) < LexRank(cur)
       /\ \A k \in todo : LexRank(cur) < LexRank(k)

(* ... the time is the declared one between the check of the declared time *)
(* and the last check of the TS profile.                                   *)
TimeOf(sig, ok, t) ==
  /\ ok /\ opts.profile = "BES" => t = sig.sp.time
  /\ ok /\ opts.profile = "TS"  => t = TokenOf(sig.usp).gen
  /\ t \notin {NoTime, sig.sp.time} => DelayOK(sig.usp, opts.tsDelay) /\ TimestampOK(sig)

TimeInv ==
  /\ pc \in {"shape", "cert", "object", "time"} => time = NoTime
  /\ pc \in Tags \ {"shape", "cert", "object", "time"} => time = Sig.sp.time
  /\ pc \in {"usp", "timestamp", "ocsp", "delay"} => opts.profile = "TS"
  /\ pc \in {"ocsp", "delay"} => TimestampOK(Sig)
  /\ pc = "finish" => TimeOf(Sig, errs = {}, time)

IInv == ZipInv /\ TypeOK /\ OpenInv /\ OrderInv /\ TimeInv /\ ReportedTime

-----------------------------------------------------------------------------
(* LexRank orders the names of up to a hundred documents without ties.     *)
LEMMA RankIsStrict ==
  ASSUME NEW j \in 0..99, NEW k \in 0..99
  PROVE  /\ LexRank(j) \in Nat
         /\ LexRank(j) = LexRank(k) => j = k
<1> DEFINE q(n) == n \div 10
<1> DEFINE r(n) == n % 10
<1>1. /\ q(j) \in 0..9 /\ r(j) \in 0..9 /\ j = 10 * q(j) + r(j)
      /\ q(k) \in 0..9 /\ r(k) \in 0..9 /\ k = 10 * q(k) + r(k)
  OBVIOUS
<1>2. /\ LexRank(j) = IF j < 10 THEN 11 * j ELSE 11 * q(j) + 1 + r(j)
      /\ LexRank(k) = IF k < 10 THEN 11 * k ELSE 11 * q(k) + 1 + r(k)
  BY DEF LexRank
<1> HIDE DEF q, r
<1>3. LexRank(j) \in Nat
  BY <1>1, <1>2
<1>4. ASSUME LexRank(j) = LexRank(k) PROVE j = k
  BY <1>1, <1>2, <1>4
<1> QED
  BY <1>3, <1>4

(* A set of natural numbers that is not empty has a least element.         *)
LEMMA LeastNat ==
  ASSUME NEW R, R \subseteq Nat, R # {}
  PROVE  \E n \in R : \A m \in R : n <= m
<1>1. PICK n \in R : \A m \in R : ~(<<m, n>> \in OpToRel(<, Nat))
  BY WFMin, NatLessThanWellFounded
<1>2. ASSUME NEW m \in R PROVE n <= m
  <2> SUFFICES ASSUME m < n PROVE FALSE
    OBVIOUS
  <2> DEFINE edge == <<m, n>>
  <2>1. edge \in Nat \X Nat /\ edge[1] = m /\ edge[2] = n
    OBVIOUS
  <2>2. edge[1] < edge[2]
    BY <2>1, Zenon
  <2> HIDE DEF edge
  <2>3. edge \in OpToRel(<, Nat)
    BY <2>1, <2>2, Zenon DEF OpToRel
  <2> QED
    BY <1>1, <2>3 DEF edge
<1> QED
  BY <1>2

(* The document chosen comes before all the others.                        *)
LEMMA FirstOfRank ==
  ASSUME NEW S, S \subseteq 0..99, S # {},
         NEW c, c = CHOOSE k \in S : \A j \in S : LexRank(k) <= LexRank(j)
  PROVE  c \in S /\ \A j \in S \ {c} : LexRank(c) < LexRank(j)
<1> DEFINE R == {LexRank(k) : k \in S}
<1>0. ASSUME NEW k \in S PROVE LexRank(k) \in Nat
  <2>1. k \in 0..99
    OBVIOUS
  <2> QED
    BY <2>1, RankIsStrict
<1>1. R \in SUBSET Nat /\ R # {}
  BY <1>0
<1>2. PICK n \in R : \A m \in R : n <= m
  <2> HIDE DEF R
  <2> QED
    BY <1>1, LeastNat
<1>3. PICK k \in S : LexRank(k) = n
  OBVIOUS
<1>4. \A j \in S : LexRank(k) <= LexRank(j)
  BY <1>2, <1>3
<1>5. c \in S /\ \A j \in S : LexRank(c) <= LexRank(j)
  BY <1>4
<1>6. ASSUME NEW j \in S \ {c} PROVE LexRank(c) < LexRank(j)
  <2>1. c \in 0..99 /\ j \in 0..99
    BY <1>5
  <2>2. LexRank(c) # LexRank(j)
    BY <2>1, RankIsStrict
  <2>3. LexRank(c) \in Nat /\ LexRank(j) \in Nat
    BY <1>0, <1>5
  <2> QED
    BY <1>5, <2>2, <2>3
<1> QED
  BY <1>5, <1>6

(* The elements of a sequence to which one is appended.                    *)
LEMMA Appended ==
  ASSUME NEW s, s \in Seq(Range(s)), NEW e
  PROVE  LET t == Append(s, e)
         IN  /\ t \in Seq(Range(t)) /\ Len(t) = Len(s) + 1 /\ t # <<>>
             /\ DOMAIN t = DOMAIN s \cup {Len(s) + 1}
             /\ \A i \in DOMAIN s : t[i] = s[i] /\ i < Len(s) + 1
             /\ t[Len(s) + 1] = e
<1> DEFINE t == Append(s, e)
<1>1. s \in Seq(Range(s) \cup {e})
  BY SeqMonotonic
<1>2. Len(s) \in Nat /\ DOMAIN s = 1..Len(s)
  BY LenProperties
<1>3. t \in Seq(Range(s) \cup {e}) /\ Len(t) = Len(s) + 1
      /\ \A i \in 1..Len(s) : t[i] = s[i]
      /\ t[Len(s) + 1] = e
  BY <1>1
<1>4. DOMAIN t = 1..(Len(s) + 1)
  BY <1>2, <1>3
<1> HIDE DEF t
<1>5. t \in [1..(Len(s) + 1) -> Range(t)]
  BY <1>3, <1>4, LenProperties DEF Range
<1>6. t \in Seq(Range(t))
  BY <1>2, <1>5
<1>7. t # <<>>
  BY <1>2, <1>3
<1> QED
  BY <1>2, <1>3, <1>4, <1>6, <1>7 DEF t

-----------------------------------------------------------------------------
(* Verify begins with any archive of the right type, ...                   *)
LEMMA FreshIInv ==
  ASSUME ZipInv, InitFor(zip, opts)
  PROVE  IInv
<1> USE DEF InitFor
<1>3. TypeOK
  BY VerifyAssumption DEF TypeOK, Steps, Tags, EmptyContainer, EmptyMap
<1>4. OpenInv
  <2>1. <<>> \in Seq(Range(<<>>))
    BY EmptySeq
  <2> QED
    BY <2>1 DEF OpenInv, Opening, EmptyContainer, EmptyMap
<1> QED
  BY <1>3, <1>4 DEF IInv, OrderInv, TimeInv, ReportedTime, Opening, Checking, Tags

(* ... and those considered have it.                                       *)
LEMMA InitIInv == Init => IInv
<1> SUFFICES ASSUME Init PROVE IInv
  OBVIOUS
<1>1. PICK in \in Input : InitFor(in[1], in[2])
  BY DEF Init
<1>2. ZipInv /\ InitFor(zip, opts)
  <2>1. zip = in[1] /\ \A i \in DOMAIN zip : zip[i] \in Range(in[1])
    BY <1>1 DEF Range, InitFor
  <2> QED
    BY <1>1, <2>1, VerifyAssumption DEF ZipInv, IsEntry, InitFor
<1> QED
  BY <1>2, FreshIInv

-----------------------------------------------------------------------------
(* A check of a document.                                                  *)
LEMMA CheckKeeps ==
  ASSUME IInv, UNCHANGED <<input, opening, todo, cur, report>>,
         pc \in Tags, pc' \in Checking, errs' \subseteq Tags, TimeInv'
  PROVE  IInv'
<1> USE DEF input, opening
<1>1. ZipInv'
  BY DEF IInv, ZipInv
<1>2. TypeOK'
  BY DEF IInv, TypeOK, Steps, Checking
<1>3. pc \in Checking /\ pc \notin Opening \cup {"done"} /\ pc' \notin Opening \cup {"done"}
  BY DEF Checking, Opening, Tags
<1>4. OpenInv'
  BY <1>3 DEF IInv, OpenInv, Opening, Keys
<1>5. OrderInv'
  BY <1>3 DEF IInv, OrderInv, Reported
<1>6. ReportedTime'
  BY DEF IInv, ReportedTime
<1> QED
  BY <1>1, <1>2, <1>4, <1>5, <1>6 DEF IInv

(* A step of opening the container that does not touch what was found.     *)
LEMMA OpenKeeps ==
  ASSUME IInv, UNCHANGED <<input, todo, cur, errs, time, refIDs, report>>,
         pc \in Opening, pc' \in Opening \cup {"done"}, TypeOK', OpenInv',
         pc' = "done" => cerrs' # {}
  PROVE  IInv'
<1> USE DEF input
<1>1. ZipInv' /\ report.sigs = <<>> /\ todo = {}
  BY DEF IInv, ZipInv, OpenInv
<1>2. OrderInv' /\ TimeInv' /\ ReportedTime'
  BY <1>1 DEF OrderInv, TimeInv, ReportedTime, Opening, Checking, Tags
<1> QED
  BY <1>1, <1>2 DEF IInv

LEMMA BytesReadNat ==
  ASSUME ZipInv, NEW i \in DOMAIN zip
  PROVE  BytesRead(zip[i]) \in Nat
<1>1. MetaSize \in Nat
  BY VerifyAssumption
<1>2. zip[i].kind = "file" => Size[zip[i].data] \in Nat
  <2>1. zip[i].kind = "file" => zip[i].data \in Content
    BY DEF ZipInv
  <2> QED
    BY <2>1, AsiceAssumption
<1> QED
  BY <1>1, <1>2 DEF BytesRead

LEMMA NoneReported ==
  ASSUME report.sigs = <<>>
  PROVE  DOMAIN report.sigs = {} /\ Reported = {}
<1>1. Len(<<>>) = 0 /\ <<>> \in Seq({})
  BY EmptySeq
<1>2. DOMAIN <<>> = 1..0
  BY <1>1, LenProperties
<1> QED
  BY <1>2 DEF Reported

LEMMA ZipDomain ==
  ASSUME ZipInv
  PROVE  Len(zip) \in Nat /\ DOMAIN zip = 1..Len(zip)
BY LenProperties DEF ZipInv

(* An entry that is admitted and is a signature document joins the others. *)
LEMMA DocumentsRead ==
  ASSUME IInv, NEW e, Admitted(e)
  PROVE  /\ DOMAIN WithEntry(e) = DOMAIN EmptyContainer
         /\ DOMAIN WithEntry(e).sigDocs
              = DOMAIN ctr.sigDocs \cup {k \in {e.key} : e.kind = "signature"}
<1>1. DOMAIN ctr = {"files", "sigDocs", "hasManifest", "rows", "media"}
  BY DEF IInv, OpenInv, EmptyContainer
<1>2. CASE e.kind = "manifest"
  <2>1. WithEntry(e) = [ctr EXCEPT !.hasManifest = TRUE, !.rows = e.rows]
    BY <1>2 DEF WithEntry
  <2> QED
    BY <1>1, <1>2, <2>1 DEF EmptyContainer
<1>3. CASE e.kind = "signature"
  <2>1. WithEntry(e) = [ctr EXCEPT !.sigDocs = Put(ctr.sigDocs, e.key, e.doc)]
    BY <1>3 DEF WithEntry
  <2> QED
    BY <1>1, <1>3, <2>1 DEF EmptyContainer, Put
<1>4. CASE e.kind = "file"
  <2>1. WithEntry(e) = [ctr EXCEPT !.files = Put(ctr.files, e.name, e.data)]
    BY <1>4 DEF WithEntry
  <2> QED
    BY <1>1, <1>4, <2>1 DEF EmptyContainer
<1> QED
  BY <1>2, <1>3, <1>4 DEF Admitted

(* One case for each check.                                                *)
LEMMA VerifyStep ==
  ASSUME IInv, VerifySignature
  PROVE  IInv'
<1> USE DEF Record, StopUnless
<1>e. errs \subseteq Tags /\ TimeInv
  BY DEF IInv, TypeOK
<1>1. CASE CheckShape
  BY <1>1, <1>e, CheckKeeps DEF CheckShape, TimeInv, TimeOf, Tags, Checking, Sig, input, opening
<1>2. CASE CheckKeyInfoCert
  BY <1>2, <1>e, CheckKeeps DEF CheckKeyInfoCert, TimeInv, TimeOf, Tags, Checking, Sig, input, opening
<1>3. CASE CheckObject
  BY <1>3, <1>e, CheckKeeps DEF CheckObject, TimeInv, TimeOf, Tags, Checking, Sig, input, opening
<1>4. CASE CheckSigningTime
  BY <1>4, <1>e, CheckKeeps DEF CheckSigningTime, TimeInv, TimeOf, Tags, Checking, Sig, input, opening
<1>5. CASE CheckChain
  BY <1>5, <1>e, CheckKeeps DEF CheckChain, TimeInv, TimeOf, Tags, Checking, Sig, input, opening
<1>6. CASE CheckSignatureValue
  BY <1>6, <1>e, CheckKeeps DEF CheckSignatureValue, TimeInv, TimeOf, Tags, Checking, Sig, input, opening
<1>7. CASE CheckReferences
  <2>1. ReferencesOK(Sig, Files) => ReferencesUsable(Sig, Files)
    BY DEF ReferencesOK, ReferencesUsable, SpReferenceOK
  <2> QED
    BY <1>7, <1>e, <2>1, CheckKeeps DEF CheckReferences, TimeInv, TimeOf, Tags, Checking, Sig, input, opening
<1>8. CASE CheckSignedProperties
  BY <1>8, <1>e, CheckKeeps DEF CheckSignedProperties, TimeInv, TimeOf, Tags, Checking, Sig, input, opening
<1>9. CASE CheckUSPShape
  BY <1>9, <1>e, CheckKeeps DEF CheckUSPShape, UspOK, TimeInv, TimeOf, Tags, Checking, Sig, input, opening
<1>10. CASE CheckTimestamp
  BY <1>10, <1>e, CheckKeeps DEF CheckTimestamp, TimeInv, TimeOf, Tags, Checking, Sig, input, opening
<1>11. CASE CheckOCSPResponse
  BY <1>11, <1>e, CheckKeeps DEF CheckOCSPResponse, TimeInv, TimeOf, Tags, Checking, Sig, input, opening
<1>12. CASE CheckDelay
  BY <1>12, <1>e, CheckKeeps DEF CheckDelay, TimeInv, TimeOf, Tags, Checking, Sig, input, opening
<1> QED
  BY <1>1, <1>2, <1>3, <1>4, <1>5, <1>6, <1>7, <1>8, <1>9, <1>10, <1>11, <1>12 DEF VerifySignature

(* One case for each action.                                               *)
LEMMA NextIInv == IInv /\ [Next]_vars => IInv'
<1> SUFFICES ASSUME IInv, [Next]_vars
             PROVE  IInv'
  OBVIOUS
<1>s. CASE UNCHANGED vars
  <2> USE <1>s DEF vars, input, opening
  <2>1. ZipInv'
    BY DEF IInv, ZipInv
  <2>2. TypeOK'
    BY DEF IInv, TypeOK
  <2>3. OpenInv'
    BY DEF IInv, OpenInv, Keys
  <2>4. OrderInv'
    BY DEF IInv, OrderInv, Reported
  <2>5. TimeInv'
    BY DEF IInv, TimeInv, TimeOf, Sig
  <2>6. ReportedTime'
    BY DEF IInv, ReportedTime
  <2> QED
    BY <2>1, <2>2, <2>3, <2>4, <2>5, <2>6 DEF IInv
<1>1. CASE OpenMimetype
  <2> USE <1>1 DEF OpenMimetype
  <2>1. todo = {} /\ report.sigs = <<>> /\ cerrs = {} /\ ctr.sigDocs = EmptyMap /\ pos = 2
    BY DEF IInv, OpenInv, TypeOK, Opening
  <2>2. TypeOK'
    BY DEF IInv, TypeOK, Steps, Tags
  <2>3. Len(zip) \in Nat /\ (zip # <<>> => Len(zip) > 0) /\ DOMAIN zip = 1..Len(zip)
    BY EmptySeq, ZipDomain DEF IInv, ZipInv
  <2>4. OpenInv'
    BY <2>1, <2>3 DEF IInv, OpenInv, Opening, EmptyMap, input
  <2> QED
    BY <2>1, <2>2, <2>4, OpenKeeps DEF Opening
<1>2. CASE ReadEntry
  <2> DEFINE e == zip[pos]
  <2>1. pos \in DOMAIN zip /\ pos \in Nat /\ total' \in Nat
    <3>1. pos \in Nat \ {0} /\ total \in Nat
      BY DEF IInv, TypeOK
    <3>2. pos \in DOMAIN zip
      <4>1. pos <= Len(zip)
        BY <1>2 DEF ReadEntry
      <4>2. Len(zip) \in Nat /\ DOMAIN zip = 1..Len(zip)
        BY ZipDomain DEF IInv
      <4> QED
        BY <3>1, <4>1, <4>2
    <3>3. BytesRead(zip[pos]) \in Nat
      BY <3>2, BytesReadNat DEF IInv
    <3>4. total' = total + BytesRead(zip[pos])
      BY <1>2 DEF ReadEntry
    <3> QED
      BY <3>1, <3>2, <3>3, <3>4
  <2>2. /\ todo = {} /\ report.sigs = <<>> /\ DOMAIN report.sigs = {}
        /\ pc = "entries" /\ pc' = "entries"
    BY <1>2, NoneReported DEF ReadEntry, IInv, OpenInv, Opening
  <2>3. CASE cerrs' # {} /\ cerrs' \subseteq cerrs \cup {"total size", "entry"}
             /\ pos' \in Nat \ {0} /\ ctr' = ctr
    <3>1. TypeOK'
      BY <1>2, <2>1, <2>2, <2>3 DEF ReadEntry, IInv, TypeOK, Steps, Tags
    <3>2. OpenInv'
      BY <1>2, <2>2, <2>3 DEF ReadEntry, IInv, OpenInv, Opening, input
    <3> QED
      BY <1>2, <2>2, <3>1, <3>2, OpenKeeps DEF ReadEntry, Opening
  <2>4. CASE cerrs' = cerrs /\ pos' = pos + 1 /\ ctr' = WithEntry(e) /\ Admitted(e)
    <3>1. /\ DOMAIN ctr' = DOMAIN EmptyContainer
          /\ DOMAIN ctr'.sigDocs = DOMAIN ctr.sigDocs \cup {k \in {e.key} : e.kind = "signature"}
      BY <2>4, DocumentsRead
    <3>2. TypeOK'
      <4>1. pos' \in Nat \ {0} /\ cerrs' \subseteq cerrs /\ todo' = {} /\ DOMAIN report'.sigs = {}
        <5>1. UNCHANGED <<todo, report>>
          BY <1>2 DEF ReadEntry
        <5>2. pos + 1 \in Nat \ {0}
          BY <2>1
        <5> HIDE DEF e
        <5> QED
          BY <2>2, <2>4, <5>1, <5>2
      <4>2. errs' = errs /\ report' = report /\ pc' \notin Checking
        BY <1>2, <2>2 DEF ReadEntry, Checking, Tags
      <4>3. /\ cerrs \subseteq {"mimetype", "total size", "entry", "manifest", "files", "signatures"}
            /\ errs \subseteq Tags /\ report.ok \in BOOLEAN
        BY DEF IInv, TypeOK
      <4>4. pc' \in Steps /\ total' \in Nat
        BY <2>1, <2>2 DEF Steps
      <4> QED
        BY <4>1, <4>2, <4>3, <4>4 DEF TypeOK, Checking
    <3>3. DOMAIN ctr'.sigDocs \subseteq 0..99
      BY <2>1, <3>1 DEF IInv, OpenInv, ZipInv
    <3>4. ASSUME cerrs = {}
          PROVE  DOMAIN ctr'.sigDocs
                   = {zip[i].key : i \in {j \in DOMAIN zip : j < pos' /\ zip[j].kind = "signature"}}
      <4>1. DOMAIN ctr.sigDocs
              = {zip[i].key : i \in {j \in DOMAIN zip : j < pos /\ zip[j].kind = "signature"}}
        BY <2>2, <3>4 DEF IInv, OpenInv
      <4>2. \A j \in DOMAIN zip : j < pos' <=> j < pos \/ j = pos
        BY <2>1, <2>4, LenProperties DEF IInv, ZipInv
      <4> QED
        BY <2>1, <3>1, <4>1, <4>2
    <3>5. OpenInv'
      BY <1>2, <2>2, <2>4, <3>1, <3>3, <3>4 DEF ReadEntry, IInv, OpenInv, Opening, input
    <3> QED
      BY <1>2, <2>2, <3>2, <3>5, OpenKeeps DEF ReadEntry, Opening
  <2>5. Len(zip) \in Nat
    BY ZipDomain DEF IInv
  <2>6. pos \in Nat \ {0}
    BY DEF IInv, TypeOK
  <2>7. \/ cerrs' = cerrs \cup {"total size"} /\ pos' = Len(zip) + 1 /\ ctr' = ctr
        \/ cerrs' = cerrs /\ pos' = pos + 1 /\ ctr' = WithEntry(e) /\ Admitted(e)
        \/ cerrs' = cerrs \cup {"entry"} /\ pos' = pos + 1 /\ ctr' = ctr
    BY <1>2 DEF ReadEntry
  <2> HIDE DEF e
  <2>8. pos + 1 \in Nat \ {0} /\ Len(zip) + 1 \in Nat \ {0}
    BY <2>5, <2>6
  <2>9. ASSUME NEW t \in {"total size", "entry"}, cerrs' = cerrs \cup {t}
        PROVE  cerrs' # {} /\ cerrs' \subseteq cerrs \cup {"total size", "entry"}
    BY <2>9
  <2> QED
    BY <2>3, <2>4, <2>7, <2>8, <2>9
<1>3. CASE CheckStructure
  <2> USE <1>3 DEF CheckStructure
  <2>1. todo = {} /\ report.sigs = <<>> /\ pc = "entries"
    BY DEF IInv, OpenInv, Opening
  <2>2. TypeOK'
    BY DEF IInv, TypeOK, Steps, Tags, StructureErrors
  <2>3. cerrs = {} => DOMAIN ctr.sigDocs = Keys
    <3>1. \A j \in DOMAIN zip : j < pos
      <4>1. pos \in Nat \ {0} /\ pos > Len(zip)
        BY DEF IInv, TypeOK
      <4>2. Len(zip) \in Nat /\ DOMAIN zip = 1..Len(zip)
        BY ZipDomain DEF IInv
      <4> QED
        BY <4>1, <4>2
    <3> QED
      BY <2>1, <3>1 DEF IInv, OpenInv, Keys
  <2>4. OpenInv'
    BY <2>1, <2>3 DEF IInv, OpenInv, Opening, Keys, input
  <2> QED
    BY <2>1, <2>2, <2>4, OpenKeeps DEF Opening
<1>4. CASE ParseManifest
  <2> USE <1>4 DEF ParseManifest
  <2>1. todo = {} /\ report.sigs = <<>> /\ cerrs = {} /\ DOMAIN ctr.sigDocs = Keys
    BY DEF IInv, OpenInv, Opening
  <2>2. ctr'.sigDocs = ctr.sigDocs /\ DOMAIN ctr' = DOMAIN ctr
    BY DEF IInv, OpenInv, EmptyContainer
  <2>3. TypeOK'
    <3>1. DOMAIN report'.sigs = {} /\ pc' \in {"next", "done"} /\ todo' \subseteq DOMAIN ctr'.sigDocs
          /\ cerrs' \subseteq cerrs \cup {"manifest"}
      BY <2>1, <2>2, NoneReported
    <3> QED
      BY <3>1 DEF IInv, TypeOK, Steps, Tags
  <2>4. OpenInv'
    <3>1. UNCHANGED <<zip, report>> /\ Keys' = Keys
      BY DEF input, Keys
    <3>2. pc' \in {"next", "done"} /\ (cerrs' # {} => pc' = "done" /\ todo' = todo)
      BY <2>1
    <3> QED
      BY <2>1, <2>2, <3>1, <3>2 DEF IInv, OpenInv, Opening
  <2>5. CASE pc' = "done" /\ cerrs' # {}
    BY <2>3, <2>4, <2>5, OpenKeeps DEF Opening
  <2>6. CASE pc' = "next" /\ todo' = DOMAIN ctr.sigDocs /\ cerrs' = cerrs
    <3>1. OrderInv'
      BY <2>1, <2>2, <2>6 DEF OrderInv, Reported, Opening, Checking, Tags
    <3>2. TimeInv' /\ ReportedTime' /\ ZipInv'
      BY <2>1, <2>6 DEF IInv, ZipInv, TimeInv, ReportedTime, Tags, input
    <3> QED
      BY <2>3, <2>4, <3>1, <3>2 DEF IInv
  <2> QED
    BY <2>5, <2>6
<1>5. CASE NextSignature
  <2> USE <1>5 DEF NextSignature, input, opening
  <2>1. /\ todo \subseteq DOMAIN ctr.sigDocs /\ DOMAIN ctr.sigDocs \subseteq 0..99
        /\ cerrs = {} /\ DOMAIN ctr.sigDocs = Reported \cup todo
    BY DEF IInv, TypeOK, OpenInv, OrderInv, Opening, Checking, Tags
  <2>2. cur' \in todo /\ \A k \in todo' : LexRank(cur') < LexRank(k)
    BY <2>1, FirstOfRank
  <2>3. TypeOK'
    BY <2>1, <2>2 DEF IInv, TypeOK, Steps, Tags
  <2>4. OpenInv' /\ ZipInv'
    BY <2>1, <2>2 DEF IInv, OpenInv, Opening, Keys, ZipInv
  <2>5. OrderInv'
    BY <2>1, <2>2 DEF IInv, OrderInv, Reported, Opening, Checking, Tags
  <2>6. TimeInv' /\ ReportedTime'
    BY DEF IInv, TimeInv, ReportedTime
  <2> QED
    BY <2>3, <2>4, <2>5, <2>6 DEF IInv
<1>6. CASE FinishSignature
  <2> USE <1>6 DEF FinishSignature, input, opening
  <2> DEFINE r == [key |-> cur, ok |-> errs = {}, errs |-> errs, time |-> time]
  <2> DEFINE n == Len(report.sigs) + 1
  <2>1. report'.sigs = Append(report.sigs, r) /\ report'.ok = report.ok /\ DOMAIN report' = DOMAIN report
    BY DEF IInv, OpenInv
  <2> HIDE DEF r
  <2>2. /\ report'.sigs \in Seq(Range(report'.sigs)) /\ report'.sigs # <<>>
        /\ DOMAIN report'.sigs = DOMAIN report.sigs \cup {n}
        /\ \A i \in DOMAIN report.sigs : report'.sigs[i] = report.sigs[i] /\ i < n
        /\ report'.sigs[n] = r
    BY <2>1, Appended DEF IInv, OpenInv
  <2>3. r.key = cur /\ r.ok = (errs = {}) /\ r.time = time
    BY DEF r
  <2> HIDE DEF n
  <2>4. cerrs = {} /\ cur \in DOMAIN ctr.sigDocs \ todo
    BY DEF IInv, OpenInv, TypeOK, Opening
  <2>5. TypeOK'
    BY <2>1, <2>2, <2>3, <2>4 DEF IInv, TypeOK, Steps, Tags
  <2>6. OpenInv' /\ ZipInv'
    <3>1. UNCHANGED <<zip, cerrs, todo, ctr>> /\ Keys' = Keys /\ pc = "finish" /\ pc' = "next"
      BY DEF Keys
    <3> QED
      BY <2>1, <2>2, <2>4, <3>1 DEF IInv, OpenInv, Opening, ZipInv
  <2>7. OrderInv'
    <3>1. Reported' = Reported \cup {cur}
      BY <2>2, <2>3 DEF Reported
    <3>2. DOMAIN ctr.sigDocs = Reported \cup todo \cup {cur}
      BY <2>4 DEF IInv, OrderInv, Opening, Checking
    <3>3. /\ \A i \in DOMAIN report.sigs : LexRank(report.sigs[i].key) < LexRank(cur)
          /\ \A k \in todo : LexRank(cur) < LexRank(k)
      BY DEF IInv, OrderInv, Checking
    <3>4. ASSUME NEW i \in DOMAIN report'.sigs, NEW j \in DOMAIN report'.sigs, i < j
          PROVE  LexRank(report'.sigs[i].key) < LexRank(report'.sigs[j].key)
      <4>1. i \in DOMAIN report.sigs
        BY <2>2, <3>4
      <4> QED
        BY <2>2, <2>3, <3>3, <3>4, <4>1 DEF IInv, OrderInv
    <3> QED
      BY <2>2, <2>3, <3>1, <3>2, <3>3, <3>4 DEF IInv, OrderInv, Checking, Tags, Opening
  <2>8. TimeInv' /\ ReportedTime'
    <3>1. TimeOf(ctr.sigDocs[cur], errs = {}, time)
      BY DEF IInv, TimeInv, Sig
    <3>2. TimeInv' /\ UNCHANGED <<ctr, opts>>
      BY DEF TimeInv, Tags
    <3>3. ASSUME NEW i \in DOMAIN report'.sigs
          PROVE  TimeOf(ctr.sigDocs[report'.sigs[i].key], report'.sigs[i].ok, report'.sigs[i].time)
      <4>1. CASE i \in DOMAIN report.sigs
        BY <2>2, <4>1 DEF IInv, ReportedTime, TimeOf
      <4>2. CASE i = n
        BY <2>2, <2>3, <3>1, <4>2
      <4> QED
        BY <2>2, <4>1, <4>2
    <3> QED
      BY <3>2, <3>3 DEF ReportedTime, TimeOf
  <2> QED
    BY <2>5, <2>6, <2>7, <2>8 DEF IInv
<1>7. CASE Conclude
  <2> USE <1>7 DEF Conclude, input, opening
  <2>1. report'.sigs = report.sigs /\ report'.ok \in BOOLEAN /\ DOMAIN report' = DOMAIN report
    BY DEF IInv, OpenInv
  <2>2. cerrs = {}
    BY DEF IInv, OpenInv, Opening
  <2>3. TypeOK'
    BY <2>1 DEF IInv, TypeOK, Steps, Tags
  <2>4. OpenInv' /\ ZipInv'
    BY <2>1, <2>2 DEF IInv, OpenInv, Opening, Keys, ZipInv
  <2>5. OrderInv'
    BY <2>1 DEF IInv, OrderInv, Reported, Opening, Checking, Tags
  <2>6. TimeInv' /\ ReportedTime'
    BY <2>1 DEF IInv, TimeInv, ReportedTime, Tags
  <2> QED
    BY <2>3, <2>4, <2>5, <2>6 DEF IInv
<1>8. CASE VerifySignature
  BY <1>8, VerifyStep
<1> QED
  BY <1>s, <1>1, <1>2, <1>3, <1>4, <1>5, <1>6, <1>7, <1>8 DEF Next, OpenContainer

LEMMA Invariance == Spec => []IInv
BY InitIInv, NextIInv, PTL DEF Spec

-----------------------------------------------------------------------------
(* Verify's bookkeeping stays within its types.                            *)
THEOREM TypeCorrect == Spec => []TypeOK
<1>1. IInv => TypeOK
  BY DEF IInv
<1> QED
  BY <1>1, Invariance, PTL

(* Every document of an archive that opens is reported, and reported once: *)
(* the order the report keeps never ties.  Of one that does not open, none *)
(* is.                                                                     *)
THEOREM Coverage == Spec => []ReportCoversDocuments
<1>1. IInv => ReportCoversDocuments
  <2> SUFFICES ASSUME IInv PROVE ReportCoversDocuments
    OBVIOUS
  <2>1. pc = "done" /\ cerrs = {} => Reported = Keys
    BY DEF IInv, OpenInv, OrderInv, Opening, Checking, Tags
  <2>2. ASSUME NEW i \in DOMAIN report.sigs, NEW j \in DOMAIN report.sigs,
               report.sigs[i].key = report.sigs[j].key
        PROVE  i = j
    <3>1. i \in Nat /\ j \in Nat
      BY DEF IInv, OpenInv
    <3>2. ~(i < j) /\ ~(j < i)
      <4>1. report.sigs[i].key \in 0..99
        BY DEF IInv, TypeOK, OpenInv
      <4>2. LexRank(report.sigs[i].key) \in Nat
        BY <4>1, RankIsStrict
      <4> QED
        BY <2>2, <4>2 DEF IInv, OrderInv
    <3> QED
      BY <3>1, <3>2
  <2> QED
    BY <2>1, <2>2 DEF IInv, OpenInv, ReportCoversDocuments, Reported, Keys
<1> QED
  BY <1>1, Invariance, PTL

(* The time reported is the one the profile vouches for.                   *)
THEOREM Times == Spec => []ReportedTime
<1>1. IInv => ReportedTime
  BY DEF IInv
<1> QED
  BY <1>1, Invariance, PTL
=============================================================================
