---------------------------- MODULE VerdictProofs ---------------------------
(***************************************************************************)
(* The verdict of Verify on one signature document is its validity: the    *)
(* counting checks of references and media types amount to the one-to-one  *)
(* correspondence of the definition, for any number of files.  Its verdict *)
(* on the container is the container's validity: the loop over the entries *)
(* and the checks after it lose no failure and invent none.  Of a          *)
(* container as asice create makes it, that validity is worked out.        *)
(***************************************************************************)
EXTENDS VerifyProofs, FiniteSetTheorems

-----------------------------------------------------------------------------
(* Lists without repetitions and finite sets.                              *)

LEMMA ListDomain ==
  ASSUME NEW s, s \in Seq(Range(s))
  PROVE  /\ Len(s) \in Nat /\ DOMAIN s = 1..Len(s)
         /\ IsFiniteSet(DOMAIN s) /\ Cardinality(DOMAIN s) = Len(s)
<1>1. Len(s) \in Nat /\ DOMAIN s = 1..Len(s)
  BY LenProperties
<1> QED
  BY <1>1, FS_Interval

(* To compare with the earlier ones is to compare with all.                *)
LEMMA EarlierIsAny ==
  ASSUME NEW n \in Nat, NEW g
  PROVE  (\A i \in 1..n : \A j \in 1..(i - 1) : g[j] # g[i])
           <=> \A i, j \in 1..n : g[i] = g[j] => i = j
<1>1. ASSUME \A i \in 1..n : \A j \in 1..(i - 1) : g[j] # g[i],
             NEW i \in 1..n, NEW j \in 1..n, g[i] = g[j]
      PROVE  i = j
  <2>1. (j < i => j \in 1..(i - 1)) /\ (i < j => i \in 1..(j - 1))
    OBVIOUS
  <2>2. ~(j < i) /\ ~(i < j)
    BY <1>1, <2>1
  <2> QED
    BY <2>2
<1>2. ASSUME \A i, j \in 1..n : g[i] = g[j] => i = j,
             NEW i \in 1..n, NEW j \in 1..(i - 1), g[j] = g[i]
      PROVE  FALSE
  <2>1. j \in 1..n /\ j # i
    OBVIOUS
  <2> QED
    BY <1>2, <2>1
<1> QED
  BY <1>1, <1>2

LEMMA BijectionFacts ==
  ASSUME NEW S, NEW T, NEW f
  PROVE  f \in Bijection(S, T) <=>
           /\ f \in [S -> T]
           /\ \A a, b \in S : f[a] = f[b] => a = b
           /\ \A t \in T : \E a \in S : f[a] = t
BY DEF Bijection, Injection, Surjection, IsInjective

(* An injection between finite sets of the same size is a bijection.       *)
LEMMA InjectionIsBijection ==
  ASSUME NEW S, NEW T, IsFiniteSet(T), Cardinality(S) = Cardinality(T),
         NEW f \in [S -> T], \A a, b \in S : f[a] = f[b] => a = b
  PROVE  f \in Bijection(S, T)
<1>1. f \in Injection(S, T)
  BY DEF Injection, IsInjective
<1>2. f \in Surjection(S, T)
  BY <1>1, FS_Injection
<1> QED
  BY <1>1, <1>2 DEF Bijection

LEMMA BijectionCounts ==
  ASSUME NEW S, NEW T, IsFiniteSet(S), NEW f \in Bijection(S, T)
  PROVE  IsFiniteSet(T) /\ Cardinality(T) = Cardinality(S)
<1>1. ExistsBijection(S, T)
  BY DEF ExistsBijection
<1> QED
  BY <1>1, FS_Bijection

(* A map onto as many values as it has arguments is one to one.            *)
LEMMA CountIsOneToOne ==
  ASSUME NEW S, IsFiniteSet(S), NEW f, DOMAIN f = S, f = [x \in S |-> f[x]],
         Cardinality({f[x] : x \in S}) = Cardinality(S)
  PROVE  \A a, b \in S : f[a] = f[b] => a = b
<1> DEFINE T == {f[x] : x \in S}
<1>1. f \in Surjection(S, T)
  BY DEF Surjection
<1>2. f \in Injection(S, T)
  BY <1>1, FS_Surjection
<1> QED
  BY <1>2 DEF Injection, IsInjective

-----------------------------------------------------------------------------
(* The references.                                                         *)
LEMMA IdsOf ==
  ASSUME NEW refs, refs \in Seq(Range(refs)),
         \A i \in DOMAIN refs : refs[i].id # NoId,
         \A i, j \in DOMAIN refs : refs[i].id = refs[j].id => i = j
  PROVE  /\ DOMAIN ReferenceIDs(refs) = {refs[i].id : i \in DOMAIN refs}
         /\ \A i \in DOMAIN refs : ReferenceIDs(refs)[refs[i].id] = refs[i].uri
<1>1. DOMAIN ReferenceIDs(refs) = {refs[i].id : i \in DOMAIN refs}
  BY DEF ReferenceIDs
<1>2. ASSUME NEW i \in DOMAIN refs
      PROVE  ReferenceIDs(refs)[refs[i].id] = refs[i].uri
  <2>1. \A j \in 1..(i - 1) : refs[j].id # refs[i].id
    <3>1. Len(refs) \in Nat /\ DOMAIN refs = 1..Len(refs)
      BY ListDomain
    <3>2. \A j \in 1..(i - 1) : j \in DOMAIN refs /\ j # i
      BY <3>1
    <3> QED
      BY <3>2
  <2>2. FirstReference(refs, refs[i].id) = i
    BY <2>1 DEF FirstReference
  <2>3. refs[i].id \in {refs[k].id : k \in DOMAIN refs} \ {NoId}
    OBVIOUS
  <2> QED
    BY <2>2, <2>3 DEF ReferenceIDs
<1> QED
  BY <1>1, <1>2

(* Validity reads Asice as Verify does.                                    *)
LEMMA SameTerms ==
  /\ Promise!NoId = NoId /\ Promise!NoMediaType = NoMediaType /\ Promise!NoCert = NoCert
  /\ Promise!NoTime = NoTime /\ Promise!NoBound = NoBound
  /\ \A m : Promise!Trim(m) = Trim(m)
  /\ \A S, T : Promise!Bijection(S, T) = Bijection(S, T)
BY DEF Promise!NoId, NoId, Promise!NoMediaType, NoMediaType, Promise!NoCert, NoCert,
   Promise!NoTime, NoTime, Promise!NoBound, NoBound, Promise!Trim, Trim,
   Promise!Bijection, Promise!Injection, Promise!Surjection, Promise!IsInjective,
   Bijection, Injection, Surjection, IsInjective

(* The checks of the references, one by one, and what they come to.        *)
ReferencesCounted(sig, files) ==
  /\ Len(sig.refs) = Cardinality(DOMAIN files)
  /\ \A i \in DOMAIN sig.refs :
       ReferenceIdOK(sig.refs, i) /\ FileReferenceOK(sig.refs, i, files)

LEMMA ReferencesDistinct ==
  ASSUME NEW sig, IsDocument(sig), NEW files
  PROVE  LET refs == sig.refs
         IN  ReferencesCounted(sig, files) <=>
               /\ Len(refs) = Cardinality(DOMAIN files)
               /\ \A i \in DOMAIN refs :
                    /\ refs[i].id # NoId /\ refs[i].uri # NoName /\ refs[i].uri \notin HashName
                    /\ refs[i].uri \in DOMAIN files /\ refs[i].dig = files[refs[i].uri]
               /\ \A i, j \in DOMAIN refs : refs[i].id = refs[j].id => i = j
               /\ \A i, j \in DOMAIN refs : refs[i].uri = refs[j].uri => i = j
<1> DEFINE refs == sig.refs
<1>1. Len(refs) \in Nat /\ DOMAIN refs = 1..Len(refs)
  BY ListDomain DEF IsDocument
<1> DEFINE n == Len(refs)
<1> DEFINE ids  == [i \in 1..n |-> refs[i].id]
<1> DEFINE uris == [i \in 1..n |-> refs[i].uri]
<1>2. \A i \in 1..n : \A j \in 1..(i - 1) : j \in 1..n
  BY <1>1
<1>3. /\ (\A i \in 1..n : \A j \in 1..(i - 1) : refs[j].id # refs[i].id)
           <=> \A i, j \in 1..n : refs[i].id = refs[j].id => i = j
      /\ (\A i \in 1..n : \A j \in 1..(i - 1) : refs[j].uri # refs[i].uri)
           <=> \A i, j \in 1..n : refs[i].uri = refs[j].uri => i = j
  <2>1. /\ (\A i \in 1..n : \A j \in 1..(i - 1) : ids[j] # ids[i])
             <=> \A i, j \in 1..n : ids[i] = ids[j] => i = j
        /\ (\A i \in 1..n : \A j \in 1..(i - 1) : uris[j] # uris[i])
             <=> \A i, j \in 1..n : uris[i] = uris[j] => i = j
    <3> HIDE DEF ids, uris
    <3> QED
      BY <1>1, EarlierIsAny
  <2>2. \A i \in 1..n : ids[i] = refs[i].id /\ uris[i] = refs[i].uri
    OBVIOUS
  <2> HIDE DEF ids, uris
  <2> QED
    BY <1>2, <2>1, <2>2
<1> QED
  BY <1>1, <1>3 DEF ReferencesCounted, ReferenceIdOK, FileReferenceOK

(* The checks of the media types.                                          *)
FormatsCounted(sig, files, media) ==
  LET ids  == ReferenceIDs(sig.refs)
      dofs == sig.sp.dofs
  IN  /\ Len(dofs) = Cardinality(DOMAIN files)
      /\ \A i \in DOMAIN dofs : FormatOK(dofs[i], ids, media)
      /\ Cardinality({ids[dofs[i].ref] : i \in {j \in DOMAIN dofs : FormatOK(dofs[j], ids, media)}})
           = Cardinality(DOMAIN files)

(* Counted, they are one to one, ...                                       *)
LEMMA CountedIsOneToOne ==
  ASSUME NEW sig, IsDocument(sig), NEW files, IsFiniteSet(DOMAIN files), NEW media,
         ReferencesCounted(sig, files), FormatsCounted(sig, files, media)
  PROVE  Promise!SignsEveryFile(sig, files, Restrict(media, DOMAIN files))
<1> DEFINE refs == sig.refs
<1> DEFINE dofs == sig.sp.dofs
<1> DEFINE ids  == ReferenceIDs(refs)
<1> DEFINE F    == DOMAIN files
<1> DEFINE file == [i \in DOMAIN refs |-> refs[i].uri]
<1>1. /\ IsFiniteSet(DOMAIN refs) /\ Cardinality(DOMAIN refs) = Cardinality(F)
      /\ IsFiniteSet(DOMAIN dofs) /\ Cardinality(DOMAIN dofs) = Cardinality(F)
      /\ refs \in Seq(Range(refs))
  BY ListDomain DEF IsDocument, ReferencesCounted, FormatsCounted
<1>2. /\ \A i \in DOMAIN refs :
           /\ refs[i].id # NoId /\ refs[i].uri \notin HashName
           /\ refs[i].uri \in F /\ refs[i].dig = files[refs[i].uri]
      /\ \A i, j \in DOMAIN refs : refs[i].id = refs[j].id => i = j
      /\ \A i, j \in DOMAIN refs : refs[i].uri = refs[j].uri => i = j
  BY ReferencesDistinct
<1>3. file \in Bijection(DOMAIN refs, F)
  <2>1. file \in [DOMAIN refs -> F] /\ \A a, b \in DOMAIN refs : file[a] = file[b] => a = b
    BY <1>2
  <2> HIDE DEF file
  <2> QED
    BY <1>1, <2>1, InjectionIsBijection
<1>4. /\ DOMAIN ids = {refs[i].id : i \in DOMAIN refs}
      /\ \A i \in DOMAIN refs : ids[refs[i].id] = refs[i].uri
  BY <1>1, <1>2, IdsOf
<1> DEFINE ref == [d \in DOMAIN dofs |-> CHOOSE i \in DOMAIN refs : refs[i].id = dofs[d].ref]
<1> HIDE DEF ids
<1>5. \A d \in DOMAIN dofs : FormatOK(dofs[d], ids, media)
  BY DEF FormatsCounted, ids
<1>6. \A d \in DOMAIN dofs : ref[d] \in DOMAIN refs /\ refs[ref[d]].id = dofs[d].ref
  BY <1>4, <1>5 DEF FormatOK
<1>7. \A d \in DOMAIN dofs : ids[dofs[d].ref] = file[ref[d]]
  BY <1>4, <1>6
<1> HIDE DEF ref
<1>8. \A a, b \in DOMAIN dofs : ref[a] = ref[b] => a = b
  <2> DEFINE name == [d \in DOMAIN dofs |-> ids[dofs[d].ref]]
  <2>1. {name[d] : d \in DOMAIN dofs}
          = {ids[dofs[i].ref] : i \in {j \in DOMAIN dofs : FormatOK(dofs[j], ids, media)}}
    BY <1>5
  <2>2. Cardinality({name[d] : d \in DOMAIN dofs}) = Cardinality(DOMAIN dofs)
    BY <1>1, <2>1 DEF FormatsCounted, ids
  <2>3. name = [d \in DOMAIN dofs |-> name[d]] /\ DOMAIN name = DOMAIN dofs
    OBVIOUS
  <2>4. \A d \in DOMAIN dofs : name[d] = file[ref[d]]
    BY <1>7
  <2> HIDE DEF name
  <2>5. \A a, b \in DOMAIN dofs : name[a] = name[b] => a = b
    BY <1>1, <2>2, <2>3, CountIsOneToOne
  <2> QED
    BY <2>4, <2>5
<1>9. ref \in Bijection(DOMAIN dofs, DOMAIN refs)
  <2>1. ref \in [DOMAIN dofs -> DOMAIN refs]
    BY <1>6 DEF ref
  <2> QED
    BY <1>1, <1>8, <2>1, InjectionIsBijection
<1>10. F \cap HashName = {}
  <2>1. \A n \in F : \E i \in DOMAIN refs : file[i] = n
    BY <1>3, BijectionFacts
  <2>2. \A i \in DOMAIN refs : file[i] \notin HashName
    BY <1>2
  <2> HIDE DEF file
  <2> QED
    BY <2>1, <2>2
<1>11. \A i \in DOMAIN refs : refs[i].uri = file[i] /\ refs[i].dig = files[file[i]]
  BY <1>2
<1>12. \A d \in DOMAIN dofs :
         /\ dofs[d].ref = refs[ref[d]].id /\ dofs[d].mime # NoMediaType
         /\ Trim(dofs[d].mime) = Restrict(media, F)[file[ref[d]]]
  <2> TAKE d \in DOMAIN dofs
  <2>1. FormatOK(dofs[d], ids, media) /\ ids[dofs[d].ref] = file[ref[d]]
    BY <1>5, <1>7
  <2>2. file[ref[d]] \in F
    BY <1>2, <1>6
  <2>3. Restrict(media, F)[file[ref[d]]] = media[file[ref[d]]]
    BY <2>2 DEF Restrict
  <2> QED
    BY <1>6, <2>1, <2>3 DEF FormatOK
<1> HIDE DEF file
<1> DEFINE types == Restrict(media, F)
<1>13. \A d \in DOMAIN dofs :
         /\ dofs[d].ref = refs[ref[d]].id /\ dofs[d].mime # NoMediaType
         /\ Trim(dofs[d].mime) = types[file[ref[d]]]
  BY <1>12
<1> HIDE DEF types
<1>14. Promise!SignsEveryFile(sig, files, types)
  BY <1>2, <1>3, <1>9, <1>10, <1>11, <1>13, SameTerms DEF Promise!SignsEveryFile
<1> QED
  BY <1>14 DEF types

(* ... and one to one, they count as they should.                          *)
LEMMA OneToOneIsCounted ==
  ASSUME NEW sig, IsDocument(sig), NEW files, IsFiniteSet(DOMAIN files), DOMAIN files \subseteq Name,
         NEW media, DOMAIN files \subseteq DOMAIN media,
         Promise!SignsEveryFile(sig, files, Restrict(media, DOMAIN files))
  PROVE  ReferencesCounted(sig, files) /\ FormatsCounted(sig, files, media)
<1> DEFINE refs == sig.refs
<1> DEFINE dofs == sig.sp.dofs
<1> DEFINE ids  == ReferenceIDs(refs)
<1> DEFINE F    == DOMAIN files
<1> DEFINE types == Restrict(media, F)
<1>1. \A n \in F : types[n] = media[n]
  BY DEF Restrict
<1> HIDE DEF types
<1>2. /\ \A i, j \in DOMAIN refs : refs[i].id = refs[j].id => i = j
      /\ \A i \in DOMAIN refs : refs[i].id # NoId
      /\ F \cap HashName = {}
  BY SameTerms DEF Promise!SignsEveryFile
<1>3. PICK file \in Bijection(DOMAIN refs, F) :
        /\ \A i \in DOMAIN refs : refs[i].uri = file[i] /\ refs[i].dig = files[file[i]]
        /\ \E ref \in Bijection(DOMAIN dofs, DOMAIN refs) :
             \A d \in DOMAIN dofs :
               /\ dofs[d].ref = refs[ref[d]].id /\ dofs[d].mime # NoMediaType
               /\ Trim(dofs[d].mime) = types[file[ref[d]]]
  BY SameTerms DEF Promise!SignsEveryFile, types
<1>4. PICK ref \in Bijection(DOMAIN dofs, DOMAIN refs) :
        \A d \in DOMAIN dofs :
          /\ dofs[d].ref = refs[ref[d]].id /\ dofs[d].mime # NoMediaType
          /\ Trim(dofs[d].mime) = types[file[ref[d]]]
  BY <1>3
<1>5. /\ IsFiniteSet(DOMAIN refs) /\ Cardinality(DOMAIN refs) = Len(refs)
      /\ IsFiniteSet(DOMAIN dofs) /\ Cardinality(DOMAIN dofs) = Len(dofs)
      /\ refs \in Seq(Range(refs))
  BY ListDomain DEF IsDocument
<1>6. Len(refs) = Cardinality(F) /\ Len(dofs) = Cardinality(F)
  BY <1>3, <1>4, <1>5, BijectionCounts
<1>7. /\ file \in [DOMAIN refs -> F]
      /\ \A i, j \in DOMAIN refs : file[i] = file[j] => i = j
      /\ \A n \in F : \E i \in DOMAIN refs : file[i] = n
      /\ ref \in [DOMAIN dofs -> DOMAIN refs]
      /\ \A i \in DOMAIN refs : \E d \in DOMAIN dofs : ref[d] = i
  BY <1>3, <1>4, BijectionFacts
<1>8. ReferencesCounted(sig, files)
  <2>1. \A i \in DOMAIN refs : refs[i].uri \in F /\ refs[i].uri \notin HashName /\ refs[i].uri # NoName
    <3>1. NoName \notin Name
      BY AsiceAssumption DEF NoName
    <3> QED
      BY <1>2, <1>3, <1>7, <3>1
  <2>2. \A i, j \in DOMAIN refs : refs[i].uri = refs[j].uri => i = j
    BY <1>3, <1>7
  <2> QED
    BY <1>2, <1>3, <1>6, <2>1, <2>2, ReferencesDistinct
<1>9. /\ DOMAIN ids = {refs[i].id : i \in DOMAIN refs}
      /\ \A i \in DOMAIN refs : ids[refs[i].id] = refs[i].uri
  BY <1>2, <1>5, IdsOf
<1> HIDE DEF ids
<1>10. \A d \in DOMAIN dofs : FormatOK(dofs[d], ids, media) /\ ids[dofs[d].ref] = file[ref[d]]
  <2> TAKE d \in DOMAIN dofs
  <2>1. ref[d] \in DOMAIN refs /\ file[ref[d]] \in F
    BY <1>7
  <2>2. dofs[d].ref \in DOMAIN ids /\ ids[dofs[d].ref] = file[ref[d]]
    BY <1>3, <1>4, <1>9, <2>1
  <2>3. dofs[d].mime # NoMediaType /\ Trim(dofs[d].mime) = media[file[ref[d]]]
    BY <1>1, <1>4, <2>1
  <2> QED
    BY <2>1, <2>2, <2>3 DEF FormatOK
<1>11. {ids[dofs[i].ref] : i \in {j \in DOMAIN dofs : FormatOK(dofs[j], ids, media)}} = F
  <2> DEFINE Covered == {ids[dofs[i].ref] : i \in {j \in DOMAIN dofs : FormatOK(dofs[j], ids, media)}}
  <2>1. Covered \subseteq F
    BY <1>7, <1>10
  <2>2. ASSUME NEW n \in F PROVE n \in Covered
    <3>1. PICK i \in DOMAIN refs : file[i] = n
      BY <1>7
    <3>2. PICK d \in DOMAIN dofs : ref[d] = i
      BY <1>7
    <3> QED
      BY <1>10, <3>1, <3>2
  <2> QED
    BY <2>1, <2>2
<1>12. FormatsCounted(sig, files, media)
  BY <1>6, <1>10, <1>11 DEF FormatsCounted, ids
<1> QED
  BY <1>8, <1>12

-----------------------------------------------------------------------------
(* All the checks of a document, in their order.                           *)
AcceptsStamp(sig) ==
  /\ UspOK(sig.usp) /\ TimestampOK(sig)
  /\ OcspOK(sig.usp.ocsp, sig.cert, opts.maxAge) /\ DelayOK(sig.usp, opts.tsDelay)

Accepts(sig) ==
  /\ sig.shape = "ok" /\ sig.cert # NoCert
  /\ sig.target = sig.id /\ sig.sp.id # NoId
  /\ sig.sp.time # NoTime
  /\ <<sig.cert, sig.sp.time>> \in Trusted
  /\ SignatureValueOK(sig)
  /\ ReferencesOK(sig, Files)
  /\ SignedPropertiesOK(sig, ReferenceIDs(sig.refs), Files, ctr.media)
  /\ opts.profile = "TS" => AcceptsStamp(sig)

(* The container and the options a document is verified with.              *)
Opened ==
  /\ IsFiniteSet(DOMAIN Files) /\ DOMAIN Files \subseteq Name
  /\ opts.tsDelay \in Int /\ opts.maxAge \in Int

LEMMA StampIsValid ==
  ASSUME NEW sig, IsDocument(sig), Opened
  PROVE  AcceptsStamp(sig) <=> Promise!ValidTS(sig, opts)
<1> DEFINE tsts == sig.usp.tsts
<1> DEFINE tst  == tsts[Len(tsts)]
<1>1. Len(tsts) \in Nat /\ DOMAIN tsts = 1..Len(tsts) /\ (tsts # <<>> => Len(tsts) > 0)
  BY ListDomain, EmptySeq DEF IsDocument
<1>2. CASE tsts = <<>>
  <2>1. TokenOf(sig.usp).empty
    BY <1>2 DEF TokenOf, NoToken, Token
  <2> QED
    BY <1>2, <2>1 DEF AcceptsStamp, UspOK, UspFound, Promise!ValidTS
<1>3. CASE tsts # <<>>
  <2>1. TokenOf(sig.usp) = tst
    BY <1>3 DEF TokenOf
  <2>2. Len(tsts) \in DOMAIN tsts
    BY <1>1, <1>3
  <2>3. UspOK(sig.usp) <=> sig.usp.shape = "ok" /\ \A i \in DOMAIN tsts : tsts[i].empty <=> i # Len(tsts)
    <3>1. \A i : i \in DOMAIN tsts /\ i # Len(tsts) <=> i \in 1..(Len(tsts) - 1)
      BY <1>1
    <3> QED
      BY <2>1, <2>2, <3>1 DEF UspOK, UspFound
  <2>4. tst.gen \in Int /\ tst.bound \in Int
    BY <2>2 DEF IsDocument, Range
  <2> HIDE DEF tst
  <2>5. OcspOK(sig.usp.ocsp, sig.cert, opts.maxAge) <=>
          LET o == sig.usp.ocsp
          IN  /\ o.decodes /\ o.single /\ o.authentic /\ o.status = "good" /\ o.cert = sig.cert
              /\ o.thisUpdate <= o.producedAt /\ o.producedAt <= o.thisUpdate + opts.maxAge
    <3>1. /\ sig.usp.ocsp.thisUpdate \in Int /\ sig.usp.ocsp.producedAt \in Int
          /\ opts.maxAge \in Int
      BY DEF IsDocument, Opened
    <3> QED
      BY <3>1 DEF OcspOK
  <2>6. DelayOK(sig.usp, opts.tsDelay) <=>
          /\ tst.gen <= sig.usp.ocsp.producedAt
          /\ \/ opts.tsDelay > 0 /\ sig.usp.ocsp.producedAt <= tst.gen + opts.tsDelay
             \/ /\ opts.tsDelay <= 0 /\ tst.bound # NoBound
                /\ sig.usp.ocsp.producedAt <= tst.gen + tst.bound
    <3>1. sig.usp.ocsp.producedAt \in Int /\ opts.tsDelay \in Int
      BY DEF IsDocument, Opened
    <3> QED
      BY <2>1, <2>4, <3>1 DEF DelayOK, DelayBound, TsDelayOK, NoBound
  <2>7. TimestampOK(sig) <=> tst.trusted /\ tst.imprint = sig.sv
    BY <2>1 DEF TimestampOK
  <2> QED
    BY <1>3, <2>3, <2>5, <2>6, <2>7, SameTerms DEF AcceptsStamp, Promise!ValidTS, tst
<1> QED
  BY <1>2, <1>3

LEMMA AcceptsIsValid ==
  ASSUME NEW sig, IsDocument(sig), Opened, DOMAIN Files \subseteq DOMAIN ctr.media
  PROVE  Accepts(sig)
           <=> Promise!ValidSignature(sig, Files, Restrict(ctr.media, DOMAIN Files), opts)
<1> DEFINE media == Restrict(ctr.media, DOMAIN Files)
<1>1. ReferencesOK(sig, Files) <=> SpReferenceOK(sig) /\ ReferencesCounted(sig, Files)
  BY DEF ReferencesOK, ReferencesCounted
<1>2. SignedPropertiesOK(sig, ReferenceIDs(sig.refs), Files, ctr.media) <=>
        /\ ~sig.sp.policy /\ sig.sp.cert = sig.cert
        /\ FormatsCounted(sig, Files, ctr.media)
  BY DEF SignedPropertiesOK, FormatsCounted
<1>3. ReferencesCounted(sig, Files) /\ FormatsCounted(sig, Files, ctr.media)
        <=> Promise!SignsEveryFile(sig, Files, media)
  BY CountedIsOneToOne, OneToOneIsCounted DEF Opened
<1>4. SpReferenceOK(sig) <=> sig.spRefs = <<[target |-> sig.sp.id, dig |-> sig.sp]>>
  <2> DEFINE D == {r.dig : r \in Range(sig.spRefs)}
  <2> DEFINE T == {r.target : r \in Range(sig.spRefs)}
  <2> DEFINE P == [target : T, dig : D]
  <2>1. sig.spRefs \in Seq(P)
    BY DEF IsDocument
  <2>2. ASSUME SpReferenceOK(sig)
        PROVE  sig.spRefs = <<[target |-> sig.sp.id, dig |-> sig.sp]>>
    <3>1. Len(sig.spRefs) = 1 /\ sig.spRefs[1].target = sig.sp.id /\ sig.spRefs[1].dig = sig.sp
      BY <2>2 DEF SpReferenceOK
    <3> HIDE DEF D, T
    <3>2. sig.spRefs[1] \in P
      <4>1. 1 \in 1..Len(sig.spRefs)
        BY <3>1
      <4> HIDE DEF P
      <4> QED
        BY <2>1, <4>1, ElementOfSeq
    <3>3. sig.spRefs[1] = [target |-> sig.sp.id, dig |-> sig.sp]
      BY <3>1, <3>2
    <3> DEFINE e == [target |-> sig.sp.id, dig |-> sig.sp]
    <3>4. <<e>> \in Seq(P) /\ Len(<<e>>) = 1 /\ <<e>>[1] = e
      BY <3>2, <3>3
    <3> HIDE DEF e
    <3>5. sig.spRefs = <<e>>
      <4>1. Len(sig.spRefs) = Len(<<e>>) /\ sig.spRefs[1] = <<e>>[1] /\ 1..Len(sig.spRefs) = {1}
        BY <3>1, <3>3, <3>4 DEF e
      <4>2. \A i \in 1..Len(sig.spRefs) : sig.spRefs[i] = <<e>>[i]
        BY <4>1
      <4>3. sig.spRefs \in Seq(P) /\ <<e>> \in Seq(P)
        BY <2>1, <3>4
      <4> HIDE DEF P
      <4> QED
        BY <4>1, <4>2, <4>3, SeqEqual
    <3> QED
      BY <3>5 DEF e
  <2>3. ASSUME sig.spRefs = <<[target |-> sig.sp.id, dig |-> sig.sp]>>
        PROVE  SpReferenceOK(sig)
    BY <2>3 DEF SpReferenceOK
  <2> QED
    BY <2>2, <2>3
<1>5. SignatureValueOK(sig) <=>
        sig.sv.key = sig.cert /\ sig.sv.over = [refs |-> sig.refs, spRefs |-> sig.spRefs]
  BY DEF SignatureValueOK, SignedInfo
<1>6. opts.profile = "TS" => (AcceptsStamp(sig) <=> Promise!ValidTS(sig, opts))
  BY StampIsValid
<1> HIDE DEF media
<1>7. Accepts(sig) <=> Promise!ValidSignature(sig, Files, media, opts)
  BY <1>1, <1>2, <1>3, <1>4, <1>5, <1>6, SameTerms
     DEF Accepts, Promise!ValidSignature, Promise!ValidBES
<1> QED
  BY <1>7 DEF media

-----------------------------------------------------------------------------
(* The invariant: what was read has its type, and the media types of an    *)
(* open container are those of all its files; ...                          *)
ContainerInv ==
  /\ \A i \in DOMAIN zip :
       /\ zip[i].kind = "file" => zip[i].name \in Name
       /\ zip[i].kind = "signature" => IsDocument(zip[i].doc)
  /\ Opened
  /\ \A k \in DOMAIN ctr.sigDocs : IsDocument(ctr.sigDocs[k])
  /\ pc \notin Opening /\ cerrs = {} => DOMAIN Files \subseteq DOMAIN ctr.media

(* ... no failure is noted exactly when the checks up to here pass; ...    *)
Passed ==
  /\ pc \notin {"shape"} => Sig.shape = "ok"
  /\ pc \notin {"shape", "cert"} => Sig.cert # NoCert
  /\ pc \notin {"shape", "cert", "object"} => Sig.target = Sig.id /\ Sig.sp.id # NoId
  /\ pc \notin {"shape", "cert", "object", "time"} => Sig.sp.time # NoTime
  /\ pc \notin {"shape", "cert", "object", "time", "chain"} => <<Sig.cert, Sig.sp.time>> \in Trusted
  /\ pc \notin {"shape", "cert", "object", "time", "chain", "value"} => SignatureValueOK(Sig)
  /\ pc \in {"properties", "usp", "timestamp", "ocsp", "delay"} => ReferencesOK(Sig, Files)
  /\ pc \in {"usp", "timestamp", "ocsp", "delay"} =>
       SignedPropertiesOK(Sig, ReferenceIDs(Sig.refs), Files, ctr.media)
  /\ pc \in {"timestamp", "ocsp", "delay"} => UspOK(Sig.usp)
  /\ pc \in {"ocsp", "delay"} => TimestampOK(Sig)
  /\ pc = "delay" => OcspOK(Sig.usp.ocsp, Sig.cert, opts.maxAge)

CheckedInv ==
  /\ pc \in Tags => (errs = {} <=> Passed)
  /\ pc = "properties" => refIDs = ReferenceIDs(Sig.refs)
  /\ pc = "finish" => (errs = {} <=> Accepts(Sig))

(* ... and so are the documents reported.                                  *)
VerdictInv ==
  \A i \in DOMAIN report.sigs :
    report.sigs[i].ok <=> Accepts(ctr.sigDocs[report.sigs[i].key])

JInv == ContainerInv /\ CheckedInv /\ VerdictInv

(* An archive and options of the right type.                               *)
Typed ==
  /\ ZipInv
  /\ \A i \in DOMAIN zip :
       /\ zip[i].kind = "file" => zip[i].name \in Name
       /\ zip[i].kind = "signature" => IsDocument(zip[i].doc)
  /\ opts.tsDelay \in Int /\ opts.maxAge \in Int

LEMMA FreshJInv ==
  ASSUME Typed, InitFor(zip, opts)
  PROVE  JInv
<1>2. report.sigs = <<>> /\ pc = "open" /\ ctr = EmptyContainer
  BY DEF InitFor
<1>3. ContainerInv
  <2>2. DOMAIN Files = {} /\ DOMAIN ctr.sigDocs = {}
    BY <1>2 DEF EmptyContainer, EmptyMap, Files
  <2>3. Opened
    BY <2>2, FS_EmptySet DEF Opened, Typed
  <2> QED
    BY <1>2, <2>2, <2>3 DEF ContainerInv, Opening, Typed
<1> QED
  BY <1>2, <1>3, NoneReported DEF JInv, CheckedInv, VerdictInv, Tags

LEMMA InitJInv == Init => JInv
<1> SUFFICES ASSUME Init PROVE JInv
  OBVIOUS
<1>1. PICK in \in Input : InitFor(in[1], in[2])
  BY DEF Init
<1>2. zip = in[1] /\ opts = in[2] /\ InitFor(zip, opts)
  BY <1>1 DEF InitFor
<1>3. \A i \in DOMAIN zip : zip[i] \in Range(in[1])
  BY <1>2 DEF Range
<1>4. Typed
  BY <1>2, <1>3, VerifyAssumption DEF Typed, ZipInv, IsEntry
<1> QED
  BY <1>2, <1>4, FreshJInv

(* A step of opening the container.                                        *)
LEMMA OpeningKeepsJ ==
  ASSUME IInv, pc \in Opening, pc' \notin Checking, report' = report, ContainerInv'
  PROVE  JInv'
<1>1. DOMAIN report'.sigs = {}
  BY NoneReported DEF IInv, OpenInv
<1> QED
  BY <1>1 DEF JInv, CheckedInv, VerdictInv, Checking, Tags

LEMMA EntryKept ==
  ASSUME IInv, ContainerInv, NEW i \in DOMAIN zip, Admitted(zip[i])
  PROVE  /\ IsFiniteSet(DOMAIN WithEntry(zip[i]).files)
         /\ DOMAIN WithEntry(zip[i]).files \subseteq Name
         /\ \A k \in DOMAIN WithEntry(zip[i]).sigDocs : IsDocument(WithEntry(zip[i]).sigDocs[k])
<1> DEFINE e == zip[i]
<1>1. /\ DOMAIN ctr = {"files", "sigDocs", "hasManifest", "rows", "media"}
      /\ IsFiniteSet(DOMAIN ctr.files) /\ DOMAIN ctr.files \subseteq Name
      /\ \A k \in DOMAIN ctr.sigDocs : IsDocument(ctr.sigDocs[k])
  BY DEF IInv, OpenInv, EmptyContainer, ContainerInv, Opened, Files
<1>2. (e.kind = "file" => e.name \in Name) /\ (e.kind = "signature" => IsDocument(e.doc))
  BY DEF ContainerInv
<1> HIDE DEF e
<1>3. CASE e.kind = "manifest"
  <2>1. WithEntry(e) = [ctr EXCEPT !.hasManifest = TRUE, !.rows = e.rows]
    BY <1>3 DEF WithEntry
  <2>2. WithEntry(e).files = ctr.files /\ WithEntry(e).sigDocs = ctr.sigDocs
    BY <1>1, <2>1
  <2> QED
    BY <1>1, <2>2 DEF e
<1>4. CASE e.kind = "signature"
  <2>1. WithEntry(e) = [ctr EXCEPT !.sigDocs = Put(ctr.sigDocs, e.key, e.doc)]
    BY <1>4 DEF WithEntry
  <2>2. WithEntry(e).files = ctr.files /\ WithEntry(e).sigDocs = Put(ctr.sigDocs, e.key, e.doc)
    BY <1>1, <2>1
  <2>3. \A k \in DOMAIN Put(ctr.sigDocs, e.key, e.doc) :
          Put(ctr.sigDocs, e.key, e.doc)[k] = IF k = e.key THEN e.doc ELSE ctr.sigDocs[k]
    BY DEF Put
  <2>4. DOMAIN Put(ctr.sigDocs, e.key, e.doc) = DOMAIN ctr.sigDocs \cup {e.key}
    BY DEF Put
  <2> QED
    BY <1>1, <1>2, <1>4, <2>2, <2>3, <2>4 DEF e
<1>5. CASE e.kind = "file"
  <2>1. WithEntry(e) = [ctr EXCEPT !.files = Put(ctr.files, e.name, e.data)]
    BY <1>5 DEF WithEntry
  <2>2. WithEntry(e).files = Put(ctr.files, e.name, e.data) /\ WithEntry(e).sigDocs = ctr.sigDocs
    BY <1>1, <2>1
  <2>3. DOMAIN Put(ctr.files, e.name, e.data) = DOMAIN ctr.files \cup {e.name}
    BY DEF Put
  <2>4. IsFiniteSet(DOMAIN ctr.files \cup {e.name})
    BY <1>1, FS_AddElement
  <2> QED
    BY <1>1, <1>2, <1>5, <2>2, <2>3, <2>4 DEF e
<1> QED
  BY <1>3, <1>4, <1>5 DEF Admitted, e

(* A check of a document.                                                  *)
LEMMA CheckKeepsJ ==
  ASSUME JInv, UNCHANGED <<input, opening, todo, cur, report>>,
         pc \in Tags, pc' \in Checking, CheckedInv'
  PROVE  JInv'
<1> USE DEF input, opening
<1>1. ContainerInv'
  BY DEF JInv, ContainerInv, Opened, Opening, Tags, Checking, Files
<1>2. VerdictInv'
  BY DEF JInv, VerdictInv, Accepts, AcceptsStamp, Files
<1> QED
  BY <1>1, <1>2 DEF JInv

(* One case for each check.                                                *)
LEMMA VerifyStepJ ==
  ASSUME IInv, JInv, VerifySignature
  PROVE  JInv'
<1> USE DEF Record, StopUnless
<1>i. CheckedInv /\ TimeInv
  BY DEF IInv, JInv
<1> DEFINE same == UNCHANGED <<input, opening, todo, cur, report>>
<1>e. same => UNCHANGED <<Sig, Files, ctr, opts>>
  BY DEF input, opening, Sig, Files
<1>1. CASE CheckShape
  <2>1. CheckedInv'
    BY <1>1, <1>i, <1>e DEF CheckShape, CheckedInv, Passed, Accepts, Tags
  <2> QED
    BY <1>1, <2>1, CheckKeepsJ DEF CheckShape, Tags, Checking
<1>2. CASE CheckKeyInfoCert
  <2>1. CheckedInv'
    BY <1>2, <1>i, <1>e DEF CheckKeyInfoCert, CheckedInv, Passed, Accepts, Tags
  <2> QED
    BY <1>2, <2>1, CheckKeepsJ DEF CheckKeyInfoCert, Tags, Checking
<1>3. CASE CheckObject
  <2>1. CheckedInv'
    BY <1>3, <1>i, <1>e DEF CheckObject, CheckedInv, Passed, Accepts, Tags
  <2> QED
    BY <1>3, <2>1, CheckKeepsJ DEF CheckObject, Tags, Checking
<1>4. CASE CheckSigningTime
  <2>1. CheckedInv'
    BY <1>4, <1>i, <1>e DEF CheckSigningTime, CheckedInv, Passed, Accepts, Tags
  <2> QED
    BY <1>4, <2>1, CheckKeepsJ DEF CheckSigningTime, Tags, Checking
<1>5. CASE CheckChain
  <2>1. CheckedInv'
    BY <1>5, <1>i, <1>e DEF CheckChain, CheckedInv, Passed, Accepts, Tags, TimeInv
  <2> QED
    BY <1>5, <2>1, CheckKeepsJ DEF CheckChain, Tags, Checking
<1>6. CASE CheckSignatureValue
  <2>1. CheckedInv'
    BY <1>6, <1>i, <1>e DEF CheckSignatureValue, CheckedInv, Passed, Accepts, Tags
  <2> QED
    BY <1>6, <2>1, CheckKeepsJ DEF CheckSignatureValue, Tags, Checking
<1>7. CASE CheckReferences
  <2>1. ReferencesOK(Sig, Files) => ReferencesUsable(Sig, Files)
    BY DEF ReferencesOK, ReferencesUsable, SpReferenceOK
  <2>2. CheckedInv'
    BY <1>7, <1>i, <1>e, <2>1 DEF CheckReferences, CheckedInv, Passed, Accepts, Tags
  <2> QED
    BY <1>7, <2>2, CheckKeepsJ DEF CheckReferences, Tags, Checking
<1>8. CASE CheckSignedProperties
  <2>1. CheckedInv'
    BY <1>8, <1>i, <1>e DEF CheckSignedProperties, CheckedInv, Passed, Accepts, Tags
  <2> QED
    BY <1>8, <2>1, CheckKeepsJ DEF CheckSignedProperties, Tags, Checking
<1>9. CASE CheckUSPShape
  <2>1. UspOK(Sig.usp) => UspFound(Sig.usp)
    BY DEF UspOK
  <2>2. CheckedInv'
    BY <1>9, <1>i, <1>e, <2>1 DEF CheckUSPShape, CheckedInv, Passed, Accepts, AcceptsStamp, Tags, TimeInv
  <2> QED
    BY <1>9, <2>2, CheckKeepsJ DEF CheckUSPShape, Tags, Checking
<1>10. CASE CheckTimestamp
  <2>1. CheckedInv'
    BY <1>10, <1>i, <1>e DEF CheckTimestamp, CheckedInv, Passed, Accepts, AcceptsStamp, Tags, TimeInv
  <2> QED
    BY <1>10, <2>1, CheckKeepsJ DEF CheckTimestamp, Tags, Checking
<1>11. CASE CheckOCSPResponse
  <2>1. CheckedInv'
    BY <1>11, <1>i, <1>e DEF CheckOCSPResponse, CheckedInv, Passed, Accepts, AcceptsStamp, Tags, TimeInv
  <2> QED
    BY <1>11, <2>1, CheckKeepsJ DEF CheckOCSPResponse, Tags, Checking
<1>12. CASE CheckDelay
  <2>1. CheckedInv'
    BY <1>12, <1>i, <1>e DEF CheckDelay, CheckedInv, Passed, Accepts, AcceptsStamp, Tags, TimeInv
  <2> QED
    BY <1>12, <2>1, CheckKeepsJ DEF CheckDelay, Tags, Checking
<1> QED
  BY <1>1, <1>2, <1>3, <1>4, <1>5, <1>6, <1>7, <1>8, <1>9, <1>10, <1>11, <1>12 DEF VerifySignature

(* One case for each action.                                               *)
LEMMA NextJInv == IInv /\ JInv /\ [Next]_vars => JInv'
<1> SUFFICES ASSUME IInv, JInv, [Next]_vars
             PROVE  JInv'
  OBVIOUS
<1>s. CASE UNCHANGED vars
  <2> USE <1>s DEF vars, input, opening
  <2>1. ContainerInv'
    BY DEF JInv, ContainerInv, Opened, Files
  <2>2. UNCHANGED <<Sig, Files>>
    BY DEF Sig, Files
  <2>3. CheckedInv'
    BY <2>2 DEF JInv, CheckedInv, Passed, Accepts, AcceptsStamp
  <2>4. VerdictInv'
    BY <2>2 DEF JInv, VerdictInv, Accepts, AcceptsStamp
  <2> QED
    BY <2>1, <2>3, <2>4 DEF JInv
<1>1. CASE OpenMimetype
  <2>1. ContainerInv'
    BY <1>1 DEF OpenMimetype, JInv, ContainerInv, Opened, Opening, Files, input, IInv, OpenInv
  <2> QED
    BY <1>1, <2>1, OpeningKeepsJ DEF OpenMimetype, Opening, Checking, Tags
<1>2. CASE ReadEntry
  <2>1. pos \in DOMAIN zip
    <3>1. pos \in Nat \ {0} /\ pos <= Len(zip)
      BY <1>2 DEF ReadEntry, IInv, TypeOK
    <3>2. Len(zip) \in Nat /\ DOMAIN zip = 1..Len(zip)
      BY ZipDomain DEF IInv
    <3> QED
      BY <3>1, <3>2
  <2>2. ctr' = ctr \/ (ctr' = WithEntry(zip[pos]) /\ Admitted(zip[pos]))
    BY <1>2 DEF ReadEntry
  <2>3. UNCHANGED <<zip, opts, pc, report>> /\ pc = "entries"
    BY <1>2 DEF ReadEntry, input
  <2>4. ContainerInv'
    <3>1. Opened' /\ \A k \in DOMAIN ctr'.sigDocs : IsDocument(ctr'.sigDocs[k])
      <4>1. CASE ctr' = ctr
        BY <2>3, <4>1 DEF JInv, ContainerInv, Opened, Files
      <4>2. CASE ctr' = WithEntry(zip[pos]) /\ Admitted(zip[pos])
        BY <2>1, <2>3, <4>2, EntryKept DEF JInv, ContainerInv, Opened, Files
      <4> QED
        BY <2>2, <4>1, <4>2
    <3> QED
      BY <2>3, <3>1 DEF JInv, ContainerInv, Opening
  <2> QED
    BY <2>3, <2>4, OpeningKeepsJ DEF Opening, Checking, Tags
<1>3. CASE CheckStructure
  <2>1. ContainerInv'
    BY <1>3 DEF CheckStructure, JInv, ContainerInv, Opened, Opening, Files, input
  <2> QED
    BY <1>3, <2>1, OpeningKeepsJ DEF CheckStructure, Opening, Checking, Tags
<1>4. CASE ParseManifest
  <2>1. /\ UNCHANGED <<zip, opts, report>> /\ pc = "manifest" /\ pc' \in {"next", "done"}
        /\ pc' = "next" => ManifestOK(ctr.rows, DOMAIN ctr.files)
        /\ pc' = "done" => cerrs' # {}
    BY <1>4 DEF ParseManifest, input
  <2>2. ctr'.files = ctr.files /\ ctr'.sigDocs = ctr.sigDocs /\ ctr'.media = ManifestMedia(ctr.rows)
    BY <1>4 DEF ParseManifest, IInv, OpenInv, EmptyContainer
  <2>3. pc' = "next" => DOMAIN ctr.files \subseteq DOMAIN ManifestMedia(ctr.rows)
    BY <2>1 DEF ManifestOK
  <2>4. ContainerInv'
    BY <2>1, <2>2, <2>3 DEF JInv, ContainerInv, Opened, Files, Opening
  <2> QED
    BY <2>1, <2>4, OpeningKeepsJ DEF Opening, Checking, Tags
<1>5. CASE NextSignature
  <2> USE <1>5 DEF NextSignature, input, opening
  <2>1. ContainerInv'
    BY DEF JInv, ContainerInv, Opened, Opening, Files
  <2>2. CheckedInv'
    BY DEF CheckedInv, Passed, Tags
  <2>3. VerdictInv'
    BY DEF JInv, VerdictInv, Accepts, AcceptsStamp, Files
  <2> QED
    BY <2>1, <2>2, <2>3 DEF JInv
<1>6. CASE FinishSignature
  <2> USE <1>6 DEF FinishSignature, input, opening
  <2> DEFINE r == [key |-> cur, ok |-> errs = {}, errs |-> errs, time |-> time]
  <2> DEFINE n == Len(report.sigs) + 1
  <2>1. report'.sigs = Append(report.sigs, r)
    BY DEF IInv, OpenInv
  <2> HIDE DEF r
  <2>2. /\ DOMAIN report'.sigs = DOMAIN report.sigs \cup {n}
        /\ \A i \in DOMAIN report.sigs : report'.sigs[i] = report.sigs[i]
        /\ report'.sigs[n] = r
    BY <2>1, Appended DEF IInv, OpenInv
  <2>3. r.key = cur /\ r.ok = (errs = {})
    BY DEF r
  <2> HIDE DEF n
  <2>4. UNCHANGED <<zip, ctr, cerrs, opts>> /\ pc = "finish" /\ pc' = "next"
    OBVIOUS
  <2>5. ContainerInv' /\ CheckedInv'
    BY <2>4 DEF JInv, ContainerInv, CheckedInv, Opened, Opening, Files, Tags
  <2>6. \A s : Accepts(s)' <=> Accepts(s)
    BY <2>4 DEF Accepts, AcceptsStamp, Files
  <2>7. r.ok <=> Accepts(ctr.sigDocs[r.key])
    BY <2>3, <2>4 DEF JInv, CheckedInv, Sig
  <2>8. ASSUME NEW i \in DOMAIN report'.sigs
        PROVE  report'.sigs[i].ok <=> Accepts(ctr.sigDocs[report'.sigs[i].key])
    <3>1. CASE i \in DOMAIN report.sigs
      BY <2>2, <3>1 DEF JInv, VerdictInv
    <3>2. CASE i = n
      BY <2>2, <2>7, <3>2
    <3> QED
      BY <2>2, <3>1, <3>2
  <2>9. VerdictInv'
    BY <2>4, <2>6, <2>8 DEF VerdictInv
  <2> QED
    BY <2>5, <2>9 DEF JInv
<1>7. CASE Conclude
  <2> USE <1>7 DEF Conclude, input, opening
  <2>1. report'.sigs = report.sigs
    BY DEF IInv, OpenInv
  <2>2. ContainerInv' /\ CheckedInv'
    BY DEF JInv, ContainerInv, CheckedInv, Opened, Opening, Files, Tags
  <2>3. UNCHANGED <<ctr, opts>>
    OBVIOUS
  <2>4. \A s : Accepts(s)' <=> Accepts(s)
    BY <2>3 DEF Accepts, AcceptsStamp, Files
  <2>5. VerdictInv'
    BY <2>1, <2>3, <2>4 DEF JInv, VerdictInv
  <2> QED
    BY <2>2, <2>5 DEF JInv
<1>8. CASE VerifySignature
  BY <1>8, VerifyStepJ
<1> QED
  BY <1>s, <1>1, <1>2, <1>3, <1>4, <1>5, <1>6, <1>7, <1>8 DEF Next, OpenContainer

-----------------------------------------------------------------------------
LEMMA IInvExact == IInv /\ JInv => SignatureVerdictExact
<1> SUFFICES ASSUME IInv, JInv, NEW i \in DOMAIN report.sigs
             PROVE  LET r == report.sigs[i]
                    IN  r.ok <=> Promise!ValidSignature(ctr.sigDocs[r.key], ctr.files,
                                                        Restrict(ctr.media, DOMAIN ctr.files), opts)
  BY DEF SignatureVerdictExact
<1> DEFINE sig == ctr.sigDocs[report.sigs[i].key]
<1>1. report.sigs[i].key \in DOMAIN ctr.sigDocs
  BY DEF IInv, TypeOK
<1>2. report.sigs # <<>>
  BY NoneReported
<1>3. pc \notin Opening /\ cerrs = {}
  BY <1>2 DEF IInv, OpenInv
<1>4. IsDocument(sig) /\ Opened /\ DOMAIN Files \subseteq DOMAIN ctr.media
  BY <1>1, <1>3 DEF JInv, ContainerInv
<1>5. report.sigs[i].ok <=> Accepts(sig)
  BY DEF JInv, VerdictInv
<1> HIDE DEF sig
<1>6. Accepts(sig)
        <=> Promise!ValidSignature(sig, Files, Restrict(ctr.media, DOMAIN Files), opts)
  BY <1>4, AcceptsIsValid
<1> QED
  BY <1>5, <1>6 DEF Files, sig

(* The references and the media types of a document are those of all the   *)
(* files.                                                                  *)
Covers(sig, files, media) ==
  \E f \in [DOMAIN sig.refs -> DOMAIN files],
     r \in [DOMAIN sig.sp.dofs -> DOMAIN sig.refs] :
    /\ \A n \in DOMAIN files : \E j \in DOMAIN sig.refs : f[j] = n
    /\ \A j \in DOMAIN sig.refs : sig.refs[j].uri = f[j] /\ sig.refs[j].dig = files[f[j]]
    /\ \A d \in DOMAIN sig.sp.dofs :
         /\ sig.sp.dofs[d].ref = sig.refs[r[d]].id
         /\ Trim(sig.sp.dofs[d].mime) = media[f[r[d]]]

LEMMA OneToOne ==
  ASSUME NEW sig, NEW files, NEW media,
         Promise!SignsEveryFile(sig, files, Restrict(media, DOMAIN files))
  PROVE  Covers(sig, files, media)
<1> DEFINE types == Restrict(media, DOMAIN files)
<1>1. \A n \in DOMAIN files : types[n] = media[n]
  BY DEF Restrict
<1> HIDE DEF types
<1>2. PICK file \in Bijection(DOMAIN sig.refs, DOMAIN files) :
        /\ \A j \in DOMAIN sig.refs : sig.refs[j].uri = file[j] /\ sig.refs[j].dig = files[file[j]]
        /\ \E ref \in Bijection(DOMAIN sig.sp.dofs, DOMAIN sig.refs) :
             \A d \in DOMAIN sig.sp.dofs :
               /\ sig.sp.dofs[d].ref = sig.refs[ref[d]].id
               /\ Trim(sig.sp.dofs[d].mime) = types[file[ref[d]]]
  BY SameTerms DEF Promise!SignsEveryFile, types
<1>3. PICK ref \in Bijection(DOMAIN sig.sp.dofs, DOMAIN sig.refs) :
        \A d \in DOMAIN sig.sp.dofs :
          /\ sig.sp.dofs[d].ref = sig.refs[ref[d]].id
          /\ Trim(sig.sp.dofs[d].mime) = types[file[ref[d]]]
  BY <1>2
<1>4. /\ file \in [DOMAIN sig.refs -> DOMAIN files]
      /\ ref \in [DOMAIN sig.sp.dofs -> DOMAIN sig.refs]
      /\ \A n \in DOMAIN files : \E j \in DOMAIN sig.refs : file[j] = n
  BY BijectionFacts
<1>5. \A d \in DOMAIN sig.sp.dofs : Trim(sig.sp.dofs[d].mime) = media[file[ref[d]]]
  BY <1>1, <1>3, <1>4
<1> QED
  BY <1>2, <1>3, <1>4, <1>5 DEF Covers

(* What an accepted document vouches for: the files of the container, each *)
(* with its content and its media type, as its signer signed them.         *)
Vouches(sig, files, media) ==
  /\ sig.sv.key = sig.cert
  /\ sig.sv.over = [refs |-> sig.refs, spRefs |-> sig.spRefs]
  /\ sig.spRefs = <<[target |-> sig.sp.id, dig |-> sig.sp]>>
  /\ Covers(sig, files, media)

LEMMA ValidVouches ==
  ASSUME NEW sig, NEW files, NEW media,
         Promise!ValidSignature(sig, files, Restrict(media, DOMAIN files), opts)
  PROVE  Vouches(sig, files, media)
<1>1. /\ sig.sv.key = sig.cert
      /\ sig.sv.over = [refs |-> sig.refs, spRefs |-> sig.spRefs]
      /\ sig.spRefs = <<[target |-> sig.sp.id, dig |-> sig.sp]>>
      /\ Promise!SignsEveryFile(sig, files, Restrict(media, DOMAIN files))
  BY DEF Promise!ValidSignature, Promise!ValidBES
<1> QED
  BY <1>1, OneToOne DEF Vouches

LEMMA AcceptedSigns ==
  IInv /\ JInv => \A i \in DOMAIN report.sigs :
    report.sigs[i].ok => Vouches(ctr.sigDocs[report.sigs[i].key], ctr.files, ctr.media)
BY IInvExact, ValidVouches DEF SignatureVerdictExact

(* A signature document's verdict is its validity, however many files and  *)
(* documents there are.                                                    *)
THEOREM VerdictIsValidity == Spec => []SignatureVerdictExact
<1>1. Spec => []JInv
  BY InitJInv, NextJInv, Invariance, PTL DEF Spec
<1> QED
  BY <1>1, IInvExact, Invariance, PTL

-----------------------------------------------------------------------------
(* The running totals of a list of sizes.  That they exist for every list  *)
(* is shown by the least length without them.                              *)
IsTotals(f, sizes, n) ==
  f = [i \in 0..n |-> IF i = 0 THEN 0 ELSE f[i - 1] + sizes[i]]

LEMMA TotalsExist ==
  ASSUME NEW sizes, NEW n \in Nat
  PROVE  \E f : IsTotals(f, sizes, n)
<1> DEFINE Without == {k \in Nat : ~ \E f : IsTotals(f, sizes, k)}
<1>1. SUFFICES ASSUME Without # {} PROVE FALSE
  OBVIOUS
<1>2. PICK k \in Without : \A m \in Without : k <= m
  <2>1. Without \subseteq Nat
    OBVIOUS
  <2> HIDE DEF Without
  <2> QED
    BY <1>1, <2>1, LeastNat
<1>3. CASE k = 0
  <2>1. IsTotals([i \in 0..0 |-> 0], sizes, 0)
    BY DEF IsTotals
  <2> QED
    BY <1>3, <2>1
<1>4. CASE k # 0
  <2>1. k - 1 \in Nat /\ k - 1 \notin Without
    BY <1>2, <1>4
  <2>2. PICK f : IsTotals(f, sizes, k - 1)
    BY <2>1
  <2> DEFINE g == [i \in 0..k |-> IF i = k THEN f[k - 1] + sizes[k] ELSE f[i]]
  <2>3. \A i \in 0..(k - 1) : f[i] = IF i = 0 THEN 0 ELSE f[i - 1] + sizes[i]
    BY <2>2 DEF IsTotals
  <2>4. ASSUME NEW i \in 0..k
        PROVE  g[i] = IF i = 0 THEN 0 ELSE g[i - 1] + sizes[i]
    <3>1. CASE i = k
      BY <1>4, <3>1, <2>1
    <3>2. CASE i # k
      <4>1. i \in 0..(k - 1)
        BY <3>2, <2>1
      <4>2. i = 0 \/ (i - 1 \in 0..k /\ i - 1 # k)
        BY <4>1, <2>1
      <4> QED
        BY <2>3, <3>2, <4>1, <4>2
    <3> QED
      BY <3>1, <3>2
  <2>5. g = [i \in 0..k |-> g[i]]
    OBVIOUS
  <2> HIDE DEF g
  <2>6. IsTotals(g, sizes, k)
    BY <2>4, <2>5 DEF IsTotals
  <2> QED
    BY <2>6
<1> QED
  BY <1>3, <1>4

LEMMA TotalsFacts ==
  ASSUME NEW sizes \in Seq(Nat)
  PROVE  LET f == Totals(sizes)
         IN  /\ f[0] = 0
             /\ \A i \in 1..Len(sizes) : f[i] = f[i - 1] + sizes[i]
             /\ \A i \in 0..Len(sizes) : f[i] \in Nat
             /\ \A i \in 0..Len(sizes) : f[i] <= Total(sizes)
<1> DEFINE f == Totals(sizes)
<1> DEFINE n == Len(sizes)
<1>1. n \in Nat /\ \A i \in 1..n : sizes[i] \in Nat
  OBVIOUS
<1>2. f = CHOOSE g : IsTotals(g, sizes, n)
  BY DEF Totals, IsTotals
<1>3. IsTotals(f, sizes, n)
  <2> HIDE DEF f
  <2> QED
    BY <1>1, <1>2, TotalsExist
<1> HIDE DEF f
<1>4. f[0] = 0 /\ \A i \in 1..n : f[i] = f[i - 1] + sizes[i]
  BY <1>1, <1>3 DEF IsTotals
<1>5. \A i \in 0..n : f[i] \in Nat
  <2> DEFINE Bad == {i \in 0..n : f[i] \notin Nat}
  <2>1. SUFFICES ASSUME Bad # {} PROVE FALSE
    OBVIOUS
  <2>2. PICK k \in Bad : \A m \in Bad : k <= m
    <3>1. Bad \subseteq Nat
      BY <1>1
    <3> HIDE DEF Bad
    <3> QED
      BY <2>1, <3>1, LeastNat
  <2>3. k # 0 /\ k \in 1..n /\ k - 1 \in 0..n
    BY <1>1, <1>4
  <2>4. k - 1 \notin Bad
    BY <2>2, <2>3
  <2>5. f[k - 1] \in Nat
    BY <2>3, <2>4
  <2> QED
    BY <1>1, <1>4, <2>3, <2>5
<1>6. \A i \in 0..n : f[i] <= f[n]
  <2> DEFINE Bad == {d \in 0..n : ~(f[n - d] <= f[n])}
  <2>1. Bad = {}
    <3>1. SUFFICES ASSUME Bad # {} PROVE FALSE
      OBVIOUS
    <3>2. PICK d \in Bad : \A m \in Bad : d <= m
      <4>1. Bad \subseteq Nat
        BY <1>1
      <4> HIDE DEF Bad
      <4> QED
        BY <3>1, <4>1, LeastNat
    <3>3. f[n] \in Nat
      BY <1>1, <1>5
    <3>4. d # 0
      BY <1>1, <3>3
    <3>5. d - 1 \in 0..n /\ d - 1 \notin Bad
      <4>1. d \in 0..n /\ d - 1 \in 0..n /\ ~(d <= d - 1)
        BY <1>1, <3>4
      <4> HIDE DEF Bad
      <4> QED
        BY <3>2, <4>1
    <3>6. f[n - (d - 1)] <= f[n]
      BY <3>5
    <3>7. n - (d - 1) \in 1..n /\ (n - (d - 1)) - 1 = n - d /\ n - d \in 0..n
      BY <1>1, <3>4
    <3>8. f[n - (d - 1)] = f[n - d] + sizes[n - (d - 1)]
      BY <1>4, <3>7
    <3>9. f[n - d] \in Nat /\ sizes[n - (d - 1)] \in Nat
      BY <1>1, <1>5, <3>7
    <3>10. f[n - d] <= f[n]
      BY <3>3, <3>6, <3>8, <3>9
    <3> QED
      BY <3>10
  <2>2. ASSUME NEW i \in 0..n PROVE f[i] <= f[n]
    <3>1. n - i \in 0..n /\ n - (n - i) = i
      BY <1>1
    <3>2. f[n - (n - i)] <= f[n]
      BY <2>1, <3>1
    <3> QED
      BY <3>1, <3>2
  <2> QED
    BY <2>2
<1>7. Total(sizes) = f[n]
  BY DEF Total, f
<1> QED
  BY <1>4, <1>5, <1>6, <1>7 DEF f

-----------------------------------------------------------------------------
(***************************************************************************)
(* The verdict on the container.  The invariant says what the loop over    *)
(* the entries has established when it stands at entry pos, and what each  *)
(* later step may still rely on.                                           *)
(***************************************************************************)

(* The archive is made of entries; ...                                     *)
ArchiveInv ==
  /\ zip \in Seq(Range(zip)) /\ \A i \in DOMAIN zip : IsEntry(zip[i])
  /\ opts.tsDelay \in Int /\ opts.maxAge \in Int

(* ... the container c holds what the entries up to n say, no name among   *)
(* them twice; ...                                                         *)
Known         == {"manifest", "file", "signature"}
Past(n, kind) == {i \in 2..n : zip[i].kind = kind}
IsAFcn(f)     == f = [x \in DOMAIN f |-> f[x]]
Read(c, n) ==
  /\ \A i \in 2..n : zip[i].kind \in Known
  /\ \A i, j \in Past(n, "manifest")  : i = j
  /\ \A i, j \in Past(n, "file")      : zip[i].name = zip[j].name => i = j
  /\ \A i, j \in Past(n, "signature") : zip[i].key = zip[j].key => i = j
  /\ c.hasManifest <=> Past(n, "manifest") # {}
  /\ \A i \in Past(n, "manifest") : c.rows = zip[i].rows
  /\ IsAFcn(c.files)
  /\ DOMAIN c.files = {zip[i].name : i \in Past(n, "file")}
  /\ \A i \in Past(n, "file") : c.files[zip[i].name] = zip[i].data /\ ~Unreadable(zip[i])
  /\ DOMAIN c.sigDocs = {zip[i].key : i \in Past(n, "signature")}
  /\ \A i \in Past(n, "signature") : c.sigDocs[zip[i].key] = zip[i].doc

(* ... with their sizes counted as long as they are within the bound, and  *)
(* a valid manifest once opened; ...                                       *)
Sizes == [i \in 1..Len(zip) |-> Promise!EntrySize(zip[i])]
OpenedInv ==
  /\ pc = "open" => ctr = EmptyContainer /\ pos = 2 /\ total = MetaSize /\ cerrs = {}
  /\ pc # "open" /\ cerrs = {} => zip # <<>> /\ zip[1] = MimetypeEntry(TRUE)
  /\ pc = "entries" /\ cerrs = {} =>
       /\ pos \in 2..(Len(zip) + 1) /\ Read(ctr, pos - 1)
       /\ total = Totals(Sizes)[pos - 1]
       /\ pos > 2 => total <= MaxTotal
  /\ pc \notin {"open", "entries"} /\ cerrs = {} =>
       Read(ctr, Len(zip)) /\ Promise!WholeArchive(zip)
  /\ pc \notin Opening /\ cerrs = {} =>
       ManifestOK(ctr.rows, DOMAIN ctr.files) /\ ctr.media = ManifestMedia(ctr.rows)

(* ... no failure is noted of a valid container, and the report says yes   *)
(* at the end alone, and of valid ones alone.                              *)
DecidedInv ==
  /\ cerrs # {} => ~Promise!ValidContainer(zip, opts)
  /\ IF pc = "done" THEN report.ok <=> Promise!ValidContainer(zip, opts) ELSE ~report.ok

KInv == ArchiveInv /\ OpenedInv /\ DecidedInv

(* The sizes of the entries, and what is read of each.                     *)
LEMMA SizesOf ==
  ASSUME ArchiveInv
  PROVE  /\ Len(zip) \in Nat /\ DOMAIN zip = 1..Len(zip)
         /\ Sizes \in Seq(Nat) /\ Len(Sizes) = Len(zip)
         /\ Promise!TotalSize(zip) = Total(Sizes)
         /\ \A i \in 1..Len(zip) :
              /\ Sizes[i] \in Nat
              /\ BytesRead(zip[i]) \in Nat /\ BytesRead(zip[i]) <= Sizes[i]
              /\ ~Unreadable(zip[i]) => BytesRead(zip[i]) = Sizes[i]
<1>1. Len(zip) \in Nat /\ DOMAIN zip = 1..Len(zip)
  BY LenProperties DEF ArchiveInv
<1>2. MetaSize \in Nat
  BY VerifyAssumption
<1>3. ASSUME NEW i \in 1..Len(zip)
      PROVE  /\ Sizes[i] \in Nat
             /\ BytesRead(zip[i]) \in Nat /\ BytesRead(zip[i]) <= Sizes[i]
             /\ ~Unreadable(zip[i]) => BytesRead(zip[i]) = Sizes[i]
  <2>1. Sizes[i] = IF zip[i].kind = "file" THEN Size[zip[i].data] ELSE MetaSize
    BY DEF Sizes, Promise!EntrySize
  <2>2. zip[i].kind = "file" => zip[i].data \in Content
    BY <1>1 DEF ArchiveInv, IsEntry
  <2>3. zip[i].kind = "file" => Size[zip[i].data] \in Nat
    BY <2>2, AsiceAssumption
  <2> QED
    BY <1>2, <2>1, <2>3 DEF BytesRead, Unreadable
<1>4. DOMAIN Sizes = 1..Len(zip) /\ Sizes = [i \in 1..Len(zip) |-> Sizes[i]]
  BY DEF Sizes
<1>5. Sizes \in [1..Len(zip) -> Nat]
  BY <1>3, <1>4
<1>6. Sizes \in Seq(Nat) /\ Len(Sizes) = Len(zip)
  <2>1. Sizes \in Seq(Nat)
    BY <1>1, <1>5
  <2> QED
    BY <1>1, <1>4, <2>1, LenProperties
<1>7. Promise!TotalSize(zip) = Total(Sizes)
  BY Zenon DEF Promise!TotalSize, Promise!Total, Promise!Totals, Total, Totals, Sizes
<1> QED
  BY <1>1, <1>3, <1>6, <1>7

(* A total that was reached is at most the whole one.                      *)
LEMMA TotalSoFar ==
  ASSUME ArchiveInv, NEW n \in 1..Len(zip)
  PROVE  LET f == Totals(Sizes)
         IN  /\ f[0] = 0 /\ f[n - 1] \in Nat /\ f[n] \in Nat
             /\ f[n] = f[n - 1] + Sizes[n]
             /\ f[n - 1] <= Promise!TotalSize(zip) /\ f[n] <= Promise!TotalSize(zip)
             /\ Promise!TotalSize(zip) = f[Len(zip)]
<1>1. /\ Sizes \in Seq(Nat) /\ Len(Sizes) = Len(zip) /\ Len(zip) \in Nat
      /\ Promise!TotalSize(zip) = Total(Sizes)
  BY SizesOf
<1>2. n - 1 \in 0..Len(Sizes) /\ n \in 0..Len(Sizes)
  BY <1>1
<1>3. Total(Sizes) = Totals(Sizes)[Len(zip)]
  BY <1>1 DEF Total
<1> HIDE DEF Sizes
<1> QED
  BY <1>1, <1>2, <1>3, TotalsFacts

-----------------------------------------------------------------------------
(* Reading one more entry.                                                 *)
LEMMA OneMore ==
  ASSUME NEW n \in Nat \ {0}, NEW kind
  PROVE  /\ Past(n + 1, kind) = Past(n, kind) \cup {i \in {n + 1} : zip[i].kind = kind}
         /\ n + 1 \notin Past(n, kind)
<1>1. 2..(n + 1) = (2..n) \cup {n + 1} /\ n + 1 \notin 2..n
  OBVIOUS
<1> QED
  BY <1>1, Zenon DEF Past

LEMMA AdmittedIsRead ==
  ASSUME IInv, NEW n \in Nat \ {0}, Read(ctr, n), Admitted(zip[n + 1])
  PROVE  Read(WithEntry(zip[n + 1]), n + 1)
<1> DEFINE e == zip[n + 1]
<1> DEFINE c == WithEntry(e)
<1>1. DOMAIN ctr = {"files", "sigDocs", "hasManifest", "rows", "media"}
  BY DEF IInv, OpenInv, EmptyContainer
<1>2. e.kind \in Known /\ ~Unreadable(e) /\ ~Duplicate(e)
  BY Zenon DEF Admitted, Known
<1>3. \A kind : Past(n + 1, kind) = Past(n, kind) \cup {i \in {n + 1} : zip[i].kind = kind}
  BY OneMore
<1>4. \A kind : n + 1 \notin Past(n, kind)
  BY OneMore
<1>5. \A i \in 2..(n + 1) : zip[i].kind \in Known
  <2>1. \A i \in 2..(n + 1) : i \in 2..n \/ i = n + 1
    OBVIOUS
  <2> QED
    BY <1>2, <2>1 DEF Read
<1>6. CASE e.kind = "manifest"
  <2>1. c = [ctr EXCEPT !.hasManifest = TRUE, !.rows = e.rows]
    BY <1>6 DEF WithEntry
  <2>2. c.hasManifest /\ c.rows = e.rows /\ c.files = ctr.files /\ c.sigDocs = ctr.sigDocs
    BY <1>1, <2>1
  <2>3. /\ Past(n + 1, "manifest") = Past(n, "manifest") \cup {n + 1}
        /\ Past(n + 1, "file") = Past(n, "file")
        /\ Past(n + 1, "signature") = Past(n, "signature")
    BY <1>3, <1>6
  <2>4. Past(n, "manifest") = {}
    BY <1>2, <1>6 DEF Duplicate, Read
  <2> HIDE DEF c
  <2>5. Read(c, n + 1)
    BY <1>5, <2>2, <2>3, <2>4 DEF Read
  <2> QED
    BY <2>5 DEF c
<1>7. CASE e.kind = "file"
  <2>1. c = [ctr EXCEPT !.files = Put(ctr.files, e.name, e.data)]
    BY <1>7 DEF WithEntry
  <2>2. /\ c.hasManifest = ctr.hasManifest /\ c.rows = ctr.rows
        /\ c.files = Put(ctr.files, e.name, e.data) /\ c.sigDocs = ctr.sigDocs
    BY <1>1, <2>1
  <2>3. /\ Past(n + 1, "manifest") = Past(n, "manifest")
        /\ Past(n + 1, "file") = Past(n, "file") \cup {n + 1}
        /\ Past(n + 1, "signature") = Past(n, "signature")
    BY <1>3, <1>7
  <2>4. e.name \notin DOMAIN ctr.files
    BY <1>2, <1>7 DEF Duplicate
  <2>5. /\ DOMAIN c.files = DOMAIN ctr.files \cup {e.name}
        /\ IsAFcn(c.files)
        /\ c.files[e.name] = e.data
        /\ \A m \in DOMAIN ctr.files : m # e.name => c.files[m] = ctr.files[m]
    BY <2>2 DEF Put, IsAFcn
  <2> HIDE DEF c
  <2>6. DOMAIN ctr.files = {zip[i].name : i \in Past(n, "file")}
    BY DEF Read
  <2>7. DOMAIN c.files = {zip[i].name : i \in Past(n + 1, "file")}
    BY <2>3, <2>5, <2>6
  <2>8. \A i \in Past(n, "file") : zip[i].name \in DOMAIN ctr.files /\ zip[i].name # e.name
    BY <2>4, <2>6
  <2>9. \A i \in Past(n + 1, "file") : c.files[zip[i].name] = zip[i].data /\ ~Unreadable(zip[i])
    BY <1>2, <2>3, <2>5, <2>8 DEF Read
  <2>10. \A i, j \in Past(n + 1, "file") : zip[i].name = zip[j].name => i = j
    BY <2>3, <2>8 DEF Read
  <2>11. /\ \A i, j \in Past(n + 1, "manifest")  : i = j
         /\ c.hasManifest <=> Past(n + 1, "manifest") # {}
         /\ \A i \in Past(n + 1, "manifest") : c.rows = zip[i].rows
    BY <2>2, <2>3 DEF Read
  <2>12. /\ \A i, j \in Past(n + 1, "signature") : zip[i].key = zip[j].key => i = j
         /\ DOMAIN c.sigDocs = {zip[i].key : i \in Past(n + 1, "signature")}
         /\ \A i \in Past(n + 1, "signature") : c.sigDocs[zip[i].key] = zip[i].doc
    BY <2>2, <2>3 DEF Read
  <2>13. Read(c, n + 1)
    BY <1>5, <2>5, <2>7, <2>9, <2>10, <2>11, <2>12 DEF Read
  <2> QED
    BY <2>13 DEF c
<1>8. CASE e.kind = "signature"
  <2>1. c = [ctr EXCEPT !.sigDocs = Put(ctr.sigDocs, e.key, e.doc)]
    BY <1>8 DEF WithEntry
  <2>2. /\ c.hasManifest = ctr.hasManifest /\ c.rows = ctr.rows
        /\ c.sigDocs = Put(ctr.sigDocs, e.key, e.doc) /\ c.files = ctr.files
    BY <1>1, <2>1
  <2>3. /\ Past(n + 1, "manifest") = Past(n, "manifest")
        /\ Past(n + 1, "signature") = Past(n, "signature") \cup {n + 1}
        /\ Past(n + 1, "file") = Past(n, "file")
    BY <1>3, <1>8
  <2>4. e.key \notin DOMAIN ctr.sigDocs
    BY <1>2, <1>8 DEF Duplicate
  <2>5. /\ DOMAIN c.sigDocs = DOMAIN ctr.sigDocs \cup {e.key}
        /\ c.sigDocs[e.key] = e.doc
        /\ \A m \in DOMAIN ctr.sigDocs : m # e.key => c.sigDocs[m] = ctr.sigDocs[m]
    BY <2>2 DEF Put
  <2> HIDE DEF c
  <2>6. DOMAIN ctr.sigDocs = {zip[i].key : i \in Past(n, "signature")}
    BY DEF Read
  <2>7. DOMAIN c.sigDocs = {zip[i].key : i \in Past(n + 1, "signature")}
    BY <2>3, <2>5, <2>6
  <2>8. \A i \in Past(n, "signature") : zip[i].key \in DOMAIN ctr.sigDocs /\ zip[i].key # e.key
    BY <2>4, <2>6
  <2>9. \A i \in Past(n + 1, "signature") : c.sigDocs[zip[i].key] = zip[i].doc
    BY <2>3, <2>5, <2>8 DEF Read
  <2>10. \A i, j \in Past(n + 1, "signature") : zip[i].key = zip[j].key => i = j
    BY <2>3, <2>8 DEF Read
  <2>11. Read(c, n + 1)
    BY <1>5, <2>2, <2>3, <2>7, <2>9, <2>10 DEF Read
  <2> QED
    BY <2>11 DEF c
<1> QED
  BY <1>2, <1>6, <1>7, <1>8 DEF Known

LEMMA AllPast == \A kind : Promise!Indices(zip, kind) = Past(Len(zip), kind)
BY DEF Promise!Indices, Past

(* What makes an archive whole, entry by entry.                            *)
LEMMA Whole ==
  Promise!WholeArchive(zip) <=>
    /\ zip # <<>> /\ zip[1] = MimetypeEntry(TRUE)
    /\ \A i \in 2..Len(zip) : zip[i].kind \in Known
    /\ Cardinality(Past(Len(zip), "manifest")) = 1
    /\ Past(Len(zip), "file") # {} /\ Past(Len(zip), "signature") # {}
    /\ \A i, j \in Past(Len(zip), "file")      : zip[i].name = zip[j].name => i = j
    /\ \A i, j \in Past(Len(zip), "signature") : zip[i].key = zip[j].key   => i = j
    /\ \A i \in Past(Len(zip), "file") : Size[zip[i].data] <= MaxEntry
    /\ Promise!TotalSize(zip) <= MaxTotal
<1>1. 2..Len(zip) = UNION {Promise!Indices(zip, kind) : kind \in {"manifest", "file", "signature"}}
        <=> \A i \in 2..Len(zip) : zip[i].kind \in Known
  BY DEF Promise!Indices, Known
<1>2. MimetypeEntry(TRUE) = Promise!MimetypeEntry(TRUE)
  BY DEF MimetypeEntry, Promise!MimetypeEntry
<1>3. /\ Promise!Indices(zip, "manifest") = Past(Len(zip), "manifest")
      /\ Promise!Indices(zip, "file") = Past(Len(zip), "file")
      /\ Promise!Indices(zip, "signature") = Past(Len(zip), "signature")
  BY AllPast
<1>4. Promise!Cardinality(Promise!Indices(zip, "manifest"))
        = Cardinality(Past(Len(zip), "manifest"))
  BY <1>3, Zenon DEF Promise!Cardinality, Cardinality
<1> DEFINE kinds ==
      2..Len(zip) = UNION {Promise!Indices(zip, kind) : kind \in {"manifest", "file", "signature"}}
<1> DEFINE known == \A i \in 2..Len(zip) : zip[i].kind \in Known
<1> DEFINE rest(f, s) ==
      /\ f # {} /\ s # {}
      /\ \A i, j \in f : zip[i].name = zip[j].name => i = j
      /\ \A i, j \in s : zip[i].key = zip[j].key => i = j
      /\ \A i \in f : Size[zip[i].data] <= MaxEntry
      /\ Promise!TotalSize(zip) <= MaxTotal
<1>5. Promise!WholeArchive(zip) <=>
        /\ zip # <<>> /\ zip[1] = Promise!MimetypeEntry(TRUE) /\ kinds
        /\ Promise!Cardinality(Promise!Indices(zip, "manifest")) = 1
        /\ rest(Promise!Indices(zip, "file"), Promise!Indices(zip, "signature"))
  BY Zenon DEF Promise!WholeArchive
<1>6. kinds <=> known
  BY <1>1
<1> HIDE DEF kinds, known, rest
<1>7. Promise!WholeArchive(zip) <=>
        /\ zip # <<>> /\ zip[1] = MimetypeEntry(TRUE) /\ known
        /\ Cardinality(Past(Len(zip), "manifest")) = 1
        /\ rest(Past(Len(zip), "file"), Past(Len(zip), "signature"))
  BY <1>2, <1>3, <1>4, <1>5, <1>6, Zenon
<1> QED
  BY <1>7, Zenon DEF known, rest

(* An archive has one manifest.                                            *)
LEMMA OneManifest ==
  ASSUME ArchiveInv
  PROVE  LET S == Past(Len(zip), "manifest")
         IN  Cardinality(S) = 1 <=> S # {} /\ \A i, j \in S : i = j
<1> DEFINE S == Past(Len(zip), "manifest")
<1>1. Len(zip) \in Nat
  BY SizesOf
<1>2. IsFiniteSet(S)
  <2>1. IsFiniteSet(2..Len(zip)) /\ S \subseteq 2..Len(zip)
    BY <1>1, FS_Interval DEF Past
  <2> QED
    BY <2>1, FS_Subset
<1> HIDE DEF S
<1>3. Cardinality(S) = 1 <=> \E x : S = {x}
  BY <1>2, FS_Singleton
<1>4. (\E x : S = {x}) => S # {} /\ \A i, j \in S : i = j
  BY Zenon
<1>5. ASSUME S # {}, \A i, j \in S : i = j
      PROVE  \E x : S = {x}
  <2>1. PICK x : x \in S
    BY <1>5
  <2>2. S = {x}
    BY <1>5, <2>1
  <2> QED
    BY <2>2
<1> QED
  BY <1>3, <1>4, <1>5 DEF S

(* An entry that is not admitted spoils the archive.                       *)
LEMMA RefusedIsBad ==
  ASSUME ArchiveInv, NEW n \in 1..(Len(zip) - 1), Read(ctr, n), ~Admitted(zip[n + 1])
  PROVE  ~Promise!WholeArchive(zip)
<1> SUFFICES ASSUME Promise!WholeArchive(zip) PROVE FALSE
  OBVIOUS
<1> DEFINE e == zip[n + 1]
<1> DEFINE All(kind) == Past(Len(zip), kind)
<1>1. Len(zip) \in Nat /\ n + 1 \in 2..Len(zip)
  BY SizesOf
<1>2. /\ \A i \in 2..Len(zip) : zip[i].kind \in Known
      /\ Cardinality(All("manifest")) = 1
      /\ \A i, j \in All("file")      : zip[i].name = zip[j].name => i = j
      /\ \A i, j \in All("signature") : zip[i].key = zip[j].key   => i = j
      /\ \A i \in All("file") : Size[zip[i].data] <= MaxEntry
  BY Whole
<1>3. \A i, j \in All("manifest") : i = j
  BY <1>2, OneManifest
<1>4. e.kind \in Known /\ n + 1 \in All(e.kind)
  BY <1>1, <1>2 DEF Past
<1>5. \A kind, i : i \in Past(n, kind) => i \in All(kind) /\ i # n + 1
  BY <1>1 DEF Past
<1>6. ~Unreadable(e)
  <2>1. CASE e.kind = "file"
    <3>1. Size[e.data] <= MaxEntry
      BY <1>2, <1>4, <2>1
    <3>2. e.data \in Content
      BY <1>1, <2>1, SizesOf DEF ArchiveInv, IsEntry
    <3>3. Size[e.data] \in Nat /\ MaxEntry \in Nat
      BY <3>2, AsiceAssumption, VerifyAssumption
    <3> QED
      BY <3>1, <3>3 DEF Unreadable
  <2> QED
    BY <2>1 DEF Unreadable
<1>7. Duplicate(e)
  BY <1>4, <1>6 DEF Admitted, Known
<1> HIDE DEF All
<1>8. CASE e.kind = "manifest" /\ ctr.hasManifest
  BY <1>3, <1>4, <1>5, <1>8 DEF Read
<1>9. CASE e.kind = "signature" /\ e.key \in DOMAIN ctr.sigDocs
  <2>1. PICK i \in Past(n, "signature") : zip[i].key = e.key
    BY <1>9 DEF Read
  <2> QED
    BY <1>2, <1>4, <1>5, <1>9, <2>1
<1>10. CASE e.kind = "file" /\ e.name \in DOMAIN ctr.files
  <2>1. PICK i \in Past(n, "file") : zip[i].name = e.name
    BY <1>10 DEF Read
  <2> QED
    BY <1>2, <1>4, <1>5, <1>10, <2>1
<1> QED
  BY <1>4, <1>7, <1>8, <1>9, <1>10 DEF Duplicate, Known

(* All entries read, the structure says whether the archive is whole.      *)
LEMMA StructureIsWhole ==
  ASSUME ArchiveInv, zip # <<>>, zip[1] = MimetypeEntry(TRUE), Read(ctr, Len(zip))
  PROVE  Promise!WholeArchive(zip) <=> StructureErrors = {} /\ Promise!TotalSize(zip) <= MaxTotal
<1>1. StructureErrors = {} <=>
        ctr.hasManifest /\ DOMAIN ctr.files # {} /\ DOMAIN ctr.sigDocs # {}
  BY DEF StructureErrors
<1>2. /\ ctr.hasManifest <=> Cardinality(Past(Len(zip), "manifest")) = 1
      /\ DOMAIN ctr.files # {} <=> Past(Len(zip), "file") # {}
      /\ DOMAIN ctr.sigDocs # {} <=> Past(Len(zip), "signature") # {}
  BY OneManifest DEF Read
<1>3. \A i \in Past(Len(zip), "file") : Size[zip[i].data] <= MaxEntry
  <2> TAKE i \in Past(Len(zip), "file")
  <2>1. i \in DOMAIN zip /\ zip[i].kind = "file" /\ ~Unreadable(zip[i])
    BY SizesOf DEF Past, Read
  <2>2. zip[i].data \in Content
    BY <2>1 DEF ArchiveInv, IsEntry
  <2>3. Size[zip[i].data] \in Nat /\ MaxEntry \in Nat
    BY <2>2, AsiceAssumption, VerifyAssumption
  <2> QED
    BY <2>1, <2>3 DEF Unreadable
<1>4. /\ \A i \in 2..Len(zip) : zip[i].kind \in Known
      /\ \A i, j \in Past(Len(zip), "file")      : zip[i].name = zip[j].name => i = j
      /\ \A i, j \in Past(Len(zip), "signature") : zip[i].key = zip[j].key   => i = j
  BY DEF Read
<1> QED
  BY <1>1, <1>2, <1>3, <1>4, Whole

(* The container holds the files and the rows that the archive does.       *)
LEMMA ReadIsWhole ==
  ASSUME ArchiveInv, Read(ctr, Len(zip)), Promise!WholeArchive(zip)
  PROVE  /\ Promise!FileNames(zip) = DOMAIN ctr.files /\ DOMAIN ctr.files \subseteq Name
         /\ Promise!FilesOf(zip) = ctr.files
         /\ Promise!RowsOf(zip) = ctr.rows
         /\ ctr.rows \in Seq(Range(ctr.rows))
         /\ \A r \in Range(ctr.rows) : r = Row(r.path, r.mime)
<1>1. /\ Promise!Indices(zip, "manifest") = Past(Len(zip), "manifest")
      /\ Promise!Indices(zip, "file") = Past(Len(zip), "file")
  BY AllPast
<1>2. \A kind : \A i \in Past(Len(zip), kind) : IsEntry(zip[i]) /\ zip[i].kind = kind
  BY SizesOf DEF Past, ArchiveInv
<1>3. Promise!FileNames(zip) = DOMAIN ctr.files
  BY <1>1 DEF Promise!FileNames, Read
<1>4. DOMAIN ctr.files \subseteq Name
  <2>1. \A i \in Past(Len(zip), "file") : zip[i].name \in Name
    BY <1>2 DEF IsEntry
  <2> QED
    BY <2>1 DEF Read
<1>5. Promise!FilesOf(zip) = ctr.files
  <2> DEFINE at(n) == CHOOSE i \in Promise!Indices(zip, "file") : zip[i].name = n
  <2>1. ASSUME NEW n \in DOMAIN ctr.files
        PROVE  zip[at(n)].data = ctr.files[n]
    <3>1. \E i \in Promise!Indices(zip, "file") : zip[i].name = n
      BY <1>1 DEF Read
    <3>2. at(n) \in Past(Len(zip), "file") /\ zip[at(n)].name = n
      BY <1>1, <3>1
    <3> HIDE DEF at
    <3> QED
      BY <3>2 DEF Read
  <2>2. Promise!FilesOf(zip) = [n \in Promise!FileNames(zip) |-> zip[at(n)].data]
    BY DEF Promise!FilesOf
  <2>3. ctr.files = [n \in DOMAIN ctr.files |-> ctr.files[n]]
    BY DEF Read, IsAFcn
  <2> HIDE DEF at
  <2> QED
    BY <1>3, <2>1, <2>2, <2>3
<1>6. PICK m \in Past(Len(zip), "manifest") : Promise!RowsOf(zip) = zip[m].rows
  <2>1. Past(Len(zip), "manifest") # {}
    BY Whole, OneManifest
  <2> DEFINE m == CHOOSE i \in Promise!Indices(zip, "manifest") : TRUE
  <2>2. m \in Past(Len(zip), "manifest")
    BY <1>1, <2>1
  <2>3. Promise!RowsOf(zip) = zip[m].rows
    BY DEF Promise!RowsOf
  <2> QED
    BY <2>2, <2>3
<1>7. ctr.rows = zip[m].rows
  BY DEF Read
<1>8. zip[m].rows \in Seq(Range(zip[m].rows)) /\ \A r \in Range(zip[m].rows) : r = Row(r.path, r.mime)
  BY <1>2 DEF IsEntry
<1> QED
  BY <1>3, <1>4, <1>5, <1>6, <1>7, <1>8

(* Each file row is the first of its path exactly if no path is repeated.  *)
LEMMA FirstIsOnly ==
  ASSUME NEW rows, rows \in Seq(Range(rows))
  PROVE  /\ (\A i \in DOMAIN rows : FileRow(rows[i]) => FirstRow(rows, rows[i].path) = i)
              <=> \A i, j \in DOMAIN rows :
                    FileRow(rows[i]) /\ FileRow(rows[j]) /\ rows[i].path = rows[j].path => i = j
<1>1. Len(rows) \in Nat /\ DOMAIN rows = 1..Len(rows)
  BY ListDomain
<1>2. ASSUME \A i, j \in DOMAIN rows :
               FileRow(rows[i]) /\ FileRow(rows[j]) /\ rows[i].path = rows[j].path => i = j,
             NEW i \in DOMAIN rows, FileRow(rows[i])
      PROVE  FirstRow(rows, rows[i].path) = i
  <2>1. \A j \in 1..(i - 1) : j \in DOMAIN rows /\ j # i
    BY <1>1
  <2>2. \A j \in 1..(i - 1) : FileRow(rows[j]) => rows[j].path # rows[i].path
    BY <1>2, <2>1
  <2> QED
    BY <1>2, <2>2 DEF FirstRow
<1>3. ASSUME \A i \in DOMAIN rows : FileRow(rows[i]) => FirstRow(rows, rows[i].path) = i,
             NEW i \in DOMAIN rows, NEW j \in DOMAIN rows,
             FileRow(rows[i]), FileRow(rows[j]), rows[i].path = rows[j].path
      PROVE  i = j
  <2>1. FirstRow(rows, rows[i].path) = i /\ FirstRow(rows, rows[j].path) = j
    BY <1>3
  <2> QED
    BY <1>3, <2>1
<1> QED
  BY <1>2, <1>3

(* The manifest's rows, counted, are as a valid manifest has them, and the *)
(* media types read are those of the files.                                *)
LEMMA ManifestIsValid ==
  ASSUME NEW rows, rows \in Seq(Range(rows)), \A r \in Range(rows) : r = Row(r.path, r.mime),
         NEW names, names \subseteq Name
  PROVE  /\ ManifestOK(rows, names) <=> Promise!ValidManifest(rows, names)
         /\ ManifestOK(rows, names) =>
              Restrict(ManifestMedia(rows), names) = Promise!MediaOf(rows, names)
<1> DEFINE D == DOMAIN rows
<1> DEFINE file(i) == FileRow(rows[i])
<1> DEFINE roots == {i \in D : rows[i].path = "/"}
<1>0. /\ Promise!NoName = NoName /\ Promise!NoMediaType = NoMediaType
      /\ Promise!Row("/", Promise!RootMedia) = Row("/", RootMedia)
      /\ Promise!Range(rows) = Range(rows)
  BY DEF Promise!NoName, NoName, Promise!NoMediaType, NoMediaType, Promise!Row, Row,
     Promise!RootMedia, RootMedia, Promise!Range, Range
<1>1. {"/", "META-INF/"} \cap Name = {}
  BY AsiceAssumption
<1>2. Cardinality(roots) = 1 <=> roots # {} /\ \A i, j \in roots : i = j
  <2>1. IsFiniteSet(roots)
    <3>1. IsFiniteSet(D) /\ roots \subseteq D
      BY ListDomain
    <3> QED
      BY <3>1, FS_Subset
  <2> HIDE DEF roots
  <2>2. Cardinality(roots) = 1 <=> \E x : roots = {x}
    BY <2>1, FS_Singleton
  <2>3. ASSUME roots # {}, \A i, j \in roots : i = j
        PROVE  \E x : roots = {x}
    <3>1. PICK x : x \in roots
      BY <2>3
    <3>2. roots = {x}
      BY <2>3, <3>1
    <3> QED
      BY <3>2
  <2>4. (\E x : roots = {x}) => roots # {} /\ \A i, j \in roots : i = j
    BY Zenon
  <2> QED
    BY <2>2, <2>3, <2>4
<1>3. Row("/", RootMedia) \in Range(rows) <=> \E i \in roots : rows[i].mime = RootMedia
  <2>1. \A i \in D : rows[i] = Row(rows[i].path, rows[i].mime)
    BY DEF Range
  <2>2. ASSUME NEW i \in roots, rows[i].mime = RootMedia
        PROVE  Row("/", RootMedia) \in Range(rows)
    BY <2>1, <2>2 DEF Range
  <2>3. ASSUME Row("/", RootMedia) \in Range(rows)
        PROVE  \E i \in roots : rows[i].mime = RootMedia
    <3>1. PICK i \in D : rows[i] = Row("/", RootMedia)
      BY <2>3 DEF Range
    <3>2. rows[i].path = "/" /\ rows[i].mime = RootMedia
      BY <3>1 DEF Row
    <3> QED
      BY <3>2
  <2> QED
    BY <2>2, <2>3
<1>4. DOMAIN ManifestMedia(rows) = {rows[i].path : i \in {j \in D : file(j)}}
  BY DEF ManifestMedia
<1> DEFINE sound == \A i \in D : Complete(rows[i]) /\ rows[i].path # "META-INF/"
<1>5. sound <=> \A i \in D :
        rows[i].path \notin {Promise!NoName, "META-INF/"} /\ rows[i].mime # Promise!NoMediaType
  BY <1>0 DEF Complete
<1>6. sound => \A i \in D : file(i) <=> i \notin roots
  BY DEF FileRow
<1>7. sound => (names \subseteq DOMAIN ManifestMedia(rows)
                  <=> names \subseteq {rows[i].path : i \in D})
  <2>1. ASSUME sound, NEW n \in names
        PROVE  n \in {rows[i].path : i \in D} <=> n \in DOMAIN ManifestMedia(rows)
    <3>1. n # "/"
      BY <1>1
    <3> QED
      BY <1>4, <1>6, <2>1, <3>1
  <2> QED
    BY <2>1
<1> DEFINE apart == \A i, j \in D : rows[i].path = rows[j].path => i = j
<1> DEFINE filesApart ==
      \A i, j \in D : file(i) /\ file(j) /\ rows[i].path = rows[j].path => i = j
<1>8. sound => (apart <=> filesApart /\ \A i, j \in roots : i = j)
  <2>1. ASSUME apart PROVE filesApart /\ \A i, j \in roots : i = j
    BY <2>1
  <2>2. ASSUME sound, filesApart, \A i, j \in roots : i = j,
               NEW i \in D, NEW j \in D, rows[i].path = rows[j].path
        PROVE  i = j
    <3>1. i \in roots <=> j \in roots
      BY <2>2
    <3> HIDE DEF roots, file
    <3> QED
      BY <1>6, <2>2, <3>1
  <2> QED
    BY <2>1, <2>2
<1> DEFINE typed == \A i \in roots : rows[i].mime = RootMedia
<1>9. ManifestOK(rows, names) <=>
        /\ sound /\ typed /\ filesApart
        /\ Cardinality(roots) = 1 /\ names \subseteq DOMAIN ManifestMedia(rows)
  <2>1. filesApart <=> \A i \in D : file(i) => FirstRow(rows, rows[i].path) = i
    BY FirstIsOnly
  <2>2. ManifestOK(rows, names) <=>
          /\ \A i \in D : /\ Complete(rows[i]) /\ rows[i].path # "META-INF/"
                          /\ rows[i].path = "/" => rows[i].mime = RootMedia
                          /\ file(i) => FirstRow(rows, rows[i].path) = i
          /\ Cardinality(roots) = 1 /\ names \subseteq DOMAIN ManifestMedia(rows)
    BY Zenon DEF ManifestOK
  <2>3. typed <=> \A i \in D : rows[i].path = "/" => rows[i].mime = RootMedia
    OBVIOUS
  <2> HIDE DEF file, filesApart, roots, typed
  <2> QED
    BY <2>1, <2>2, <2>3
<1>10. Promise!ValidManifest(rows, names) <=>
         /\ sound /\ apart /\ (\E i \in roots : rows[i].mime = RootMedia)
         /\ names \subseteq {rows[i].path : i \in D}
  BY <1>0, <1>3, <1>5 DEF Promise!ValidManifest
<1>11. ManifestOK(rows, names) <=> Promise!ValidManifest(rows, names)
  <2> HIDE DEF sound, apart, filesApart
  <2>1. (\A i, j \in roots : i = j) /\ roots # {} =>
          (typed <=> \E i \in roots : rows[i].mime = RootMedia)
    <3> HIDE DEF roots
    <3> QED
      OBVIOUS
  <2> HIDE DEF typed, roots
  <2>2. (\E i \in roots : rows[i].mime = RootMedia) => roots # {}
    OBVIOUS
  <2> QED
    BY <1>2, <1>7, <1>8, <1>9, <1>10, <2>1, <2>2
<1>12. ASSUME ManifestOK(rows, names)
       PROVE  Restrict(ManifestMedia(rows), names) = Promise!MediaOf(rows, names)
  <2>1. sound /\ apart /\ names \subseteq DOMAIN ManifestMedia(rows)
    BY <1>9, <1>10, <1>11, <1>12
  <2> HIDE DEF sound
  <2>2. ASSUME NEW n \in names
        PROVE  ManifestMedia(rows)[n] = rows[CHOOSE i \in D : rows[i].path = n].mime
    <3>1. n \in {rows[i].path : i \in {j \in D : file(j)}}
      BY <1>4, <2>1
    <3>2. PICK k \in D : file(k) /\ rows[k].path = n
      BY <3>1
    <3>3. FirstRow(rows, n) = k
      BY <1>9, <1>12, <3>2, FirstIsOnly
    <3>4. (CHOOSE i \in D : rows[i].path = n) = k
      BY <2>1, <3>2
    <3>5. ManifestMedia(rows)[n] = rows[FirstRow(rows, n)].mime
      BY <3>1 DEF ManifestMedia
    <3> QED
      BY <3>3, <3>4, <3>5
  <2>3. Restrict(ManifestMedia(rows), names) = [n \in names |-> ManifestMedia(rows)[n]]
    BY DEF Restrict
  <2> QED
    BY <2>2, <2>3 DEF Promise!MediaOf
<1> QED
  BY <1>11, <1>12

-----------------------------------------------------------------------------
LEMMA InputKept == [Next]_vars => UNCHANGED <<zip, opts>>
BY DEF Next, vars, input, opening, OpenContainer, VerifySignature, OpenMimetype, ReadEntry,
   CheckStructure, ParseManifest, NextSignature, FinishSignature, Conclude, CheckShape,
   CheckKeyInfoCert, CheckObject, CheckSigningTime, CheckChain, CheckSignatureValue,
   CheckReferences, CheckSignedProperties, CheckUSPShape, CheckTimestamp, CheckOCSPResponse,
   CheckDelay

LEMMA FreshKInv ==
  ASSUME ArchiveInv, InitFor(zip, opts)
  PROVE  KInv
BY DEF InitFor, KInv, OpenedInv, DecidedInv, Opening

LEMMA InitKInv == Init => KInv
<1> SUFFICES ASSUME Init PROVE KInv
  OBVIOUS
<1>1. PICK in \in Input : InitFor(in[1], in[2])
  BY DEF Init
<1>2. zip = in[1] /\ opts = in[2] /\ InitFor(zip, opts)
  BY <1>1 DEF InitFor
<1>3. \A i \in DOMAIN zip : zip[i] \in Range(in[1])
  BY <1>2 DEF Range
<1>4. ArchiveInv
  BY <1>2, <1>3, VerifyAssumption DEF ArchiveInv
<1> QED
  BY <1>2, <1>4, FreshKInv

(* The magic entry opens the archive.                                      *)
LEMMA MimetypeKeepsK ==
  ASSUME IInv, KInv, OpenMimetype
  PROVE  KInv'
<1> USE DEF OpenMimetype
<1>1. UNCHANGED <<zip, opts>> /\ ArchiveInv /\ ArchiveInv'
  BY DEF input, KInv, ArchiveInv
<1>2. ctr = EmptyContainer /\ pos = 2 /\ total = MetaSize /\ cerrs = {} /\ ~report.ok
  BY DEF KInv, OpenedInv, DecidedInv
<1>3. Len(zip) \in Nat /\ DOMAIN zip = 1..Len(zip)
  BY SizesOf, <1>1
<1>4. CASE zip # <<>> /\ zip[1].kind = "mimetype" /\ zip[1].good
  <2>1. pc' = "entries" /\ UNCHANGED <<cerrs, pos, total, ctr, report>>
    BY <1>4
  <2>2. Len(zip) # 0
    BY <1>1, <1>3, <1>4, EmptySeq DEF ArchiveInv
  <2>3. 1 \in DOMAIN zip
    BY <1>3, <2>2
  <2>4. zip[1].good \in BOOLEAN /\ zip[1] = MimetypeEntry(zip[1].good)
    BY <1>1, <1>4, <2>3 DEF ArchiveInv, IsEntry
  <2>5. zip[1] = MimetypeEntry(TRUE)
    BY <1>4, <2>4
  <2>6. Read(ctr, 1)
    <3>1. \A kind : Past(1, kind) = {}
      BY DEF Past
    <3>2. DOMAIN ctr.files = {} /\ DOMAIN ctr.sigDocs = {} /\ ~ctr.hasManifest /\ IsAFcn(ctr.files)
      BY <1>2 DEF EmptyContainer, EmptyMap, IsAFcn
    <3>3. 2..1 = {}
      OBVIOUS
    <3> QED
      BY <3>1, <3>2, <3>3 DEF Read
  <2>7. total = Totals(Sizes)[1]
    <3>1. Sizes[1] = MetaSize
      BY <1>4, <2>3, <1>3 DEF Sizes, Promise!EntrySize
    <3>2. 1 \in 1..Len(zip) /\ 1 - 1 = 0 /\ MetaSize \in Nat
      BY <1>3, <2>3, VerifyAssumption
    <3>3. Totals(Sizes)[1] = Totals(Sizes)[0] + Sizes[1] /\ Totals(Sizes)[0] = 0
      BY <1>1, <3>2, TotalSoFar
    <3> QED
      BY <1>2, <3>1, <3>2, <3>3
  <2>8. OpenedInv'
    <3>1. pos' \in 2..(Len(zip) + 1) /\ pos' - 1 = 1 /\ ~(pos' > 2)
      BY <1>2, <1>3, <2>1, <2>2
    <3>2. Sizes' = Sizes /\ Read(ctr, 1)'
      BY <1>1, <2>1, <2>6 DEF Sizes, Read, Past, Unreadable
    <3> QED
      BY <1>1, <1>4, <2>1, <2>5, <2>7, <3>1, <3>2 DEF OpenedInv, Opening
  <2> QED
    BY <1>1, <1>2, <2>1, <2>8 DEF KInv, DecidedInv
<1>5. CASE ~(zip # <<>> /\ zip[1].kind = "mimetype" /\ zip[1].good)
  <2>1. pc' = "done" /\ cerrs' = {"mimetype"} /\ report' = report
    BY <1>5
  <2>2. ~Promise!WholeArchive(zip)
    <3>1. MimetypeEntry(TRUE).kind = "mimetype" /\ MimetypeEntry(TRUE).good
      BY DEF MimetypeEntry
    <3> QED
      BY <1>5, <3>1, Whole
  <2>3. ~Promise!ValidContainer(zip, opts)
    BY <2>2 DEF Promise!ValidContainer
  <2>4. cerrs' # {} /\ OpenedInv'
    BY <2>1 DEF OpenedInv, Opening
  <2> QED
    BY <1>1, <1>2, <2>1, <2>3, <2>4 DEF KInv, DecidedInv
<1> QED
  BY <1>4, <1>5

(* An entry is read, or ends what can be valid.                            *)
LEMMA EntryKeepsK ==
  ASSUME IInv, KInv, ReadEntry
  PROVE  KInv'
<1>1. /\ UNCHANGED <<zip, opts, report>> /\ pc = "entries" /\ pc' = "entries" /\ pos <= Len(zip)
      /\ total' = total + BytesRead(zip[pos])
  BY DEF ReadEntry, input
<1>2. ArchiveInv /\ ArchiveInv' /\ Sizes' = Sizes /\ ~report.ok
  BY <1>1 DEF KInv, ArchiveInv, Sizes, DecidedInv
<1>3. /\ cerrs # {} => cerrs' # {}
      /\ \/ total' > MaxTotal /\ cerrs' # {}
         \/ total' <= MaxTotal /\ Admitted(zip[pos]) /\ ctr' = WithEntry(zip[pos])
            /\ pos' = pos + 1 /\ cerrs' = cerrs
         \/ total' <= MaxTotal /\ ~Admitted(zip[pos]) /\ cerrs' # {}
  BY DEF ReadEntry
<1>4. CASE cerrs # {}
  <2>1. ~Promise!ValidContainer(zip, opts)
    BY <1>4 DEF KInv, DecidedInv
  <2> QED
    BY <1>1, <1>2, <1>3, <1>4, <2>1 DEF KInv, OpenedInv, DecidedInv, Opening
<1>5. CASE cerrs = {}
  <2>1. /\ pos \in 2..(Len(zip) + 1) /\ Read(ctr, pos - 1) /\ total = Totals(Sizes)[pos - 1]
        /\ zip # <<>> /\ zip[1] = MimetypeEntry(TRUE)
    BY <1>1, <1>5 DEF KInv, OpenedInv
  <2> DEFINE n == pos - 1
  <2>2. /\ Len(zip) \in Nat /\ pos \in 1..Len(zip) /\ n \in 1..(Len(zip) - 1) /\ n \in Nat \ {0}
        /\ n + 1 = pos
    BY <1>1, <1>2, <2>1, SizesOf
  <2>3. /\ Totals(Sizes)[pos] = total + Sizes[pos] /\ total \in Nat
        /\ Totals(Sizes)[pos] <= Promise!TotalSize(zip) /\ Promise!TotalSize(zip) \in Int
    <3>1. Len(zip) \in 1..Len(zip)
      BY <2>2
    <3> QED
      BY <1>2, <2>1, <2>2, <3>1, TotalSoFar
  <2>4. BytesRead(zip[pos]) \in Nat /\ Sizes[pos] \in Nat /\ BytesRead(zip[pos]) <= Sizes[pos]
    BY <1>2, <2>2, SizesOf
  <2>5. CASE cerrs' # {} /\ ~Promise!WholeArchive(zip)
    <3>1. ~Promise!ValidContainer(zip, opts)
      BY <2>5 DEF Promise!ValidContainer
    <3> QED
      BY <1>1, <1>2, <2>5, <3>1 DEF KInv, OpenedInv, DecidedInv, Opening
  <2>6. CASE total' > MaxTotal /\ cerrs' # {}
    <3>1. MaxTotal \in Nat
      BY VerifyAssumption
    <3>2. ~(Promise!TotalSize(zip) <= MaxTotal)
      BY <1>1, <2>3, <2>4, <2>6, <3>1
    <3>3. ~Promise!WholeArchive(zip)
      BY <3>2, Whole
    <3> QED
      BY <2>5, <2>6, <3>3
  <2>7. CASE ~Admitted(zip[pos]) /\ cerrs' # {}
    <3>1. ~Promise!WholeArchive(zip)
      BY <1>2, <2>1, <2>2, <2>7, RefusedIsBad
    <3> QED
      BY <2>5, <2>7, <3>1
  <2>8. CASE /\ total' <= MaxTotal /\ Admitted(zip[pos]) /\ ctr' = WithEntry(zip[pos])
             /\ pos' = pos + 1 /\ cerrs' = cerrs
    <3>1. Read(WithEntry(zip[pos]), pos)
      BY <2>1, <2>2, <2>8, AdmittedIsRead
    <3>2. Read(ctr, pos - 1)'
      <4>1. pos' - 1 = pos
        BY <2>2, <2>8
      <4>2. zip' = zip /\ ctr' = WithEntry(zip[pos])
        BY <1>1, <2>8
      <4>3. \A c, m : zip' = zip /\ ctr' = c /\ pos' - 1 = m /\ Read(c, m) => Read(ctr, pos - 1)'
        BY DEF Read, Past, Unreadable, IsAFcn
      <4> QED
        BY <3>1, <4>1, <4>2, <4>3
    <3>3. total' = Totals(Sizes)[pos' - 1]
      <4>1. BytesRead(zip[pos]) = Sizes[pos]
        BY <1>2, <2>2, <2>8, SizesOf DEF Admitted
      <4>2. pos' - 1 = pos
        BY <2>2, <2>8
      <4> QED
        BY <1>1, <2>3, <4>1, <4>2
    <3>4. pos' \in 2..(Len(zip) + 1)
      BY <2>2, <2>8
    <3>5. OpenedInv'
      BY <1>1, <1>2, <1>5, <2>1, <2>8, <3>2, <3>3, <3>4 DEF OpenedInv, Opening
    <3> QED
      BY <1>1, <1>2, <1>5, <2>8, <3>5 DEF KInv, DecidedInv
  <2> QED
    BY <1>3, <2>6, <2>7, <2>8
<1> QED
  BY <1>4, <1>5

(* All entries are read: the archive is whole, or the container ends here. *)
LEMMA StructureKeepsK ==
  ASSUME IInv, KInv, CheckStructure
  PROVE  KInv'
<1>1. /\ UNCHANGED <<zip, opts, report, ctr>> /\ pc = "entries" /\ pos > Len(zip)
      /\ cerrs' = cerrs \cup StructureErrors
      /\ pc' = IF cerrs' = {} THEN "manifest" ELSE "done"
  BY DEF CheckStructure, input
<1>2. ArchiveInv /\ ArchiveInv' /\ ~report.ok
  BY <1>1 DEF KInv, ArchiveInv, DecidedInv
<1>3. CASE cerrs' # {} /\ ~Promise!ValidContainer(zip, opts)
  BY <1>1, <1>2, <1>3 DEF KInv, OpenedInv, DecidedInv, Opening
<1>4. CASE cerrs # {}
  BY <1>1, <1>3, <1>4 DEF KInv, DecidedInv
<1>5. CASE cerrs = {}
  <2>1. /\ pos \in 2..(Len(zip) + 1) /\ Read(ctr, pos - 1) /\ total = Totals(Sizes)[pos - 1]
        /\ zip # <<>> /\ zip[1] = MimetypeEntry(TRUE) /\ (pos > 2 => total <= MaxTotal)
    BY <1>1, <1>5 DEF KInv, OpenedInv
  <2>2. Len(zip) \in Nat /\ pos - 1 = Len(zip) /\ Len(zip) \in 1..Len(zip)
    BY <1>1, <1>2, <2>1, SizesOf
  <2>3. Read(ctr, Len(zip)) /\ total = Promise!TotalSize(zip)
    BY <1>2, <2>1, <2>2, TotalSoFar
  <2>4. Promise!WholeArchive(zip) <=> StructureErrors = {} /\ Promise!TotalSize(zip) <= MaxTotal
    BY <1>2, <2>1, <2>3, StructureIsWhole
  <2>5. CASE StructureErrors # {}
    <3>1. ~Promise!ValidContainer(zip, opts)
      BY <2>4, <2>5 DEF Promise!ValidContainer
    <3> QED
      BY <1>1, <1>3, <2>5, <3>1
  <2>6. CASE StructureErrors = {}
    <3>1. Past(Len(zip), "file") # {}
      BY <2>3, <2>6 DEF StructureErrors, Read
    <3>2. Len(zip) >= 2
      BY <2>2, <3>1 DEF Past
    <3>3. Promise!WholeArchive(zip)
      BY <2>1, <2>2, <2>3, <2>4, <2>6, <3>2
    <3>4. cerrs' = {} /\ pc' = "manifest"
      BY <1>1, <1>5, <2>6
    <3>5. Read(ctr, Len(zip))' /\ Promise!WholeArchive(zip)'
      <4>1. Promise!WholeArchive(zip)'
        BY <1>1, <3>3
      <4>2. Read(ctr, Len(zip))'
        BY <1>1, <2>3 DEF Read, Past, Unreadable
      <4> QED
        BY <4>1, <4>2
    <3>6. OpenedInv'
      BY <1>1, <2>1, <3>4, <3>5 DEF OpenedInv, Opening
    <3> QED
      BY <1>1, <1>2, <3>4, <3>6 DEF KInv, DecidedInv
  <2> QED
    BY <2>5, <2>6
<1> QED
  BY <1>4, <1>5

(* The manifest is valid, or the container ends here.                      *)
LEMMA ManifestKeepsK ==
  ASSUME IInv, KInv, ParseManifest
  PROVE  KInv'
<1>1. /\ UNCHANGED <<zip, opts, report>> /\ pc = "manifest"
      /\ ctr' = [ctr EXCEPT !.media = ManifestMedia(ctr.rows)]
      /\ IF ManifestOK(ctr.rows, DOMAIN ctr.files)
         THEN pc' = "next" /\ cerrs' = cerrs
         ELSE pc' = "done" /\ cerrs' # {}
  BY DEF ParseManifest, input
<1>2. ArchiveInv /\ ArchiveInv' /\ ~report.ok
  BY <1>1 DEF KInv, ArchiveInv, DecidedInv
<1>3. cerrs = {} /\ Read(ctr, Len(zip)) /\ Promise!WholeArchive(zip)
      /\ zip # <<>> /\ zip[1] = MimetypeEntry(TRUE)
  BY <1>1 DEF IInv, OpenInv, KInv, OpenedInv
<1>4. ManifestOK(ctr.rows, DOMAIN ctr.files)
        <=> Promise!ValidManifest(Promise!RowsOf(zip), Promise!FileNames(zip))
  <2>1. /\ Promise!FileNames(zip) = DOMAIN ctr.files /\ DOMAIN ctr.files \subseteq Name
        /\ Promise!RowsOf(zip) = ctr.rows
        /\ ctr.rows \in Seq(Range(ctr.rows)) /\ \A r \in Range(ctr.rows) : r = Row(r.path, r.mime)
    BY <1>2, <1>3, ReadIsWhole
  <2>2. ManifestOK(ctr.rows, DOMAIN ctr.files) <=> Promise!ValidManifest(ctr.rows, DOMAIN ctr.files)
    BY <2>1, ManifestIsValid
  <2> QED
    BY <2>1, <2>2
<1>5. CASE ~ManifestOK(ctr.rows, DOMAIN ctr.files)
  <2>1. ~Promise!ValidContainer(zip, opts)
    BY <1>4, <1>5 DEF Promise!ValidContainer
  <2> QED
    BY <1>1, <1>2, <1>5, <2>1 DEF KInv, OpenedInv, DecidedInv, Opening
<1>6. CASE ManifestOK(ctr.rows, DOMAIN ctr.files)
  <2>1. pc' = "next" /\ cerrs' = {}
    BY <1>1, <1>3, <1>6
  <2>2. /\ ctr'.files = ctr.files /\ ctr'.sigDocs = ctr.sigDocs /\ ctr'.rows = ctr.rows
        /\ ctr'.hasManifest = ctr.hasManifest /\ ctr'.media = ManifestMedia(ctr.rows)
    BY <1>1 DEF IInv, OpenInv, EmptyContainer
  <2>3. Read(ctr, Len(zip))'
    BY <1>1, <1>3, <2>2 DEF Read, Past, Unreadable
  <2>4. Promise!WholeArchive(zip)' /\ zip' # <<>> /\ zip'[1] = MimetypeEntry(TRUE)
    BY <1>1, <1>3
  <2>5. ManifestOK(ctr'.rows, DOMAIN ctr'.files) /\ ctr'.media = ManifestMedia(ctr'.rows)
    BY <1>6, <2>2
  <2>6. OpenedInv'
    BY <2>1, <2>3, <2>4, <2>5 DEF OpenedInv, Opening
  <2> QED
    BY <1>1, <1>2, <2>1, <2>6 DEF KInv, DecidedInv
<1> QED
  BY <1>5, <1>6

(* A step after the container is open that says nothing of the whole.      *)
LEMMA LoopKeepsK ==
  ASSUME KInv, UNCHANGED <<input, opening>>, report'.ok = report.ok,
         pc \notin Opening \cup {"done"}, pc' \notin Opening \cup {"done"}
  PROVE  KInv'
<1>1. UNCHANGED <<zip, opts, pos, total, ctr, cerrs>>
  BY DEF input, opening
<1>2. ArchiveInv'
  BY <1>1 DEF KInv, ArchiveInv
<1>3. OpenedInv'
  <2>1. cerrs = {} =>
          /\ Read(ctr, Len(zip)) /\ Promise!WholeArchive(zip)
          /\ zip # <<>> /\ zip[1] = MimetypeEntry(TRUE)
          /\ ManifestOK(ctr.rows, DOMAIN ctr.files) /\ ctr.media = ManifestMedia(ctr.rows)
    BY DEF KInv, OpenedInv, Opening
  <2>2. Read(ctr, Len(zip)) => Read(ctr, Len(zip))'
    BY <1>1 DEF Read, Past, Unreadable
  <2> QED
    BY <1>1, <2>1, <2>2 DEF OpenedInv, Opening
<1>4. DecidedInv'
  BY <1>1 DEF KInv, DecidedInv
<1> QED
  BY <1>2, <1>3, <1>4 DEF KInv

(* When no document is left to do, the verdicts add up to the container's. *)
LEMMA VerdictsAddUp ==
  ASSUME IInv, JInv, KInv, pc = "next", todo = {}
  PROVE  (\A i \in DOMAIN report.sigs : report.sigs[i].ok) <=> Promise!ValidContainer(zip, opts)
<1> DEFINE files == ctr.files
<1> DEFINE media == Restrict(ctr.media, DOMAIN files)
<1> DEFINE valid(sig) == Promise!ValidSignature(sig, files, media, opts)
<1>1. cerrs = {} /\ DOMAIN ctr.sigDocs = Reported
  BY DEF IInv, OpenInv, OrderInv, Opening, Checking, Tags
<1>2. /\ ArchiveInv /\ Read(ctr, Len(zip)) /\ Promise!WholeArchive(zip)
      /\ ManifestOK(ctr.rows, DOMAIN files) /\ ctr.media = ManifestMedia(ctr.rows)
  BY <1>1 DEF KInv, OpenedInv, Opening
<1>3. /\ Promise!FileNames(zip) = DOMAIN files /\ DOMAIN files \subseteq Name
      /\ Promise!FilesOf(zip) = files /\ Promise!RowsOf(zip) = ctr.rows
      /\ ctr.rows \in Seq(Range(ctr.rows)) /\ \A r \in Range(ctr.rows) : r = Row(r.path, r.mime)
  BY <1>2, ReadIsWhole
<1>4. /\ Promise!ValidManifest(Promise!RowsOf(zip), Promise!FileNames(zip))
      /\ Promise!MediaOf(Promise!RowsOf(zip), Promise!FileNames(zip)) = media
  BY <1>2, <1>3, ManifestIsValid
<1>5. \A i \in DOMAIN report.sigs :
        report.sigs[i].ok <=> valid(ctr.sigDocs[report.sigs[i].key])
  BY IInvExact DEF SignatureVerdictExact
<1> HIDE DEF media, files
<1>6. Promise!ValidContainer(zip, opts)
        <=> \A i \in Past(Len(zip), "signature") : valid(zip[i].doc)
  BY <1>2, <1>3, <1>4, AllPast DEF Promise!ValidContainer
<1> HIDE DEF valid
<1>7. (\A i \in DOMAIN report.sigs : report.sigs[i].ok)
        <=> \A k \in Reported : valid(ctr.sigDocs[k])
  BY <1>5 DEF Reported
<1>8. (\A i \in Past(Len(zip), "signature") : valid(zip[i].doc))
        <=> \A k \in DOMAIN ctr.sigDocs : valid(ctr.sigDocs[k])
  BY <1>2 DEF Read
<1> QED
  BY <1>1, <1>6, <1>7, <1>8

LEMMA NextKInv == IInv /\ JInv /\ KInv /\ [Next]_vars => KInv'
<1> SUFFICES ASSUME IInv, JInv, KInv, [Next]_vars
             PROVE  KInv'
  OBVIOUS
<1>s. CASE UNCHANGED vars
  <2>1. UNCHANGED <<zip, opts, pc, pos, total, ctr, cerrs, report>>
    BY <1>s DEF vars, input, opening
  <2>2. \A n : Read(ctr, n) => Read(ctr, n)'
    BY <2>1 DEF Read, Past, Unreadable
  <2>3. ArchiveInv'
    BY <2>1 DEF KInv, ArchiveInv
  <2>4. OpenedInv'
    BY <2>1, <2>2 DEF KInv, OpenedInv, Sizes
  <2>5. DecidedInv'
    BY <2>1 DEF KInv, DecidedInv
  <2> QED
    BY <2>3, <2>4, <2>5 DEF KInv
<1>1. CASE OpenContainer
  BY <1>1, MimetypeKeepsK, EntryKeepsK, StructureKeepsK, ManifestKeepsK DEF OpenContainer
<1>2. CASE NextSignature
  <2>1. UNCHANGED <<input, opening, report>> /\ pc = "next" /\ pc' = "shape"
    BY <1>2 DEF NextSignature
  <2> QED
    BY <2>1, LoopKeepsK DEF Opening
<1>3. CASE FinishSignature
  <2>1. UNCHANGED <<input, opening>> /\ pc = "finish" /\ pc' = "next" /\ report'.ok = report.ok
    BY <1>3 DEF FinishSignature, IInv, OpenInv
  <2> QED
    BY <2>1, LoopKeepsK DEF Opening
<1>4. CASE Conclude
  <2>1. /\ UNCHANGED <<zip, opts, pos, total, ctr, cerrs>> /\ pc = "next" /\ pc' = "done" /\ todo = {}
        /\ report'.ok = \A i \in DOMAIN report.sigs : report.sigs[i].ok
    BY <1>4 DEF Conclude, input, opening, IInv, OpenInv
  <2>2. report'.ok <=> Promise!ValidContainer(zip, opts)
    BY <2>1, VerdictsAddUp
  <2>3. ArchiveInv'
    BY <2>1 DEF KInv, ArchiveInv
  <2>4. OpenedInv'
    <3>1. Read(ctr, Len(zip)) => Read(ctr, Len(zip))'
      BY <2>1 DEF Read, Past, Unreadable
    <3> QED
      BY <2>1, <3>1 DEF KInv, OpenedInv, Opening
  <2>5. cerrs = {}
    BY <2>1 DEF IInv, OpenInv
  <2>6. DecidedInv'
    BY <2>1, <2>2, <2>5 DEF DecidedInv
  <2> QED
    BY <2>3, <2>4, <2>6 DEF KInv
<1>5. CASE VerifySignature
  <2>1. UNCHANGED <<input, opening, report>> /\ pc \in Tags /\ pc' \in Checking
    BY <1>5 DEF VerifySignature, CheckShape, CheckKeyInfoCert, CheckObject, CheckSigningTime,
       CheckChain, CheckSignatureValue, CheckReferences, CheckSignedProperties, CheckUSPShape,
       CheckTimestamp, CheckOCSPResponse, CheckDelay, Record, StopUnless, Tags, Checking
  <2> QED
    BY <2>1, LoopKeepsK DEF Opening, Tags, Checking
<1> QED
  BY <1>s, <1>1, <1>2, <1>3, <1>4, <1>5 DEF Next

LEMMA KInvariance == Spec => [](IInv /\ JInv /\ KInv)
<1>1. Init => IInv /\ JInv /\ KInv
  BY InitIInv, InitJInv, InitKInv
<1>2. IInv /\ JInv /\ KInv /\ [Next]_vars => IInv' /\ JInv' /\ KInv'
  BY NextIInv, NextJInv, NextKInv
<1> QED
  BY <1>1, <1>2, PTL DEF Spec

LEMMA DoneStays == pc = "done" /\ [Next]_vars => UNCHANGED <<pc, report>>
BY DEF Next, vars, OpenContainer, VerifySignature, OpenMimetype, ReadEntry,
   CheckStructure, ParseManifest, NextSignature, FinishSignature, Conclude, CheckShape,
   CheckKeyInfoCert, CheckObject, CheckSigningTime, CheckChain, CheckSignatureValue,
   CheckReferences, CheckSignedProperties, CheckUSPShape, CheckTimestamp, CheckOCSPResponse,
   CheckDelay

LEMMA StepKeepsPromise ==
  ASSUME KInv, KInv', [Next]_vars
  PROVE  [Promise!Decide]_<<zip, opts, Verdict>>
<1>1. UNCHANGED <<zip, opts>>
  BY InputKept
<1>2. CASE pc = "done"
  BY <1>1, <1>2, DoneStays DEF Verdict
<1>3. CASE pc # "done" /\ pc' # "done"
  BY <1>1, <1>3 DEF Verdict
<1>4. CASE pc # "done" /\ pc' = "done"
  <2>1. Verdict = "pending"
    BY <1>4 DEF Verdict
  <2>2. report'.ok <=> Promise!ValidContainer(zip, opts)
    <3>1. DecidedInv' /\ zip' = zip /\ opts' = opts
      BY <1>1 DEF KInv
    <3> QED
      BY <1>4, <3>1 DEF DecidedInv
  <2>3. Verdict' = IF Promise!ValidContainer(zip, opts) THEN "accepted" ELSE "rejected"
    BY <1>4, <2>2 DEF Verdict
  <2> QED
    BY <1>1, <2>1, <2>3 DEF Promise!Decide
<1> QED
  BY <1>2, <1>3, <1>4

(* Verify keeps the promise of Validity: the entry loop, the structure,    *)
(* manifest and signature checks with their early exits say "accepted" of  *)
(* the valid containers and "rejected" of all others, once and for all,    *)
(* whatever the archive holds and in whatever order.                       *)
THEOREM VerdictIsTheContainers == Spec => VerdictKept
<1>1. Init => Promise!Init
  BY DEF Init, InitFor, Promise!Init, Verdict
<1> QED
  BY <1>1, KInvariance, StepKeepsPromise, PTL DEF Spec, VerdictKept, Promise!Spec

-----------------------------------------------------------------------------
(***************************************************************************)
(* A container as asice create makes it: when it is valid.                 *)
(***************************************************************************)

(* Counting up from zero.                                                  *)
LEMMA CountedUp ==
  ASSUME NEW n \in Nat, NEW S, 0 \in S, \A i \in 1..n : i - 1 \in S => i \in S
  PROVE  n \in S
<1> DEFINE Bad == {i \in 0..n : i \notin S}
<1>1. CASE Bad # {}
  <2>1. PICK i \in Bad : \A m \in Bad : i <= m
    <3>1. Bad \subseteq Nat
      OBVIOUS
    <3> HIDE DEF Bad
    <3> QED
      BY <1>1, <3>1, LeastNat
  <2>2. i \in 1..n /\ i - 1 \in 0..n /\ ~(i <= i - 1)
    BY <2>1
  <2>3. i - 1 \in S
    BY <2>1, <2>2
  <2> QED
    BY <2>1, <2>2, <2>3
<1>2. CASE Bad = {}
  BY <1>2
<1> QED
  BY <1>1, <1>2

LEMMA Regrouped ==
  ASSUME NEW p \in Int, NEW q \in Int, NEW r \in Int
  PROVE  (p + q) + r = p + (q + r)
OBVIOUS

(* The totals of a list that has another one in it, ...                    *)
LEMMA TotalsOfPart ==
  ASSUME NEW a \in Seq(Nat), NEW b \in Seq(Nat), NEW off \in Nat, off + Len(b) <= Len(a),
         \A i \in 1..Len(b) : a[off + i] = b[i]
  PROVE  Totals(a)[off + Len(b)] = Totals(a)[off] + Total(b)
<1> DEFINE f == Totals(a)
           g == Totals(b)
           n == Len(b)
           S == {i \in Nat : f[off + i] = f[off] + g[i]}
<1>1. n \in Nat /\ Len(a) \in Nat /\ off + n <= Len(a)
  OBVIOUS
<1>2. /\ \A i \in 1..Len(a) : f[i] = f[i - 1] + a[i]
      /\ \A i \in 0..Len(a) : f[i] \in Nat
  BY TotalsFacts
<1>3. /\ g[0] = 0
      /\ \A i \in 1..n : g[i] = g[i - 1] + b[i]
      /\ \A i \in 0..n : g[i] \in Nat
  BY TotalsFacts
<1>4. \A i \in 1..n : b[i] \in Nat /\ a[off + i] = b[i]
  OBVIOUS
<1>5. Total(b) = g[n]
  BY DEF Total
<1> HIDE DEF f, g, n
<1>6. 0 \in S
  <2>1. f[off] \in Nat /\ off + 0 = off
    BY <1>1, <1>2
  <2> QED
    BY <1>3, <2>1
<1>7. ASSUME NEW i \in 1..n, i - 1 \in S PROVE i \in S
  <2>1. i \in Nat /\ i - 1 \in 0..n /\ off + i \in 1..Len(a)
        /\ (off + i) - 1 = off + (i - 1) /\ off \in 0..Len(a)
    BY <1>1
  <2>2. f[off + (i - 1)] = f[off] + g[i - 1]
    BY <1>7
  <2>3. f[off + i] = f[off + (i - 1)] + b[i] /\ g[i] = g[i - 1] + b[i]
    BY <1>2, <1>3, <1>4, <2>1
  <2>4. f[off] \in Nat /\ g[i - 1] \in Nat /\ b[i] \in Nat
    BY <1>2, <1>3, <1>4, <2>1
  <2>5. f[off + i] = f[off] + g[i]
    <3>1. f[off + i] = (f[off] + g[i - 1]) + b[i]
      BY <2>2, <2>3
    <3>2. (f[off] + g[i - 1]) + b[i] = f[off] + (g[i - 1] + b[i])
      BY <2>4, Regrouped
    <3> QED
      BY <2>3, <3>1, <3>2
  <2> QED
    BY <2>1, <2>5
<1> HIDE DEF S
<1>8. n \in S
  BY <1>1, <1>6, <1>7, CountedUp
<1> QED
  BY <1>5, <1>8 DEF f, n, S

(* ... or the same number a few times.                                     *)
HasRun(a, off, n, c)  == off + n <= Len(a) /\ \A i \in 1..n : a[off + i] = c
RunCounts(a, off, n, c) == Totals(a)[off + n] = Totals(a)[off] + n * c

LEMMA TotalsOfSame ==
  ASSUME NEW a \in Seq(Nat), NEW c \in Nat, NEW off \in Nat, NEW n \in Nat,
         HasRun(a, off, n, c)
  PROVE  RunCounts(a, off, n, c)
<1> DEFINE f == Totals(a)
           S == {i \in Nat : f[off + i] = f[off] + i * c}
<1>1. Len(a) \in Nat /\ off + n <= Len(a) /\ \A i \in 1..n : a[off + i] = c
  BY DEF HasRun
<1>2. /\ \A i \in 1..Len(a) : f[i] = f[i - 1] + a[i]
      /\ \A i \in 0..Len(a) : f[i] \in Nat
  BY TotalsFacts
<1> HIDE DEF f
<1>3. 0 \in S
  <2>1. f[off] \in Nat /\ off + 0 = off /\ 0 * c = 0
    BY <1>1, <1>2
  <2> QED
    BY <2>1
<1>4. ASSUME NEW i \in 1..n, i - 1 \in S PROVE i \in S
  <2>1. i \in Nat /\ off + i \in 1..Len(a) /\ (off + i) - 1 = off + (i - 1) /\ off \in 0..Len(a)
    BY <1>1
  <2>2. f[off + (i - 1)] = f[off] + (i - 1) * c
    BY <1>4
  <2>3. f[off + i] = f[off + (i - 1)] + c
    BY <1>1, <1>2, <2>1
  <2>4. f[off] \in Nat
    BY <1>2, <2>1
  <2>5. (i - 1) * c + c = i * c /\ (i - 1) * c \in Int /\ i * c \in Int
    BY <2>1
  <2>6. f[off + i] = f[off] + i * c
    <3> DEFINE x == (i - 1) * c
               y == i * c
    <3>1. x + c = y /\ x \in Int /\ y \in Int /\ f[off + i] = (f[off] + x) + c
      BY <2>2, <2>3, <2>5
    <3> HIDE DEF x, y
    <3>2. (f[off] + x) + c = f[off] + (x + c)
      BY <2>4, <3>1, Regrouped
    <3> QED
      BY <3>1, <3>2 DEF y
  <2> QED
    BY <2>1, <2>6
<1> HIDE DEF S
<1>5. n \in S
  BY <1>3, <1>4, CountedUp
<1> QED
  BY <1>5 DEF f, S, RunCounts

(* The documents that asice create takes: a list of them, with media types *)
(* and no name twice.                                                      *)
Orderly(docs) ==
  /\ docs \in Seq(Doc) /\ docs # <<>>
  /\ \A i \in DOMAIN docs : docs[i].mime # NoMediaType
  /\ \A i, j \in DOMAIN docs : docs[i].name = docs[j].name => i = j

DocFiles(docs) == [n \in {docs[i].name : i \in DOMAIN docs} |->
                     docs[CHOOSE i \in DOMAIN docs : docs[i].name = n].data]
DocMedia(docs) == [n \in {docs[i].name : i \in DOMAIN docs} |->
                     docs[CHOOSE i \in DOMAIN docs : docs[i].name = n].mime]

LEMMA DocFacts ==
  ASSUME NEW docs, Orderly(docs)
  PROVE  /\ Len(docs) \in Nat \ {0} /\ DOMAIN docs = 1..Len(docs)
         /\ \A i \in 1..Len(docs) :
              /\ docs[i].name \in Name /\ docs[i].mime \in MediaType /\ docs[i].data \in Content
              /\ docs[i].name \in DOMAIN DocFiles(docs)
              /\ DocFiles(docs)[docs[i].name] = docs[i].data
              /\ DocMedia(docs)[docs[i].name] = docs[i].mime
<1>1. docs \in Seq(Doc) /\ docs # <<>>
  BY DEF Orderly
<1>2. Len(docs) \in Nat \ {0} /\ DOMAIN docs = 1..Len(docs)
  BY <1>1, EmptySeq, LenProperties
<1>3. \A i \in 1..Len(docs) : docs[i] \in Doc
  BY <1>1, ElementOfSeq
<1>4. \A i \in 1..Len(docs) :
        docs[i].name \in Name /\ docs[i].mime \in MediaType /\ docs[i].data \in Content
  BY <1>2, <1>3 DEF Doc, Orderly
<1>5. ASSUME NEW i \in 1..Len(docs)
      PROVE  /\ docs[i].name \in DOMAIN DocFiles(docs)
             /\ DocFiles(docs)[docs[i].name] = docs[i].data
             /\ DocMedia(docs)[docs[i].name] = docs[i].mime
  <2>1. (CHOOSE j \in DOMAIN docs : docs[j].name = docs[i].name) = i
    BY <1>2 DEF Orderly
  <2>2. docs[i].name \in {docs[j].name : j \in DOMAIN docs}
    BY <1>2
  <2> QED
    BY <2>1, <2>2 DEF DocFiles, DocMedia
<1> QED
  BY <1>2, <1>4, <1>5

(* A list given by its elements.                                           *)
LEMMA Listed ==
  ASSUME NEW n \in Nat, NEW f, IsAFcn(f), DOMAIN f = 1..n, NEW S, \A i \in 1..n : f[i] \in S
  PROVE  f \in Seq(S) /\ Len(f) = n
<1>1. f \in [1..n -> S]
  BY DEF IsAFcn
<1> QED
  BY <1>1

LEMMA Pair ==
  ASSUME NEW S, NEW p \in S, NEW q \in S
  PROVE  <<p, q>> \in Seq(S)
OBVIOUS

IsJoin(z, a, b, c) == z = (a \o b) \o c

LEMMA Joined ==
  ASSUME NEW S, NEW a \in Seq(S), NEW b \in Seq(S), NEW c \in Seq(S), NEW z, IsJoin(z, a, b, c)
  PROVE  /\ z \in Seq(S) /\ Len(z) = Len(a) + Len(b) + Len(c)
         /\ Len(a) \in Nat /\ Len(b) \in Nat /\ Len(c) \in Nat
         /\ \A i \in 1..Len(a) : z[i] = a[i]
         /\ \A i \in 1..Len(b) : z[Len(a) + i] = b[i]
         /\ \A i \in 1..Len(c) : z[Len(a) + Len(b) + i] = c[i]
<1>0. \A s, t \in Seq(S) :
        /\ s \o t \in Seq(S) /\ Len(s \o t) = Len(s) + Len(t)
        /\ \A i \in 1..Len(s \o t) : (s \o t)[i] = IF i <= Len(s) THEN s[i] ELSE t[i - Len(s)]
  BY ConcatProperties
<1> DEFINE ab == a \o b
<1>1. /\ ab \in Seq(S) /\ Len(ab) = Len(a) + Len(b)
      /\ \A i \in 1..Len(ab) : ab[i] = IF i <= Len(a) THEN a[i] ELSE b[i - Len(a)]
  BY <1>0
<1>7. z = ab \o c
  BY DEF IsJoin
<1> HIDE DEF ab
<1>2. /\ z \in Seq(S) /\ Len(z) = Len(ab) + Len(c)
      /\ \A i \in 1..Len(z) : z[i] = IF i <= Len(ab) THEN ab[i] ELSE c[i - Len(ab)]
  <2>1. /\ ab \o c \in Seq(S) /\ Len(ab \o c) = Len(ab) + Len(c)
        /\ \A i \in 1..Len(ab \o c) :
              (ab \o c)[i] = IF i <= Len(ab) THEN ab[i] ELSE c[i - Len(ab)]
    BY <1>0, <1>1, Zenon
  <2> QED
    BY <1>7, <2>1
<1>3. Len(a) \in Nat /\ Len(b) \in Nat /\ Len(c) \in Nat
  BY LenProperties
<1>4. ASSUME NEW i \in 1..Len(a) PROVE z[i] = a[i]
  <2>1. i \in 1..Len(ab) /\ i \in 1..Len(z) /\ i <= Len(ab) /\ i <= Len(a)
    BY <1>1, <1>2, <1>3
  <2> QED
    BY <1>1, <1>2, <2>1
<1>5. ASSUME NEW i \in 1..Len(b) PROVE z[Len(a) + i] = b[i]
  <2>1. /\ Len(a) + i \in 1..Len(ab) /\ Len(a) + i \in 1..Len(z) /\ Len(a) + i <= Len(ab)
        /\ ~(Len(a) + i <= Len(a)) /\ (Len(a) + i) - Len(a) = i
    BY <1>1, <1>2, <1>3
  <2> QED
    BY <1>1, <1>2, <2>1
<1>6. ASSUME NEW i \in 1..Len(c) PROVE z[Len(a) + Len(b) + i] = c[i]
  <2>1. /\ Len(a) + Len(b) + i \in 1..Len(z) /\ ~(Len(a) + Len(b) + i <= Len(ab))
        /\ (Len(a) + Len(b) + i) - Len(ab) = i
    BY <1>1, <1>2, <1>3
  <2> QED
    BY <1>1, <1>2, <2>1
<1> QED
  BY <1>1, <1>2, <1>3, <1>4, <1>5, <1>6

-----------------------------------------------------------------------------
(* The archive is the container of these documents and signatures.         *)
Holds(docs, ss) ==
  /\ Orderly(docs) /\ Len(ss) \in Nat \ {0}
  /\ zip = ContainerEntries(docs, ss)

LEMMA EntriesInOrder ==
  ASSUME NEW docs, NEW ss, Holds(docs, ss)
  PROVE  /\ Len(docs) \in Nat \ {0} /\ Len(ss) \in Nat \ {0} /\ Len(zip) = 2 + Len(docs) + Len(ss)
         /\ zip # <<>> /\ zip[1] = MimetypeEntry(TRUE)
         /\ zip[2] = ManifestEntry(ManifestRows(docs))
         /\ \A i \in 1..Len(docs) : zip[2 + i] = FileEntry(docs[i].name, docs[i].data)
         /\ \A k \in 1..Len(ss) : zip[2 + Len(docs) + k] = SignatureEntry(k - 1, ss[k])
<1> DEFINE a == <<MimetypeEntry(TRUE), ManifestEntry(ManifestRows(docs))>>
           b == [i \in 1..Len(docs) |-> FileEntry(docs[i].name, docs[i].data)]
           c == [i \in 1..Len(ss) |-> SignatureEntry(i - 1, ss[i])]
           S == {a[1], a[2]} \cup {b[i] : i \in 1..Len(docs)} \cup {c[i] : i \in 1..Len(ss)}
<1>1. Len(docs) \in Nat \ {0} /\ Len(ss) \in Nat \ {0}
  BY DocFacts DEF Holds
<1>2. /\ \A i \in 1..Len(docs) : b[i] = FileEntry(docs[i].name, docs[i].data)
      /\ \A i \in 1..Len(ss) : c[i] = SignatureEntry(i - 1, ss[i])
      /\ IsAFcn(b) /\ DOMAIN b = 1..Len(docs) /\ IsAFcn(c) /\ DOMAIN c = 1..Len(ss)
  BY DEF IsAFcn
<1>3. a[1] = MimetypeEntry(TRUE) /\ a[2] = ManifestEntry(ManifestRows(docs)) /\ Len(a) = 2
  OBVIOUS
<1>4. zip = (a \o b) \o c
  BY DEF Holds, ContainerEntries
<1>5. a \in Seq(S)
  <2>1. a[1] \in S /\ a[2] \in S
    OBVIOUS
  <2> HIDE DEF S
  <2> QED
    BY <1>3, <2>1, Pair
<1> HIDE DEF a, b, c
<1>6. b \in Seq(S) /\ Len(b) = Len(docs)
  <2>1. \A i \in 1..Len(docs) : b[i] \in S
    OBVIOUS
  <2> HIDE DEF S
  <2> QED
    BY <1>1, <1>2, <2>1, Listed
<1>7. c \in Seq(S) /\ Len(c) = Len(ss)
  <2>1. \A i \in 1..Len(ss) : c[i] \in S
    OBVIOUS
  <2> HIDE DEF S
  <2> QED
    BY <1>1, <1>2, <2>1, Listed
<1> HIDE DEF S
<1>8. /\ Len(zip) = Len(a) + Len(b) + Len(c)
      /\ \A i \in 1..Len(a) : zip[i] = a[i]
      /\ \A i \in 1..Len(b) : zip[Len(a) + i] = b[i]
      /\ \A i \in 1..Len(c) : zip[Len(a) + Len(b) + i] = c[i]
  <2>1. IsJoin(zip, a, b, c)
    BY <1>4 DEF IsJoin
  <2>2. a \in Seq(S) /\ b \in Seq(S) /\ c \in Seq(S)
    BY <1>5, <1>6, <1>7
  <2>3. ASSUME NEW z, IsJoin(z, a, b, c)
        PROVE  /\ Len(z) = Len(a) + Len(b) + Len(c)
               /\ \A i \in 1..Len(a) : z[i] = a[i]
               /\ \A i \in 1..Len(b) : z[Len(a) + i] = b[i]
               /\ \A i \in 1..Len(c) : z[Len(a) + Len(b) + i] = c[i]
    BY <2>2, <2>3, Joined
  <2> QED
    BY <2>1, <2>3, Zenon
<1>9. /\ zip[1] = MimetypeEntry(TRUE) /\ zip[2] = ManifestEntry(ManifestRows(docs))
      /\ Len(zip) = 2 + Len(docs) + Len(ss)
      /\ \A i \in 1..Len(docs) : zip[2 + i] = b[i]
      /\ \A k \in 1..Len(ss) : zip[2 + Len(docs) + k] = c[k]
  <2>1. 1 \in 1..Len(a) /\ 2 \in 1..Len(a)
    BY <1>3
  <2> QED
    BY <1>1, <1>3, <1>6, <1>7, <1>8, <2>1
<1>10. zip # <<>>
  <2>1. Len(zip) # 0
    BY <1>1, <1>9
  <2> QED
    BY <2>1
<1> QED
  BY <1>1, <1>2, <1>9, <1>10

(* Which entries are of which kind.                                        *)
LEMMA KindsInOrder ==
  ASSUME NEW docs, NEW ss, Holds(docs, ss)
  PROVE  /\ Past(Len(zip), "manifest") = {2}
         /\ Past(Len(zip), "file") = 3..(2 + Len(docs))
         /\ Past(Len(zip), "signature") = (3 + Len(docs))..(2 + Len(docs) + Len(ss))
         /\ \A i \in 2..Len(zip) : zip[i].kind \in Known
         /\ \A i \in 3..(2 + Len(docs)) : zip[i].name = docs[i - 2].name /\ zip[i].data = docs[i - 2].data
         /\ \A i \in (3 + Len(docs))..(2 + Len(docs) + Len(ss)) :
              zip[i].key = (i - (2 + Len(docs))) - 1 /\ zip[i].doc = ss[i - (2 + Len(docs))]
         /\ zip[2].rows = ManifestRows(docs)
<1> DEFINE n == Len(docs)
           m == Len(ss)
<1>1. /\ n \in Nat \ {0} /\ m \in Nat \ {0} /\ Len(zip) = 2 + n + m
      /\ zip[2] = ManifestEntry(ManifestRows(docs))
      /\ \A i \in 1..n : zip[2 + i] = FileEntry(docs[i].name, docs[i].data)
      /\ \A k \in 1..m : zip[2 + n + k] = SignatureEntry(k - 1, ss[k])
  BY EntriesInOrder
<1> HIDE DEF n, m
<1>2. ASSUME NEW i \in 3..(2 + n)
      PROVE  zip[i].kind = "file" /\ zip[i].name = docs[i - 2].name /\ zip[i].data = docs[i - 2].data
  <2>1. i - 2 \in 1..n /\ 2 + (i - 2) = i
    BY <1>1
  <2>2. zip[i] = FileEntry(docs[i - 2].name, docs[i - 2].data)
    BY <1>1, <2>1
  <2> QED
    BY <2>2 DEF FileEntry
<1>3. ASSUME NEW i \in (3 + n)..(2 + n + m)
      PROVE  /\ zip[i].kind = "signature"
             /\ zip[i].key = (i - (2 + n)) - 1 /\ zip[i].doc = ss[i - (2 + n)]
  <2>1. i - (2 + n) \in 1..m /\ 2 + n + (i - (2 + n)) = i
    BY <1>1
  <2>2. zip[i] = SignatureEntry((i - (2 + n)) - 1, ss[i - (2 + n)])
    BY <1>1, <2>1
  <2> QED
    BY <2>2 DEF SignatureEntry
<1>4. zip[2].kind = "manifest" /\ zip[2].rows = ManifestRows(docs)
  BY <1>1 DEF ManifestEntry
<1>5. 2..Len(zip) = {2} \cup (3..(2 + n)) \cup ((3 + n)..(2 + n + m))
  BY <1>1
<1>6. /\ Past(Len(zip), "manifest") = {2}
      /\ Past(Len(zip), "file") = 3..(2 + n)
      /\ Past(Len(zip), "signature") = (3 + n)..(2 + n + m)
  BY <1>2, <1>3, <1>4, <1>5 DEF Past
<1>7. \A i \in 2..Len(zip) : zip[i].kind \in Known
  BY <1>2, <1>3, <1>4, <1>5 DEF Known
<1> QED
  BY <1>2, <1>3, <1>4, <1>6, <1>7 DEF n, m

(* What the archive weighs.                                                *)
DocSizes(docs) == [i \in 1..Len(docs) |-> Size[docs[i].data]]

LEMMA DocSizesTyped ==
  ASSUME NEW docs, Orderly(docs)
  PROVE  /\ DocSizes(docs) \in Seq(Nat) /\ Len(DocSizes(docs)) = Len(docs)
         /\ \A i \in 1..Len(docs) : DocSizes(docs)[i] = Size[docs[i].data]
<1> DEFINE b == DocSizes(docs)
<1>1. Len(docs) \in Nat /\ \A i \in 1..Len(docs) : docs[i].data \in Content
  BY DocFacts
<1>2. IsAFcn(b) /\ DOMAIN b = 1..Len(docs) /\ \A i \in 1..Len(docs) : b[i] = Size[docs[i].data]
  BY DEF DocSizes, IsAFcn
<1>3. \A i \in 1..Len(docs) : b[i] \in Nat
  BY <1>1, <1>2, AsiceAssumption
<1> HIDE DEF b
<1>4. b \in Seq(Nat) /\ Len(b) = Len(docs)
  BY <1>1, <1>2, <1>3, Listed
<1> QED
  BY <1>2, <1>4 DEF b

LEMMA HeldSize ==
  ASSUME NEW docs, NEW ss, Holds(docs, ss), ArchiveInv
  PROVE  Promise!TotalSize(zip) = (2 + Len(ss)) * MetaSize + Total(DocSizes(docs))
<1> DEFINE n == Len(docs)
           m == Len(ss)
           b == DocSizes(docs)
           f == Totals(Sizes)
<1>0. Orderly(docs)
  BY DEF Holds
<1>1. n \in Nat /\ m \in Nat /\ Len(zip) = 2 + n + m /\ MetaSize \in Nat /\ Total(b) \in Nat
  <2>1. Total(b) \in Nat
    <3>1. b \in Seq(Nat) /\ Len(b) \in Nat
      BY <1>0, DocSizesTyped
    <3> HIDE DEF b
    <3>2. Totals(b)[Len(b)] \in Nat
      BY <3>1, TotalsFacts
    <3> QED
      BY <3>2 DEF Total
  <2> QED
    <3>1. /\ Len(docs) \in Nat \ {0} /\ Len(ss) \in Nat \ {0}
          /\ Len(zip) = 2 + Len(docs) + Len(ss)
      BY EntriesInOrder
    <3> QED
      BY <2>1, <3>1, VerifyAssumption
<1>2. Sizes \in Seq(Nat) /\ Len(Sizes) = Len(zip) /\ Promise!TotalSize(zip) = Total(Sizes)
  BY SizesOf
<1>3. \A i \in 1..Len(zip) :
        Sizes[i] = IF zip[i].kind = "file" THEN Size[zip[i].data] ELSE MetaSize
  BY DEF Sizes, Promise!EntrySize
<1>4. /\ zip[1].kind # "file" /\ zip[2].kind # "file"
      /\ \A i \in 1..n : zip[2 + i].kind = "file" /\ zip[2 + i].data = docs[i].data
      /\ \A k \in 1..m : zip[(2 + n) + k].kind # "file"
  <2>1. /\ n \in Nat /\ m \in Nat
        /\ zip[1] = MimetypeEntry(TRUE) /\ zip[2] = ManifestEntry(ManifestRows(docs))
        /\ \A i \in 1..n : zip[2 + i] = FileEntry(docs[i].name, docs[i].data)
        /\ \A k \in 1..m : zip[(2 + n) + k] = SignatureEntry(k - 1, ss[k])
    BY EntriesInOrder
  <2>2. zip[1].kind # "file" /\ zip[2].kind # "file"
    BY <2>1 DEF MimetypeEntry, ManifestEntry
  <2>3. ASSUME NEW i \in 1..n PROVE zip[2 + i].kind = "file" /\ zip[2 + i].data = docs[i].data
    <3>1. zip[2 + i] = FileEntry(docs[i].name, docs[i].data)
      BY <2>1
    <3> QED
      BY <3>1 DEF FileEntry
  <2>4. ASSUME NEW k \in 1..m PROVE zip[(2 + n) + k].kind # "file"
    <3>1. zip[(2 + n) + k] = SignatureEntry(k - 1, ss[k])
      BY <2>1
    <3> QED
      BY <3>1 DEF SignatureEntry
  <2> QED
    BY <2>2, <2>3, <2>4
<1>5. b \in Seq(Nat) /\ Len(b) = n /\ \A i \in 1..n : b[i] = Size[docs[i].data]
  BY <1>0, DocSizesTyped
<1> HIDE DEF n, m, b
<1>6. /\ \A i \in 1..2 : Sizes[0 + i] = MetaSize
      /\ \A i \in 1..n : Sizes[2 + i] = b[i]
      /\ \A k \in 1..m : Sizes[(2 + n) + k] = MetaSize
  <2>1. /\ \A i \in 1..2 : 0 + i \in 1..Len(zip) /\ (0 + i = 1 \/ 0 + i = 2)
        /\ \A i \in 1..n : 2 + i \in 1..Len(zip)
        /\ \A k \in 1..m : (2 + n) + k \in 1..Len(zip)
    BY <1>1
  <2>2. ASSUME NEW i \in 1..n PROVE Sizes[2 + i] = b[i]
    <3>1. Sizes[2 + i] = Size[zip[2 + i].data] /\ zip[2 + i].data = docs[i].data
      BY <1>3, <1>4, <2>1
    <3> QED
      BY <1>5, <3>1
  <2>3. ASSUME NEW k \in 1..m PROVE Sizes[(2 + n) + k] = MetaSize
    BY <1>3, <1>4, <2>1
  <2>4. ASSUME NEW i \in 1..2 PROVE Sizes[0 + i] = MetaSize
    <3>1. 0 + i \in 1..Len(zip) /\ zip[0 + i].kind # "file"
      BY <1>4, <2>1
    <3> QED
      BY <1>3, <3>1
  <2> QED
    BY <2>2, <2>3, <2>4
<1> HIDE DEF f
<1>7. Total(Sizes) = f[Len(zip)] /\ f[0] = 0
  BY <1>2, TotalsFacts DEF Total, f
<1>8. f[0 + 2] = f[0] + 2 * MetaSize
  <2>1. HasRun(Sizes, 0, 2, MetaSize)
    BY <1>1, <1>2, <1>6 DEF HasRun
  <2>2. RunCounts(Sizes, 0, 2, MetaSize)
    BY <1>1, <1>2, <2>1, TotalsOfSame
  <2> QED
    BY <2>2 DEF RunCounts, f
<1>9. f[2 + n] = f[2] + Total(b)
  <2>1. 2 \in Nat /\ 2 + Len(b) <= Len(Sizes) /\ \A i \in 1..Len(b) : Sizes[2 + i] = b[i]
    BY <1>1, <1>2, <1>5, <1>6
  <2>2. Totals(Sizes)[2 + Len(b)] = Totals(Sizes)[2] + Total(b)
    BY <1>2, <1>5, <2>1, TotalsOfPart
  <2> QED
    BY <1>5, <2>2 DEF f
<1>10. f[(2 + n) + m] = f[2 + n] + m * MetaSize
  <2> DEFINE off == 2 + n
  <2>1. off \in Nat /\ off + m <= Len(Sizes)
    BY <1>1, <1>2
  <2>2. \A k \in 1..m : Sizes[off + k] = MetaSize
    BY <1>6
  <2> HIDE DEF off
  <2>3. HasRun(Sizes, off, m, MetaSize)
    BY <2>1, <2>2 DEF HasRun
  <2>4. RunCounts(Sizes, off, m, MetaSize)
    BY <1>1, <1>2, <2>1, <2>3, TotalsOfSame
  <2> QED
    BY <2>4 DEF RunCounts, f, off
<1>11. m * MetaSize \in Int /\ 2 * MetaSize + m * MetaSize = (2 + m) * MetaSize
  BY <1>1
<1>12. (2 + n) + m = Len(zip) /\ 0 + 2 = 2
  BY <1>1
<1>13. Total(Sizes) = ((0 + 2 * MetaSize) + Total(b)) + m * MetaSize
  BY <1>7, <1>8, <1>9, <1>10, <1>12
<1> DEFINE x == m * MetaSize
           y == (2 + m) * MetaSize
<1>14. Total(Sizes) = ((0 + 2 * MetaSize) + Total(b)) + x /\ x \in Int /\ 2 * MetaSize + x = y
  BY <1>11, <1>13
<1> HIDE DEF x, y
<1>15. Total(Sizes) = y + Total(b)
  BY <1>1, <1>14
<1> QED
  BY <1>2, <1>15 DEF y, b, m

(* It is whole when nothing in it is too large.                            *)
Fits(docs, ss) ==
  /\ \A i \in DOMAIN docs : Size[docs[i].data] <= MaxEntry
  /\ (2 + Len(ss)) * MetaSize + Total(DocSizes(docs)) <= MaxTotal

LEMMA HeldIsWhole ==
  ASSUME NEW docs, NEW ss, Holds(docs, ss), ArchiveInv
  PROVE  Promise!WholeArchive(zip) <=> Fits(docs, ss)
<1> DEFINE n == Len(docs)
           m == Len(ss)
           M == Past(Len(zip), "manifest")
           F == Past(Len(zip), "file")
           G == Past(Len(zip), "signature")
<1>1. /\ n \in Nat \ {0} /\ m \in Nat \ {0} /\ zip # <<>> /\ zip[1] = MimetypeEntry(TRUE)
      /\ DOMAIN docs = 1..n
  BY EntriesInOrder, DocFacts DEF Holds
<1>2. /\ M = {2} /\ F = 3..(2 + n) /\ G = (3 + n)..(2 + n + m)
      /\ \A i \in 2..Len(zip) : zip[i].kind \in Known
      /\ \A i \in F : zip[i].name = docs[i - 2].name /\ zip[i].data = docs[i - 2].data
      /\ \A i \in G : zip[i].key = (i - (2 + n)) - 1
  BY KindsInOrder
<1>3. Promise!TotalSize(zip) = (2 + m) * MetaSize + Total(DocSizes(docs))
  BY HeldSize
<1>4. \A i, j \in 1..n : docs[i].name = docs[j].name => i = j
  BY <1>1 DEF Holds, Orderly
<1>5. Cardinality(M) = 1
  BY <1>2, FS_Singleton
<1> HIDE DEF n, m, M, F, G
<1>6. F # {} /\ G # {}
  <2>1. 3 \in F /\ 3 + n \in G
    BY <1>1, <1>2
  <2> QED
    BY <2>1
<1>7. \A i, j \in F : zip[i].name = zip[j].name => i = j
  <2>1. \A i, j \in F : i - 2 \in 1..n /\ j - 2 \in 1..n /\ (i - 2 = j - 2 => i = j)
    BY <1>1, <1>2
  <2> QED
    BY <1>2, <1>4, <2>1
<1>8. \A i, j \in G : zip[i].key = zip[j].key => i = j
  <2>1. \A i, j \in G : (i - (2 + n)) - 1 = (j - (2 + n)) - 1 => i = j
    BY <1>1, <1>2
  <2> QED
    BY <1>2, <2>1
<1>9. (\A i \in F : Size[zip[i].data] <= MaxEntry)
        <=> \A i \in DOMAIN docs : Size[docs[i].data] <= MaxEntry
  <2>1. \A i \in F : i - 2 \in 1..n
    BY <1>1, <1>2
  <2>2. \A i \in 1..n : i + 2 \in F /\ (i + 2) - 2 = i
    BY <1>1, <1>2
  <2>3. ASSUME \A i \in F : Size[zip[i].data] <= MaxEntry, NEW i \in DOMAIN docs
        PROVE  Size[docs[i].data] <= MaxEntry
    <3>1. i + 2 \in F /\ zip[i + 2].data = docs[i].data
      BY <1>1, <1>2, <2>2
    <3> QED
      BY <2>3, <3>1
  <2>4. ASSUME \A i \in DOMAIN docs : Size[docs[i].data] <= MaxEntry, NEW i \in F
        PROVE  Size[zip[i].data] <= MaxEntry
    <3>1. i - 2 \in DOMAIN docs /\ zip[i].data = docs[i - 2].data
      BY <1>1, <1>2, <2>1
    <3> QED
      BY <2>4, <3>1
  <2> QED
    BY <2>3, <2>4
<1>10. Promise!WholeArchive(zip) <=>
         /\ \A i \in F : Size[zip[i].data] <= MaxEntry
         /\ Promise!TotalSize(zip) <= MaxTotal
  BY <1>1, <1>2, <1>5, <1>6, <1>7, <1>8, Whole, Zenon DEF F, G, M
<1> QED
  BY <1>3, <1>9, <1>10 DEF Fits, m

(* Its manifest is valid, and says what the documents do.                  *)
LEMMA RowsInOrder ==
  ASSUME NEW docs, Orderly(docs)
  PROVE  LET rows == ManifestRows(docs)
         IN  /\ DOMAIN rows = 1..(1 + Len(docs))
             /\ rows[1] = Row("/", RootMedia)
             /\ \A i \in 1..Len(docs) : rows[1 + i] = Row(docs[i].name, docs[i].mime)
<1> DEFINE a == <<Row("/", RootMedia)>>
           b == [i \in 1..Len(docs) |-> Row(docs[i].name, docs[i].mime)]
           S == {a[1]} \cup {b[i] : i \in 1..Len(docs)}
           rows == ManifestRows(docs)
<1>1. Len(docs) \in Nat
  BY DocFacts
<1>2. IsAFcn(b) /\ DOMAIN b = 1..Len(docs)
      /\ \A i \in 1..Len(docs) : b[i] = Row(docs[i].name, docs[i].mime)
  BY DEF IsAFcn
<1>3. rows = a \o b
  BY DEF ManifestRows
<1>4. a[1] = Row("/", RootMedia) /\ Len(a) = 1
  OBVIOUS
<1>5. a \in Seq(S)
  <2>1. a[1] \in S
    OBVIOUS
  <2> HIDE DEF S
  <2> QED
    BY <1>4, <2>1
<1> HIDE DEF a, b, rows
<1>6. b \in Seq(S) /\ Len(b) = Len(docs)
  <2>1. \A i \in 1..Len(docs) : b[i] \in S
    OBVIOUS
  <2> HIDE DEF S
  <2> QED
    BY <1>1, <1>2, <2>1, Listed
<1> HIDE DEF S
<1>7. \A s, t \in Seq(S) :
        /\ s \o t \in Seq(S) /\ Len(s \o t) = Len(s) + Len(t)
        /\ \A i \in 1..Len(s \o t) : (s \o t)[i] = IF i <= Len(s) THEN s[i] ELSE t[i - Len(s)]
  BY ConcatProperties
<1>8. /\ a \o b \in Seq(S) /\ Len(a \o b) = Len(a) + Len(b)
      /\ \A i \in 1..Len(a \o b) : (a \o b)[i] = IF i <= Len(a) THEN a[i] ELSE b[i - Len(a)]
  BY <1>5, <1>6, <1>7
<1>9. /\ rows \in Seq(S) /\ Len(rows) = 1 + Len(docs)
      /\ \A i \in 1..Len(rows) : rows[i] = IF i <= 1 THEN a[i] ELSE b[i - 1]
  BY <1>3, <1>4, <1>6, <1>8
<1>10. DOMAIN rows = 1..(1 + Len(docs))
  BY <1>9
<1>11. rows[1] = Row("/", RootMedia)
  BY <1>1, <1>4, <1>9
<1>12. ASSUME NEW i \in 1..Len(docs) PROVE rows[1 + i] = Row(docs[i].name, docs[i].mime)
  <2>1. 1 + i \in 1..Len(rows) /\ ~(1 + i <= 1) /\ (1 + i) - 1 = i
    BY <1>1, <1>9
  <2> QED
    BY <1>2, <1>9, <2>1
<1> QED
  BY <1>10, <1>11, <1>12 DEF rows

LEMMA MadeManifest ==
  ASSUME NEW docs, Orderly(docs)
  PROVE  LET names == {docs[i].name : i \in DOMAIN docs}
         IN  /\ Promise!ValidManifest(ManifestRows(docs), names)
             /\ Promise!MediaOf(ManifestRows(docs), names) = DocMedia(docs)
<1> DEFINE n == Len(docs)
           rows == ManifestRows(docs)
           names == {docs[i].name : i \in DOMAIN docs}
<1>1. /\ n \in Nat \ {0} /\ DOMAIN docs = 1..n
      /\ \A i \in 1..n : docs[i].name \in Name /\ docs[i].mime \in MediaType
      /\ \A i \in 1..n : DocMedia(docs)[docs[i].name] = docs[i].mime
  BY DocFacts
<1>2. \A i, j \in 1..n : docs[i].name = docs[j].name => i = j
  BY <1>1 DEF Orderly
<1>3. \A i \in 1..n : docs[i].mime # NoMediaType
  BY <1>1 DEF Orderly
<1>4. /\ DOMAIN rows = 1..(1 + n) /\ rows[1] = Row("/", RootMedia)
      /\ \A i \in 1..n : rows[1 + i] = Row(docs[i].name, docs[i].mime)
  BY RowsInOrder
<1>5. /\ rows[1].path = "/" /\ rows[1].mime = RootMedia
      /\ \A i \in 1..n : rows[1 + i].path = docs[i].name /\ rows[1 + i].mime = docs[i].mime
  <2> HIDE DEF rows, n
  <2>1. rows[1].path = "/" /\ rows[1].mime = RootMedia
    BY <1>4 DEF Row
  <2>2. ASSUME NEW i \in 1..n
        PROVE  rows[1 + i].path = docs[i].name /\ rows[1 + i].mime = docs[i].mime
    <3>1. rows[1 + i] = Row(docs[i].name, docs[i].mime)
      BY <1>4
    <3> QED
      BY <3>1 DEF Row
  <2> QED
    BY <2>1, <2>2
<1>6. DocMedia(docs) = [m \in names |-> DocMedia(docs)[m]]
  BY DEF DocMedia
<1> HIDE DEF rows, n
<1>7. \A i \in 1..(1 + n) : i = 1 \/ (i - 1 \in 1..n /\ i = 1 + (i - 1))
  BY <1>1
<1>8. /\ Promise!NoName = "" /\ Promise!NoMediaType = NoMediaType
      /\ Promise!Row("/", Promise!RootMedia) = Row("/", RootMedia)
      /\ Promise!Range(rows) = {rows[i] : i \in DOMAIN rows}
  BY DEF Promise!NoName, Promise!NoMediaType, NoMediaType, Promise!Row, Row,
     Promise!RootMedia, RootMedia, Promise!Range
<1>9. "" \notin Name /\ "/" \notin Name /\ "META-INF/" \notin Name
  BY AsiceAssumption
<1>10. ASSUME NEW i \in DOMAIN rows
       PROVE  rows[i].path \notin {"", "META-INF/"} /\ rows[i].mime # NoMediaType
  <2>1. CASE i = 1
    <3>1. RootMedia # NoMediaType
      BY DEF RootMedia, NoMediaType
    <3> QED
      BY <1>5, <2>1, <3>1
  <2>2. CASE i # 1
    <3>1. i - 1 \in 1..n /\ i = 1 + (i - 1)
      BY <1>4, <1>7, <2>2
    <3>2. rows[i].path = docs[i - 1].name /\ rows[i].mime = docs[i - 1].mime
      BY <1>5, <3>1
    <3> QED
      BY <1>1, <1>3, <1>9, <3>1, <3>2
  <2> QED
    BY <2>1, <2>2
<1>11. ASSUME NEW i \in DOMAIN rows, NEW j \in DOMAIN rows, rows[i].path = rows[j].path
       PROVE  i = j
  <2>1. \A k \in DOMAIN rows : k # 1 =>
          k - 1 \in 1..n /\ k = 1 + (k - 1) /\ rows[k].path = docs[k - 1].name /\ rows[k].path # "/"
    <3> SUFFICES ASSUME NEW k \in DOMAIN rows, k # 1
                 PROVE  /\ k - 1 \in 1..n /\ k = 1 + (k - 1)
                        /\ rows[k].path = docs[k - 1].name /\ rows[k].path # "/"
      OBVIOUS
    <3>1. k - 1 \in 1..n /\ k = 1 + (k - 1)
      BY <1>4, <1>7
    <3>2. rows[k].path = docs[k - 1].name
      BY <1>5, <3>1
    <3> QED
      BY <1>1, <1>9, <3>1, <3>2
  <2>2. CASE i = 1 \/ j = 1
    BY <1>5, <1>11, <2>1, <2>2
  <2>3. CASE i # 1 /\ j # 1
    <3>1. i - 1 = j - 1
      BY <1>2, <1>11, <2>1, <2>3
    <3> QED
      BY <2>1, <2>3, <3>1
  <2> QED
    BY <2>2, <2>3
<1>12. Row("/", RootMedia) \in Promise!Range(rows)
  <2>1. 1 \in DOMAIN rows
    BY <1>1, <1>4
  <2> QED
    BY <1>4, <1>8, <2>1
<1>13. ASSUME NEW m \in names PROVE \E k \in 1..n : m = docs[k].name
  BY <1>1
<1>14. \A k \in 1..n : 1 + k \in DOMAIN rows
  BY <1>1, <1>4
<1>15. names \subseteq {rows[i].path : i \in DOMAIN rows}
  <2> SUFFICES ASSUME NEW m \in names PROVE \E i \in DOMAIN rows : m = rows[i].path
    OBVIOUS
  <2>1. PICK k \in 1..n : m = docs[k].name
    BY <1>13
  <2> QED
    BY <1>5, <1>14, <2>1
<1>16. ASSUME NEW m \in names
       PROVE  rows[CHOOSE i \in DOMAIN rows : rows[i].path = m].mime = DocMedia(docs)[m]
  <2>1. PICK k \in 1..n : m = docs[k].name
    BY <1>13
  <2>2. 1 + k \in DOMAIN rows /\ rows[1 + k].path = m /\ rows[1 + k].mime = docs[k].mime
    BY <1>5, <1>14, <2>1
  <2>3. (CHOOSE i \in DOMAIN rows : rows[i].path = m) = 1 + k
    BY <1>11, <2>2
  <2> QED
    BY <1>1, <2>1, <2>2, <2>3
<1> HIDE DEF names
<1>17. Promise!ValidManifest(rows, names)
  BY <1>8, <1>10, <1>11, <1>12, <1>15, Zenon DEF Promise!ValidManifest
<1>18. Promise!MediaOf(rows, names) = DocMedia(docs)
  <2>1. Promise!MediaOf(rows, names)
          = [m \in names |-> rows[CHOOSE i \in DOMAIN rows : rows[i].path = m].mime]
    BY DEF Promise!MediaOf
  <2>2. [m \in names |-> rows[CHOOSE i \in DOMAIN rows : rows[i].path = m].mime]
          = [m \in names |-> DocMedia(docs)[m]]
    BY <1>16
  <2> QED
    BY <1>6, <2>1, <2>2
<1> QED
  BY <1>17, <1>18 DEF rows, names

LEMMA HeldManifest ==
  ASSUME NEW docs, NEW ss, Holds(docs, ss)
  PROVE  LET names == Promise!FileNames(zip)
         IN  /\ Promise!RowsOf(zip) = ManifestRows(docs)
             /\ Promise!ValidManifest(Promise!RowsOf(zip), names)
             /\ Promise!FilesOf(zip) = DocFiles(docs)
             /\ Promise!MediaOf(Promise!RowsOf(zip), names) = DocMedia(docs)
<1> DEFINE n == Len(docs)
           names == {docs[i].name : i \in DOMAIN docs}
           F == Promise!Indices(zip, "file")
<1>1. Orderly(docs)
  BY DEF Holds
<1>2. /\ n \in Nat \ {0} /\ DOMAIN docs = 1..n
      /\ \A i \in 1..n : DocFiles(docs)[docs[i].name] = docs[i].data
      /\ \A i, j \in 1..n : docs[i].name = docs[j].name => i = j
  BY <1>1, DocFacts DEF Orderly
<1>3. /\ Promise!Indices(zip, "manifest") = {2} /\ F = 3..(2 + n)
      /\ \A i \in F : zip[i].name = docs[i - 2].name /\ zip[i].data = docs[i - 2].data
      /\ zip[2].rows = ManifestRows(docs)
  BY KindsInOrder, AllPast
<1>4. Promise!RowsOf(zip) = ManifestRows(docs)
  <2>1. (CHOOSE i \in Promise!Indices(zip, "manifest") : TRUE) = 2
    BY <1>3
  <2> QED
    BY <1>3, <2>1 DEF Promise!RowsOf
<1>5. DocFiles(docs) = [m \in names |-> DocFiles(docs)[m]]
  BY DEF DocFiles
<1> HIDE DEF n, F
<1>6. /\ \A i \in F : i - 2 \in 1..n /\ i = (i - 2) + 2
      /\ \A k \in 1..n : k + 2 \in F /\ (k + 2) - 2 = k
  BY <1>2, <1>3
<1>7. \A k \in 1..n : zip[k + 2].name = docs[k].name /\ zip[k + 2].data = docs[k].data
  BY <1>3, <1>6
<1>8. Promise!FileNames(zip) = names
  <2>1. Promise!FileNames(zip) = {zip[i].name : i \in F}
    BY DEF Promise!FileNames, F
  <2>2. ASSUME NEW i \in F PROVE zip[i].name \in names
    <3>1. i - 2 \in DOMAIN docs /\ zip[i].name = docs[i - 2].name
      BY <1>2, <1>3, <1>6
    <3> QED
      BY <3>1
  <2>3. ASSUME NEW k \in DOMAIN docs PROVE docs[k].name \in {zip[i].name : i \in F}
    <3>1. k + 2 \in F /\ zip[k + 2].name = docs[k].name
      BY <1>2, <1>6, <1>7
    <3> QED
      BY <3>1
  <2> QED
    BY <2>1, <2>2, <2>3
<1>9. ASSUME NEW m \in names
      PROVE  zip[CHOOSE i \in F : zip[i].name = m].data = DocFiles(docs)[m]
  <2>1. PICK k \in 1..n : m = docs[k].name
    BY <1>2
  <2>2. k + 2 \in F /\ zip[k + 2].name = m /\ zip[k + 2].data = docs[k].data
    BY <1>6, <1>7, <2>1
  <2>3. ASSUME NEW i \in F, zip[i].name = m PROVE i = k + 2
    <3>1. i - 2 \in 1..n /\ i = (i - 2) + 2 /\ docs[i - 2].name = docs[k].name
      BY <1>3, <1>6, <2>1, <2>3
    <3>2. i - 2 = k
      BY <1>2, <3>1
    <3> QED
      BY <3>1, <3>2
  <2>4. (CHOOSE i \in F : zip[i].name = m) = k + 2
    BY <2>2, <2>3
  <2> QED
    BY <1>2, <2>1, <2>2, <2>4
<1>10. Promise!FilesOf(zip) = DocFiles(docs)
  <2> HIDE DEF names
  <2>1. Promise!FilesOf(zip) = [m \in names |-> zip[CHOOSE i \in F : zip[i].name = m].data]
    BY <1>8 DEF Promise!FilesOf, F
  <2>2. [m \in names |-> zip[CHOOSE i \in F : zip[i].name = m].data]
          = [m \in names |-> DocFiles(docs)[m]]
    BY <1>9
  <2> QED
    BY <1>5, <2>1, <2>2
<1>11. /\ Promise!ValidManifest(ManifestRows(docs), names)
       /\ Promise!MediaOf(ManifestRows(docs), names) = DocMedia(docs)
  BY <1>1, MadeManifest
<1> QED
  BY <1>4, <1>8, <1>10, <1>11

-----------------------------------------------------------------------------
(* A signature document as asice create makes it.                          *)
IsMade(sig, k, cert, docs, t) ==
  LET sp == SignedProperties(k, cert, docs, t) IN
  /\ sig.shape = "ok" /\ sig.id = SignatureID(k) /\ sig.target = SignatureID(k)
  /\ sig.cert = cert /\ sig.refs = FileReferences(k, docs) /\ sig.sp = sp
  /\ sig.spRefs = <<[target |-> sp.id, dig |-> sp]>>
  /\ sig.sv = SignatureValue(SignatureValueID(k), cert, SignedInfo(sig))

LEMMA MadeIds ==
  ASSUME NEW k, NEW i, NEW j
  PROVE  /\ ReferenceID(k, i) = ReferenceID(k, j) => i = j
         /\ ReferenceID(k, i) # <<>>
         /\ SignedPropertiesID(k) # <<>>
<1>1. ReferenceID(k, i)[3] = i /\ ReferenceID(k, j)[3] = j
  BY DEF ReferenceID
<1>2. <<"RefId", k, i>> # <<>> /\ <<"SignedProperties", k>> # <<>>
  OBVIOUS
<1> QED
  BY <1>1, <1>2 DEF ReferenceID, SignedPropertiesID

(* It signs every file of its container, unless a name or a media type is  *)
(* one that asice verify does not take.                                    *)
Plain(docs) == \A i \in DOMAIN docs : docs[i].name \notin HashName /\ ~docs[i].mime.padded

LEMMA TrimsToItself ==
  ASSUME NEW m \in MediaType
  PROVE  Trim(m) = m <=> ~m.padded
BY DEF MediaType, Trim

LEMMA MadeReferences ==
  ASSUME NEW sig, NEW k, NEW cert, NEW docs, NEW t, IsMade(sig, k, cert, docs, t), Orderly(docs)
  PROVE  /\ DOMAIN sig.refs = 1..Len(docs) /\ DOMAIN sig.sp.dofs = 1..Len(docs)
         /\ sig.sp.id = SignedPropertiesID(k) /\ sig.sp.time = t /\ sig.sp.cert = cert
         /\ ~sig.sp.policy
         /\ \A i \in 1..Len(docs) :
              /\ sig.refs[i].id = ReferenceID(k, i - 1)
              /\ sig.refs[i].uri = docs[i].name /\ sig.refs[i].dig = docs[i].data
              /\ sig.sp.dofs[i].ref = ReferenceID(k, i - 1) /\ sig.sp.dofs[i].mime = docs[i].mime
<1>1. sig.refs = FileReferences(k, docs) /\ sig.sp = SignedProperties(k, cert, docs, t)
  BY DEF IsMade
<1>2. sig.sp.dofs = DataObjectFormats(k, docs)
  BY <1>1 DEF SignedProperties
<1>3. /\ sig.sp.id = SignedPropertiesID(k) /\ sig.sp.time = t /\ sig.sp.cert = cert
      /\ ~sig.sp.policy
  BY <1>1 DEF SignedProperties
<1>4. /\ DOMAIN sig.refs = 1..Len(docs)
      /\ \A i \in 1..Len(docs) :
           /\ sig.refs[i].id = ReferenceID(k, i - 1)
           /\ sig.refs[i].uri = docs[i].name /\ sig.refs[i].dig = docs[i].data
  BY <1>1 DEF FileReferences
<1>5. /\ DOMAIN sig.sp.dofs = 1..Len(docs)
      /\ \A i \in 1..Len(docs) :
           sig.sp.dofs[i].ref = ReferenceID(k, i - 1) /\ sig.sp.dofs[i].mime = docs[i].mime
  BY <1>2 DEF DataObjectFormats
<1> QED
  BY <1>3, <1>4, <1>5

LEMMA MadeSignsEveryFile ==
  ASSUME NEW sig, NEW k, NEW cert, NEW docs, NEW t, IsMade(sig, k, cert, docs, t), Orderly(docs)
  PROVE  Promise!SignsEveryFile(sig, DocFiles(docs), DocMedia(docs)) <=> Plain(docs)
<1> DEFINE n == Len(docs)
           I == 1..n
           files == DocFiles(docs)
           media == DocMedia(docs)
           names == DOMAIN files
<1>1. /\ n \in Nat \ {0} /\ DOMAIN docs = I
      /\ \A i \in I : docs[i].name \in names /\ docs[i].mime \in MediaType
      /\ \A i \in I : files[docs[i].name] = docs[i].data /\ media[docs[i].name] = docs[i].mime
  BY DocFacts
<1>2. names = {docs[i].name : i \in I}
  BY <1>1 DEF DocFiles
<1>3. \A i, j \in I : docs[i].name = docs[j].name => i = j
  BY <1>1 DEF Orderly
<1>4. \A i \in I : docs[i].mime # NoMediaType
  BY <1>1 DEF Orderly
<1>5. /\ DOMAIN sig.refs = I /\ DOMAIN sig.sp.dofs = I
      /\ \A i \in I :
           /\ sig.refs[i].id = ReferenceID(k, i - 1)
           /\ sig.refs[i].uri = docs[i].name /\ sig.refs[i].dig = docs[i].data
           /\ sig.sp.dofs[i].ref = ReferenceID(k, i - 1) /\ sig.sp.dofs[i].mime = docs[i].mime
  BY MadeReferences
<1> HIDE DEF n, files, media, names
<1>6. /\ \A i, j \in I : ReferenceID(k, i - 1) = ReferenceID(k, j - 1) => i = j
      /\ \A i \in I : ReferenceID(k, i - 1) # <<>>
  <2>1. ASSUME NEW i \in I, NEW j \in I, ReferenceID(k, i - 1) = ReferenceID(k, j - 1)
        PROVE  i = j
    <3>1. i - 1 = j - 1
      BY <2>1, MadeIds
    <3> QED
      BY <1>1, <3>1
  <2> QED
    BY <2>1, MadeIds
<1> HIDE DEF I
<1>7. /\ \A i, j \in I : sig.refs[i].id = sig.refs[j].id => i = j
      /\ \A i \in I : sig.refs[i].id # NoId
  BY <1>5, <1>6 DEF NoId
<1>8. names \cap HashName = {} <=> \A i \in I : docs[i].name \notin HashName
  BY <1>2
<1> DEFINE Fitting(file, ref) ==
             /\ \A i \in I : sig.refs[i].uri = file[i] /\ sig.refs[i].dig = files[file[i]]
             /\ \A d \in I :
                  /\ sig.sp.dofs[d].ref = sig.refs[ref[d]].id
                  /\ sig.sp.dofs[d].mime # NoMediaType
                  /\ Trim(sig.sp.dofs[d].mime) = media[file[ref[d]]]
<1>9. Promise!SignsEveryFile(sig, files, media) <=>
        /\ names \cap HashName = {}
        /\ \E file \in Bijection(I, names), ref \in Bijection(I, I) : Fitting(file, ref)
  <2>1. Promise!SignsEveryFile(sig, files, media) <=>
          /\ \A i, j \in I : sig.refs[i].id = sig.refs[j].id => i = j
          /\ \A i \in I : sig.refs[i].id # NoId
          /\ names \cap HashName = {}
          /\ \E file \in Bijection(I, names) :
               /\ \A i \in I : sig.refs[i].uri = file[i] /\ sig.refs[i].dig = files[file[i]]
               /\ \E ref \in Bijection(I, I) :
                    \A d \in I :
                      /\ sig.sp.dofs[d].ref = sig.refs[ref[d]].id
                      /\ sig.sp.dofs[d].mime # NoMediaType
                      /\ Trim(sig.sp.dofs[d].mime) = media[file[ref[d]]]
    BY <1>5, SameTerms DEF Promise!SignsEveryFile, names
  <2> QED
    BY <1>7, <2>1, Zenon
<1>10. ASSUME Plain(docs)
       PROVE  \E file \in Bijection(I, names), ref \in Bijection(I, I) : Fitting(file, ref)
  <2> DEFINE file == [i \in I |-> docs[i].name]
             ref  == [i \in I |-> i]
  <2>1. \A i \in I : file[i] = docs[i].name /\ ref[i] = i
    OBVIOUS
  <2>2. file \in [I -> names] /\ ref \in [I -> I]
    BY <1>1
  <2> HIDE DEF file, ref
  <2>3. file \in Bijection(I, names)
    BY <1>2, <1>3, <2>1, <2>2, BijectionFacts
  <2>4. ref \in Bijection(I, I)
    BY <2>1, <2>2, BijectionFacts
  <2>5. Fitting(file, ref)
    <3>1. ASSUME NEW i \in I
          PROVE  sig.refs[i].uri = file[i] /\ sig.refs[i].dig = files[file[i]]
      BY <1>1, <1>5, <2>1
    <3>2. ASSUME NEW d \in I
          PROVE  /\ sig.sp.dofs[d].ref = sig.refs[ref[d]].id
                 /\ sig.sp.dofs[d].mime # NoMediaType
                 /\ Trim(sig.sp.dofs[d].mime) = media[file[ref[d]]]
      <4>1. Trim(docs[d].mime) = docs[d].mime
        BY <1>1, <1>10, TrimsToItself DEF Plain
      <4> QED
        BY <1>1, <1>4, <1>5, <2>1, <4>1
    <3> QED
      BY <3>1, <3>2
  <2> HIDE DEF Fitting
  <2> QED
    BY <2>3, <2>4, <2>5
<1>11. ASSUME NEW file \in Bijection(I, names), NEW ref \in Bijection(I, I), Fitting(file, ref),
              NEW i \in I
       PROVE  ~docs[i].mime.padded
  <2>1. ref[i] \in I
    BY BijectionFacts
  <2>2. ReferenceID(k, i - 1) = ReferenceID(k, ref[i] - 1)
    BY <1>5, <1>11, <2>1
  <2>3. ref[i] = i
    BY <1>6, <2>1, <2>2
  <2>4. file[i] = docs[i].name
    BY <1>5, <1>11
  <2>5. Trim(docs[i].mime) = docs[i].mime
    BY <1>1, <1>5, <1>11, <2>3, <2>4
  <2> QED
    BY <1>1, <2>5, TrimsToItself
<1> HIDE DEF Fitting
<1>12. Plain(docs) <=>
         (\A i \in I : docs[i].name \notin HashName) /\ \A i \in I : ~docs[i].mime.padded
  BY <1>1 DEF Plain
<1> QED
  BY <1>8, <1>9, <1>10, <1>11, <1>12 DEF files, media

LEMMA MadeIsValid ==
  ASSUME NEW sig, NEW k, NEW cert, NEW docs, NEW t, IsMade(sig, k, cert, docs, t), Orderly(docs),
         cert # NoCert, t # NoTime
  PROVE  Promise!ValidBES(sig, DocFiles(docs), DocMedia(docs))
           <=> <<cert, t>> \in Trusted /\ Plain(docs)
<1>1. /\ sig.sp.id = SignedPropertiesID(k) /\ sig.sp.time = t /\ sig.sp.cert = cert
      /\ ~sig.sp.policy
  BY MadeReferences
<1>2. sig.spRefs = <<[target |-> sig.sp.id, dig |-> sig.sp]>>
  BY DEF IsMade
<1>3. sig.sv.key = cert /\ sig.sv.over = [refs |-> sig.refs, spRefs |-> sig.spRefs]
  BY DEF IsMade, SignatureValue, SignedInfo
<1>4. sig.shape = "ok" /\ sig.target = sig.id /\ sig.cert = cert
  BY DEF IsMade
<1>5. sig.sp.id # NoId
  BY <1>1, MadeIds DEF NoId
<1>6. Promise!SignsEveryFile(sig, DocFiles(docs), DocMedia(docs)) <=> Plain(docs)
  BY MadeSignsEveryFile
<1> QED
  BY <1>1, <1>2, <1>3, <1>4, <1>5, <1>6, SameTerms DEF Promise!ValidBES

(* Its stamp is valid when its certificate and the OCSP answer are, given  *)
(* that the answer is in the window.                                       *)
IsStamped(sig, gen, trusted, bound, o) == sig.usp = Usp(<<Token(sig.sv, gen, trusted, bound)>>, o)
InWindow(o, gen, bound, delay) ==
  o.producedAt \in gen..(gen + (IF delay > 0 THEN delay ELSE bound))

LEMMA MadeStampIsValid ==
  ASSUME NEW sig, NEW gen \in Int, NEW trusted \in BOOLEAN, NEW bound \in Int, NEW o,
         IsStamped(sig, gen, trusted, bound, o), InWindow(o, gen, bound, opts.tsDelay),
         o.thisUpdate \in Int, o.producedAt \in Int, ArchiveInv
  PROVE  /\ sig.usp.tsts[1].trusted = trusted
         /\ Promise!ValidTS(sig, opts) <=> trusted /\ OcspOK(o, sig.cert, opts.maxAge)
<1> DEFINE tst == Token(sig.sv, gen, trusted, bound)
<1>1. sig.usp.tsts = <<tst>> /\ sig.usp.ocsp = o /\ sig.usp.shape = "ok"
  <2>1. sig.usp = Usp(<<tst>>, o)
    BY DEF IsStamped
  <2> HIDE DEF tst
  <2> QED
    BY <2>1 DEF Usp
<1>2. /\ tst.empty = FALSE /\ tst.trusted = trusted /\ tst.imprint = sig.sv /\ tst.gen = gen
      /\ tst.bound = bound
  BY DEF Token
<1> HIDE DEF tst
<1>3. /\ <<tst>> # <<>> /\ Len(<<tst>>) = 1 /\ DOMAIN <<tst>> = {1} /\ <<tst>>[1] = tst
  OBVIOUS
<1>4. /\ sig.usp.tsts # <<>> /\ sig.usp.tsts[Len(sig.usp.tsts)] = tst
      /\ \A i \in DOMAIN sig.usp.tsts : sig.usp.tsts[i].empty <=> i # Len(sig.usp.tsts)
  BY <1>1, <1>2, <1>3
<1>5. opts.tsDelay \in Int /\ opts.maxAge \in Int
  BY DEF ArchiveInv
<1>6. /\ gen <= o.producedAt
      /\ \/ opts.tsDelay > 0 /\ o.producedAt <= gen + opts.tsDelay
         \/ opts.tsDelay <= 0 /\ bound # NoBound /\ o.producedAt <= gen + bound
  BY <1>5 DEF InWindow, NoBound
<1>7. Promise!ValidTS(sig, opts) <=>
        /\ trusted
        /\ o.decodes /\ o.single /\ o.authentic /\ o.status = "good" /\ o.cert = sig.cert
        /\ o.thisUpdate <= o.producedAt /\ o.producedAt <= o.thisUpdate + opts.maxAge
  BY <1>1, <1>2, <1>4, <1>6, SameTerms DEF Promise!ValidTS
<1>8. o.thisUpdate <= o.producedAt /\ o.producedAt <= o.thisUpdate + opts.maxAge
        <=> o.producedAt - o.thisUpdate \in 0..opts.maxAge
  BY <1>5
<1>9. sig.usp.tsts[1].trusted = trusted
  BY <1>1, <1>2, <1>3
<1> QED
  BY <1>7, <1>8, <1>9 DEF OcspOK

(* The signature documents of one run of asice create: each signer's, in   *)
(* the TS profile stamped in time, otherwise without a stamp.              *)
IsSigned(docs, ss, certs, t) ==
  \A k \in 1..Len(ss) : certs[k] # NoCert /\ IsMade(ss[k], k - 1, certs[k], docs, t)
IsTimed(ss, o, delay) ==
  \A k \in 1..Len(ss) : \E gen, bound \in Int, trusted \in BOOLEAN :
    IsStamped(ss[k], gen, trusted, bound, o) /\ InWindow(o, gen, bound, delay)
IsBare(ss) == \A k \in 1..Len(ss) : ss[k].usp = NoUsp
StampTrusted(sig) == sig.usp.tsts[1].trusted

(* A container made so is valid exactly when ...                           *)
LEMMA MadeContainerIsValid ==
  ASSUME ArchiveInv, NEW docs, NEW ss, NEW certs, NEW t, NEW o, NEW stamped \in BOOLEAN,
         Holds(docs, ss), IsSigned(docs, ss, certs, t), t # NoTime,
         o.thisUpdate \in Int, o.producedAt \in Int,
         IF stamped THEN IsTimed(ss, o, opts.tsDelay) ELSE IsBare(ss)
  PROVE  Promise!ValidContainer(zip, opts) <=>
           /\ Fits(docs, ss) /\ Plain(docs)
           /\ \A k \in 1..Len(ss) : <<certs[k], t>> \in Trusted
           /\ opts.profile = "TS" =>
                stamped /\ \A k \in 1..Len(ss) :
                             StampTrusted(ss[k]) /\ OcspOK(o, certs[k], opts.maxAge)
<1> DEFINE n == Len(docs)
           m == Len(ss)
           G == Promise!Indices(zip, "signature")
           files == DocFiles(docs)
           media == DocMedia(docs)
           Valid(sig) == Promise!ValidSignature(sig, files, media, opts)
<1>0. Orderly(docs)
  BY DEF Holds
<1>1. /\ n \in Nat \ {0} /\ m \in Nat \ {0} /\ G = (3 + n)..(2 + n + m)
      /\ \A i \in G : zip[i].doc = ss[i - (2 + n)]
  <2>1. G = Past(Len(zip), "signature")
    BY AllPast
  <2>2. n \in Nat \ {0} /\ m \in Nat \ {0}
    BY EntriesInOrder
  <2> HIDE DEF G
  <2>3. /\ G = (3 + n)..(2 + n + m)
        /\ \A i \in (3 + n)..(2 + n + m) : zip[i].doc = ss[i - (2 + n)]
    BY <2>1, KindsInOrder
  <2> QED
    BY <2>2, <2>3
<1>2. Promise!ValidContainer(zip, opts) <=>
        Promise!WholeArchive(zip) /\ \A i \in G : Valid(zip[i].doc)
  BY HeldManifest DEF Promise!ValidContainer
<1>3. Promise!WholeArchive(zip) <=> Fits(docs, ss)
  BY HeldIsWhole
<1> HIDE DEF n, m, G, Valid
<1>4. /\ \A i \in G : i - (2 + n) \in 1..m
      /\ \A k \in 1..m : k + (2 + n) \in G /\ (k + (2 + n)) - (2 + n) = k
  BY <1>1
<1>5. (\A i \in G : Valid(zip[i].doc)) <=> \A k \in 1..m : Valid(ss[k])
  <2>1. \A k \in 1..m : zip[k + (2 + n)].doc = ss[k]
    BY <1>1, <1>4
  <2>2. ASSUME \A i \in G : Valid(zip[i].doc), NEW k \in 1..m PROVE Valid(ss[k])
    <3>1. k + (2 + n) \in G /\ zip[k + (2 + n)].doc = ss[k]
      BY <1>4, <2>1
    <3>2. Valid(zip[k + (2 + n)].doc)
      BY <2>2, <3>1
    <3> QED
      BY <3>1, <3>2
  <2>3. ASSUME \A k \in 1..m : Valid(ss[k]), NEW i \in G PROVE Valid(zip[i].doc)
    <3>1. i - (2 + n) \in 1..m /\ zip[i].doc = ss[i - (2 + n)]
      BY <1>1, <1>4
    <3>2. Valid(ss[i - (2 + n)])
      BY <2>3, <3>1
    <3> QED
      BY <3>1, <3>2
  <2> QED
    BY <2>2, <2>3
<1>6. ASSUME NEW k \in 1..m
      PROVE  Valid(ss[k]) <=>
               /\ <<certs[k], t>> \in Trusted /\ Plain(docs)
               /\ opts.profile = "TS" =>
                    stamped /\ StampTrusted(ss[k]) /\ OcspOK(o, certs[k], opts.maxAge)
  <2> DEFINE sig == ss[k]
  <2>1. certs[k] # NoCert /\ IsMade(sig, k - 1, certs[k], docs, t)
    BY DEF IsSigned, m
  <2>2. sig.cert = certs[k]
    BY <2>1 DEF IsMade
  <2> HIDE DEF sig
  <2>3. Promise!ValidBES(sig, files, media) <=> <<certs[k], t>> \in Trusted /\ Plain(docs)
    BY <1>0, <2>1, MadeIsValid
  <2>4. Promise!ValidTS(sig, opts)
          <=> stamped /\ StampTrusted(sig) /\ OcspOK(o, certs[k], opts.maxAge)
    <3>1. CASE stamped
      <4>1. PICK gen \in Int, bound \in Int, trusted \in BOOLEAN :
              IsStamped(sig, gen, trusted, bound, o) /\ InWindow(o, gen, bound, opts.tsDelay)
        BY <3>1 DEF IsTimed, m, sig
      <4>2. /\ StampTrusted(sig) = trusted
            /\ Promise!ValidTS(sig, opts) <=> trusted /\ OcspOK(o, sig.cert, opts.maxAge)
        BY <4>1, MadeStampIsValid DEF StampTrusted
      <4> QED
        BY <2>2, <3>1, <4>2
    <3>2. CASE ~stamped
      <4>1. sig.usp = NoUsp
        BY <3>2 DEF IsBare, m, sig
      <4>2. sig.usp.shape # "ok"
        BY <4>1 DEF NoUsp
      <4> QED
        BY <3>2, <4>2 DEF Promise!ValidTS
    <3> QED
      BY <3>1, <3>2
  <2> QED
    BY <2>3, <2>4 DEF Valid, sig, Promise!ValidSignature
<1>7. 1 \in 1..m
  BY <1>1
<1> QED
  BY <1>2, <1>3, <1>5, <1>6, <1>7 DEF m

(* ... and is accepted exactly then.                                       *)
LEMMA MadeVerdict ==
  ASSUME KInv, pc = "done", NEW docs, NEW ss, NEW certs, NEW t, NEW o, NEW stamped \in BOOLEAN,
         Holds(docs, ss), IsSigned(docs, ss, certs, t), t # NoTime,
         o.thisUpdate \in Int, o.producedAt \in Int,
         IF stamped THEN IsTimed(ss, o, opts.tsDelay) ELSE IsBare(ss)
  PROVE  report.ok <=>
           /\ Fits(docs, ss) /\ Plain(docs)
           /\ \A k \in 1..Len(ss) : <<certs[k], t>> \in Trusted
           /\ opts.profile = "TS" =>
                stamped /\ \A k \in 1..Len(ss) :
                             StampTrusted(ss[k]) /\ OcspOK(o, certs[k], opts.maxAge)
<1>1. ArchiveInv /\ (report.ok <=> Promise!ValidContainer(zip, opts))
  BY DEF KInv, DecidedInv
<1> QED
  BY <1>1, MadeContainerIsValid
=============================================================================
