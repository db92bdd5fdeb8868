-------------------------- MODULE RoundTripProofs --------------------------
(***************************************************************************)
(* Proofs about RoundTrip, for any journeys: orders, policies, files,      *)
(* worlds and any number of changes in transit.  Create, Verify and        *)
(* OcspFetch are not proved about again: their own modules of proofs are   *)
(* instantiated as RoundTrip instantiates them.                            *)
(***************************************************************************)
EXTENDS RoundTrip, SequenceTheorems, TLAPS

VP == INSTANCE VerdictProofs WITH opts <- policy, pc <- vpc, Input <- {}
CP == INSTANCE CreateProofs
        WITH opts <- order, pc <- cpc, Order <- {j.order : j \in Journeys},
             CommandLine <- {}, Key <- {}, SignerKey <- {}, args <- [output |-> FALSE], step <- "create",
             exit <- -1, closed <- "open"
FP == INSTANCE OcspFetchProofs
        WITH pc <- fpc, out <- stored, outcome <- fetched,
             Input <- {}, Answers <- HonestAnswers

-----------------------------------------------------------------------------
(* What those modules prove, with their assumptions discharged.            *)
LEMMA VerifyFresh ==
  VP!ZipInv /\ VP!InitFor(zip, policy) => VP!IInv
BY AsiceAssumption, RoundTripAssumption, VP!FreshIInv

LEMMA VerdictFresh ==
  VP!Typed /\ VP!InitFor(zip, policy) => VP!JInv
BY AsiceAssumption, RoundTripAssumption, VP!FreshJInv

LEMMA VerifyStep == VP!IInv /\ [VP!Next]_VP!vars => VP!IInv'
BY AsiceAssumption, RoundTripAssumption, VP!NextIInv

LEMMA VerdictStep == VP!IInv /\ VP!JInv /\ [VP!Next]_VP!vars => VP!JInv'
BY AsiceAssumption, RoundTripAssumption, VP!NextJInv

LEMMA CreateAssumptions ==
  /\ {j.order : j \in Journeys} \subseteq CP!OrderType
  /\ GenTime \subseteq Nat /\ PolicyBound \subseteq Nat \cup {CP!NoBound}
  /\ MaxZip \in Nat /\ MetaSize \in Nat
<1>1. C!OrderType = CP!OrderType
  BY DEF C!OrderType, CP!OrderType, C!Doc, CP!Doc, C!MediaType, CP!MediaType, C!NoMediaType,
         CP!NoMediaType, C!NoCert, CP!NoCert, C!OcspType, CP!OcspType
<1>2. \A j \in Journeys : j.order \in CP!OrderType
  BY <1>1, RoundTripAssumption DEF IsJourney
<1>. QED
  BY <1>2, RoundTripAssumption DEF NoBound, CP!NoBound

LEMMA CreateFresh ==
  order \in CP!OrderType /\ CP!InitFor(order, CP!Old) => CP!IInv
BY AsiceAssumption, CreateAssumptions, CP!FreshIInv

LEMMA CreateStep == CP!IInv /\ [CP!Next]_CP!vars => CP!IInv'
BY AsiceAssumption, CreateAssumptions, CP!NextIInv

LEMMA CreateTokens ==
  ASSUME NEW sv, NEW token \in CP!TokensOver(sv)
  PROVE  \E gen \in GenTime, bound \in PolicyBound, trusted \in BOOLEAN :
           token = CP!Token(sv, gen, trusted, bound)
BY AsiceAssumption, CreateAssumptions, CP!TokenOver

LEMMA CreateFinished == CP!IInv => CP!ContainerIsFinished
BY AsiceAssumption, CreateAssumptions, CP!IInvFinished

LEMMA FetchFresh == FP!IsInput(input) /\ FP!InitFor(input) => FP!IInv
BY FP!FreshIInv

LEMMA FetchStep == FP!IInv /\ [FP!Next]_FP!vars => FP!IInv'
BY FP!NextIInv

-----------------------------------------------------------------------------
(* RoundTrip's instances and those of the modules of proofs are the same   *)
(* specifications.                                                         *)
LEMMA SameCardinality == \A S : V!Cardinality(S) = VP!Cardinality(S)
BY DEF V!Cardinality, VP!Cardinality

LEMMA SameOpening == V!OpenContainer <=> VP!OpenContainer
<1>1. \A rows : V!ManifestMedia(rows) = VP!ManifestMedia(rows)
   BY DEF V!ManifestMedia, VP!ManifestMedia, V!FirstRow, VP!FirstRow, V!FileRow, VP!FileRow,
     V!Complete, VP!Complete, V!NoName, VP!NoName, V!NoMediaType, VP!NoMediaType
<1>2. \A rows, files : V!ManifestOK(rows, files) <=> VP!ManifestOK(rows, files)
   BY SameCardinality, <1>1 DEF V!ManifestOK, VP!ManifestOK, V!FirstRow, VP!FirstRow, V!FileRow, VP!FileRow,
     V!Complete, VP!Complete, V!NoName, VP!NoName, V!NoMediaType, VP!NoMediaType, V!RootMedia,
     VP!RootMedia
<1>3. V!OpenMimetype <=> VP!OpenMimetype
   BY DEF V!OpenMimetype, VP!OpenMimetype, V!input, VP!input
<1>4. V!ReadEntry <=> VP!ReadEntry
   BY DEF V!ReadEntry, VP!ReadEntry, V!input, VP!input, V!BytesRead, VP!BytesRead, V!Unreadable,
     VP!Unreadable, V!Admitted, VP!Admitted, V!Duplicate, VP!Duplicate, V!WithEntry,
     VP!WithEntry, V!Put, VP!Put
<1>5. V!CheckStructure <=> VP!CheckStructure
   BY DEF V!CheckStructure, VP!CheckStructure, V!input, VP!input, V!StructureErrors,
     VP!StructureErrors
<1>6. V!ParseManifest <=> VP!ParseManifest
   BY <1>1, <1>2 DEF V!ParseManifest, VP!ParseManifest, V!input, VP!input
<1>. QED
   BY <1>3, <1>4, <1>5, <1>6 DEF V!OpenContainer, VP!OpenContainer

LEMMA SameTokens == \A usp : V!TokenOf(usp) = VP!TokenOf(usp)
BY DEF V!TokenOf, VP!TokenOf, V!NoToken, VP!NoToken, V!Token, VP!Token, V!NoSignatureValue,
   VP!NoSignatureValue, V!SignatureValue, VP!SignatureValue, V!NoId, VP!NoId, V!NoCert,
   VP!NoCert, V!NoInfo, VP!NoInfo, V!NoBound, VP!NoBound

LEMMA SameReferences ==
  ASSUME NEW sig, NEW files
  PROVE  /\ V!ReferenceIDs(sig.refs) = VP!ReferenceIDs(sig.refs)
         /\ V!ReferencesOK(sig, files) <=> VP!ReferencesOK(sig, files)
         /\ V!ReferencesUsable(sig, files) <=> VP!ReferencesUsable(sig, files)
<1>1. V!ReferenceIDs(sig.refs) = VP!ReferenceIDs(sig.refs)
   BY DEF V!ReferenceIDs, VP!ReferenceIDs, V!FirstReference, VP!FirstReference, V!NoId, VP!NoId
<1>2. V!SpReferenceOK(sig) <=> VP!SpReferenceOK(sig)
   BY DEF V!SpReferenceOK, VP!SpReferenceOK
<1>3. \A i : V!ReferenceIdOK(sig.refs, i) <=> VP!ReferenceIdOK(sig.refs, i)
   BY DEF V!ReferenceIdOK, VP!ReferenceIdOK, V!NoId, VP!NoId
<1>4. \A i : V!FileReferenceOK(sig.refs, i, files) <=> VP!FileReferenceOK(sig.refs, i, files)
   BY DEF V!FileReferenceOK, VP!FileReferenceOK, V!NoName, VP!NoName
<1>5. V!ReferencesOK(sig, files) <=> VP!ReferencesOK(sig, files)
   BY SameCardinality, <1>2, <1>3, <1>4 DEF V!ReferencesOK, VP!ReferencesOK
<1>. QED
   BY SameCardinality, <1>1, <1>5 DEF V!ReferencesUsable, VP!ReferencesUsable

LEMMA SameProperties ==
  ASSUME NEW sig, NEW ids, NEW files, NEW media
  PROVE  V!SignedPropertiesOK(sig, ids, files, media)
           <=> VP!SignedPropertiesOK(sig, ids, files, media)
<1>1. \A d : V!FormatOK(d, ids, media) <=> VP!FormatOK(d, ids, media)
   BY DEF V!FormatOK, VP!FormatOK, V!NoMediaType, VP!NoMediaType, V!Trim, VP!Trim
<1>. QED
   BY SameCardinality, <1>1 DEF V!SignedPropertiesOK, VP!SignedPropertiesOK

LEMMA SameChecks == V!VerifySignature <=> VP!VerifySignature
<1>1. V!CheckShape <=> VP!CheckShape
   BY DEF V!CheckShape, VP!CheckShape, V!input, VP!input, V!opening, VP!opening, V!Sig, VP!Sig,
     V!Record, VP!Record
<1>2. V!CheckKeyInfoCert <=> VP!CheckKeyInfoCert
   BY DEF V!CheckKeyInfoCert, VP!CheckKeyInfoCert, V!input, VP!input, V!opening, VP!opening,
     V!Sig, VP!Sig, V!Record, VP!Record, V!StopUnless, VP!StopUnless, V!NoCert, VP!NoCert
<1>3. V!CheckObject <=> VP!CheckObject
   BY DEF V!CheckObject, VP!CheckObject, V!input, VP!input, V!opening, VP!opening, V!Sig, VP!Sig,
     V!Record, VP!Record, V!StopUnless, VP!StopUnless, V!NoId, VP!NoId
<1>4. V!CheckSigningTime <=> VP!CheckSigningTime
   BY DEF V!CheckSigningTime, VP!CheckSigningTime, V!input, VP!input, V!opening, VP!opening,
     V!Sig, VP!Sig, V!Record, VP!Record, V!StopUnless, VP!StopUnless, V!NoTime, VP!NoTime
<1>5. V!CheckChain <=> VP!CheckChain
   BY DEF V!CheckChain, VP!CheckChain, V!input, VP!input, V!opening, VP!opening, V!Sig, VP!Sig,
     V!Record, VP!Record
<1>6. V!CheckSignatureValue <=> VP!CheckSignatureValue
   BY DEF V!CheckSignatureValue, VP!CheckSignatureValue, V!input, VP!input, V!opening,
     VP!opening, V!Sig, VP!Sig, V!Record, VP!Record, V!SignatureValueOK, VP!SignatureValueOK,
     V!SignedInfo, VP!SignedInfo
<1>7. V!CheckReferences <=> VP!CheckReferences
   BY SameReferences DEF V!CheckReferences, VP!CheckReferences, V!input, VP!input, V!opening, VP!opening, V!Sig,
     VP!Sig, V!Record, VP!Record, V!Files, VP!Files
<1>8. V!CheckSignedProperties <=> VP!CheckSignedProperties
   BY SameProperties DEF V!CheckSignedProperties, VP!CheckSignedProperties, V!input, VP!input, V!opening,
     VP!opening, V!Sig, VP!Sig, V!Record, VP!Record, V!Files, VP!Files
<1>9. V!CheckUSPShape <=> VP!CheckUSPShape
   BY SameTokens DEF V!CheckUSPShape, VP!CheckUSPShape, V!input, VP!input, V!opening, VP!opening, V!Sig,
     VP!Sig, V!Record, VP!Record, V!UspOK, VP!UspOK, V!UspFound, VP!UspFound
<1>10. V!CheckTimestamp <=> VP!CheckTimestamp
   BY SameTokens DEF V!CheckTimestamp, VP!CheckTimestamp, V!input, VP!input, V!opening, VP!opening, V!Sig,
     VP!Sig, V!Record, VP!Record, V!StopUnless, VP!StopUnless, V!TimestampOK, VP!TimestampOK
<1>11. V!CheckOCSPResponse <=> VP!CheckOCSPResponse
   BY DEF V!CheckOCSPResponse, VP!CheckOCSPResponse, V!input, VP!input, V!opening, VP!opening,
     V!Sig, VP!Sig, V!Record, VP!Record, V!StopUnless, VP!StopUnless, V!OcspOK, VP!OcspOK
<1>12. V!CheckDelay <=> VP!CheckDelay
   BY SameTokens DEF V!CheckDelay, VP!CheckDelay, V!input, VP!input, V!opening, VP!opening, V!Sig, VP!Sig,
     V!Record, VP!Record, V!StopUnless, VP!StopUnless, V!DelayOK, VP!DelayOK, V!DelayBound,
     VP!DelayBound, V!TsDelayOK, VP!TsDelayOK, V!NoBound, VP!NoBound
<1>. QED
   BY <1>1, <1>2, <1>3, <1>4, <1>5, <1>6, <1>7, <1>8, <1>9, <1>10, <1>11, <1>12
    DEF V!VerifySignature, VP!VerifySignature

LEMMA SameVerify == [V!Next]_V!vars <=> [VP!Next]_VP!vars
<1>1. V!NextSignature <=> VP!NextSignature
   BY DEF V!NextSignature, VP!NextSignature, V!input, VP!input, V!opening, VP!opening, V!LexRank,
     VP!LexRank, V!EmptyMap, VP!EmptyMap, V!NoTime, VP!NoTime
<1>2. V!FinishSignature <=> VP!FinishSignature
   BY DEF V!FinishSignature, VP!FinishSignature, V!input, VP!input, V!opening, VP!opening
<1>3. V!Conclude <=> VP!Conclude
   BY DEF V!Conclude, VP!Conclude, V!input, VP!input, V!opening, VP!opening
<1>4. UNCHANGED V!vars <=> UNCHANGED VP!vars
   BY DEF V!vars, VP!vars, V!input, VP!input, V!opening, VP!opening
<1>. QED
   BY SameOpening, SameChecks, <1>1, <1>2, <1>3, <1>4 DEF V!Next, VP!Next

LEMMA SameDocuments ==
  /\ C!NoToken = CP!NoToken /\ C!Rendered = CP!Rendered
  /\ \A docs, n : C!ArchiveSize(docs, n) = CP!ArchiveSize(docs, n)
  /\ \A docs, ss : C!ContainerEntries(docs, ss) = CP!ContainerEntries(docs, ss)
<1>1. C!NoToken = CP!NoToken
   BY DEF C!NoToken, CP!NoToken, C!Token, CP!Token, C!NoSignatureValue, CP!NoSignatureValue,
     C!SignatureValue, CP!SignatureValue, C!NoId, CP!NoId, C!NoCert, CP!NoCert, C!NoInfo,
     CP!NoInfo, C!NoBound, CP!NoBound
<1>2. C!Rendered = CP!Rendered
   BY DEF C!Rendered, CP!Rendered, C!Signer, CP!Signer, C!SignBES, CP!SignBES,
     C!SetSignatureValueId, CP!SetSignatureValueId, C!BuildSignature, CP!BuildSignature,
     C!SignedProperties, CP!SignedProperties, C!DataObjectFormats, CP!DataObjectFormats,
     C!FileReferences, CP!FileReferences, C!SignatureValue, CP!SignatureValue, C!SignatureID,
     CP!SignatureID, C!ReferenceID, CP!ReferenceID, C!SignatureValueID, CP!SignatureValueID,
     C!SignedPropertiesID, CP!SignedPropertiesID, C!NoId, CP!NoId, C!NoUsp, CP!NoUsp, C!NoOcsp,
     CP!NoOcsp, C!Ocsp, CP!Ocsp, C!NoCert, CP!NoCert
<1>3. \A docs, n : C!ArchiveSize(docs, n) = CP!ArchiveSize(docs, n)
   BY DEF C!ArchiveSize, CP!ArchiveSize, C!Total, CP!Total, C!Totals, CP!Totals
<1>4. \A docs, ss : C!ContainerEntries(docs, ss) = CP!ContainerEntries(docs, ss)
   BY DEF C!ContainerEntries, CP!ContainerEntries, C!MimetypeEntry, CP!MimetypeEntry,
     C!ManifestEntry, CP!ManifestEntry, C!FileEntry, CP!FileEntry, C!SignatureEntry,
     CP!SignatureEntry, C!ManifestRows, CP!ManifestRows, C!Row, CP!Row, C!RootMedia, CP!RootMedia
<1>. QED  BY <1>1, <1>2, <1>3, <1>4

LEMMA SameWriting == C!WriteContainer \/ C!Interrupt <=> CP!WriteContainer \/ CP!Interrupt
<1>1. C!Writable <=> CP!Writable
   BY SameDocuments DEF C!Writable, CP!Writable, C!DocumentsOK, CP!DocumentsOK, C!NoMediaType, CP!NoMediaType
<1>2. C!WriteContainer <=> CP!WriteContainer
   BY SameDocuments, <1>1 DEF C!WriteContainer, CP!WriteContainer, C!Written, CP!Written, C!Truncated, CP!Truncated,
     C!Partial, CP!Partial, C!Fail, CP!Fail
<1>3. C!Interrupt <=> CP!Interrupt
   BY SameDocuments, <1>1 DEF C!Interrupt, CP!Interrupt, C!Written, CP!Written, C!Partial, CP!Partial
<1>. QED  BY <1>2, <1>3

LEMMA SameCreate == C!Next <=> CP!Next
<1>1. C!OpenOutput <=> CP!OpenOutput
   BY DEF C!OpenOutput, CP!OpenOutput, C!Truncated, CP!Truncated, C!Fail, CP!Fail
<1>2. C!CheckOptions <=> CP!CheckOptions
   BY DEF C!CheckOptions, CP!CheckOptions, C!OptionsOK, CP!OptionsOK, C!NoTime, CP!NoTime,
     C!Fail, CP!Fail
<1>3. C!SignDocument <=> CP!SignDocument
   BY SameDocuments DEF C!SignDocument, CP!SignDocument, C!Signer, CP!Signer, C!NoCert, CP!NoCert, C!Fail,
     CP!Fail
<1>4. C!TimeStamp <=> CP!TimeStamp
   BY DEF C!TimeStamp, CP!TimeStamp, C!Token, CP!Token, C!AddUnsignedProperties,
     CP!AddUnsignedProperties, C!Usp, CP!Usp, C!Fail, CP!Fail
<1>5. C!CheckTSDelay <=> CP!CheckTSDelay
   BY DEF C!CheckTSDelay, CP!CheckTSDelay, C!GuardOK, CP!GuardOK, C!NoBound, CP!NoBound, C!Fail,
     CP!Fail
<1>. QED
   BY SameWriting, <1>1, <1>2, <1>3, <1>4, <1>5 DEF C!Next, CP!Next, C!Work, CP!Work

LEMMA SameFetch == F!Next <=> FP!Next
<1>1. F!ReadInputs <=> FP!ReadInputs
   BY DEF F!ReadInputs, FP!ReadInputs, F!UsageOK, FP!UsageOK, F!FilesOK, FP!FilesOK, F!End,
     FP!End, F!Fail, FP!Fail
<1>2. F!BuildRequest <=> FP!BuildRequest
   BY DEF F!BuildRequest, FP!BuildRequest, F!Issuers, FP!Issuers, F!IssuerFromChain,
     FP!IssuerFromChain, F!Chain, FP!Chain, F!Signer, FP!Signer, F!CertIDForSigner,
     FP!CertIDForSigner, F!End, FP!End, F!Fail, FP!Fail
<1>3. F!Send <=> FP!Send
   BY DEF F!Send, FP!Send, F!Shape, FP!Shape, F!NoAnswer, FP!NoAnswer, F!End, FP!End, F!Unset,
     FP!Unset
<1>4. F!TimesOut <=> FP!TimesOut
   BY DEF F!TimesOut, FP!TimesOut, F!End, FP!End
<1>5. F!HandleAnswer <=> FP!HandleAnswer
   BY DEF F!HandleAnswer, FP!HandleAnswer, F!Answer, FP!Answer, F!TryAgain, FP!TryAgain, F!End,
     FP!End, F!Fail, FP!Fail
<1>6. F!CheckResponse <=> FP!CheckResponse
   BY DEF F!CheckResponse, FP!CheckResponse, F!Answer, FP!Answer, F!Successful, FP!Successful,
     F!End, FP!End, F!Fail, FP!Fail
<1>7. F!WriteFile <=> FP!WriteFile
   BY DEF F!WriteFile, FP!WriteFile, F!Answer, FP!Answer, F!Response, FP!Response, F!Damaged,
     FP!Damaged, F!End, FP!End
<1>8. F!Tick <=> FP!Tick
   BY DEF F!Tick, FP!Tick
<1>9. F!Deliver <=> FP!Deliver
   BY DEF F!Deliver, FP!Deliver
<1>10. F!ConnectionBreaks <=> FP!ConnectionBreaks
   BY DEF F!ConnectionBreaks, FP!ConnectionBreaks, F!End, FP!End
<1>11. F!Kill <=> FP!Kill
   BY DEF F!Kill, FP!Kill, F!Answer, FP!Answer, F!Response, FP!Response, F!Damaged, FP!Damaged,
     F!End, FP!End
<1>. QED
   BY <1>1, <1>2, <1>3, <1>4, <1>5, <1>6, <1>7, <1>8, <1>9, <1>10, <1>11
    DEF F!Next, FP!Next, F!Work, FP!Work

-----------------------------------------------------------------------------
(* The inductive invariant.  What is given stays as given: the world, the  *)
(* order apart from its OCSP answer, the policy; and the clock only runs.  *)
HonestOcsp(o) ==
  /\ o \in OcspType /\ o.producedAt <= clock + input.responderAhead
  /\ o.status = "good" => StatusAt(input, o.thisUpdate) = "good"

Given ==
  /\ phase \in {"fetch", "create", "transit", "verify"}
  /\ input.fetch \in BOOLEAN /\ clock \in Nat
  /\ IF input.fetch THEN IsWorld(input)
     ELSE input.gens \subseteq Int /\ input.answers \subseteq OcspType
  /\ order \in CP!OrderType /\ Len(order.signers) <= 100
  /\ policy.tsDelay \in Int /\ policy.maxAge \in Int

(* While the answer is fetched: all that the responder said was so.        *)
FetchInv ==
  phase = "fetch" =>
    /\ input.fetch /\ FP!IInv /\ CP!InitFor(order, CP!Old)
    /\ fpc \notin {"inputs", "build", "done"} => request.serial \in DOMAIN input.subject
    /\ \A i \in DOMAIN log :
         log[i].answer.kind = "reply" => HonestOcsp(log[i].answer.body.says)

(* From then on: so is the answer the container is made with, and no stamp *)
(* is older than it by more than the two clocks differ, or from the future *)
(* of the authority.                                                       *)
Timely(t) ==
  /\ t.gen \in Int
  /\ t.gen - order.ocsp.producedAt >= input.tsaAhead - input.responderAhead
  /\ t.gen <= clock + input.tsaAhead

CreateInv ==
  phase # "fetch" =>
    /\ CP!IInv
    /\ input.fetch => HonestOcsp(order.ocsp)
    /\ input.fetch /\ cpc = "guard" => Timely(captured)
    /\ input.fetch /\ order.profile = "TS" => \A k \in DOMAIN sigs : Timely(sigs[k].usp.tsts[1])

(* New stamps are given in transit only, and are no older than the first.  *)
FreshInv ==
  /\ phase \in {"fetch", "create"} => fresh = {}
  /\ input.fetch /\ order.profile = "TS" =>
       \A t \in fresh, k \in DOMAIN sigs :
         t.gen \in Int /\ sigs[k].usp.tsts[1].gen <= t.gen

(* In transit: whatever was changed, a signature value is one that a       *)
(* signer made, a trusted token one that the authority gave, and a         *)
(* responder's answer true.                                                *)
AnyId    == Seq({"S", "RefId", "SIG", "SignedProperties"} \cup Int)
AnyMedia == MediaType \cup {NoMediaType}
Reference == [id : AnyId, uri : Name, dig : Content]
Format    == [ref : AnyId, mime : AnyMedia]
Properties ==
  [id : AnyId, time : Int, policy : {FALSE}, cert : Cert \cup {NoCert}, dofs : Seq(Format)]
PropertiesReference == [target : AnyId, dig : Properties]

Values == {sigs[k].sv : k \in DOMAIN sigs}
Stamped(t) == order.profile = "TS" /\ \E k \in DOMAIN sigs : t = sigs[k].usp.tsts[1]
AnyToken == [empty : {FALSE}, imprint : Values, gen : Int, trusted : BOOLEAN, bound : Int]
Tokens   == {t \in AnyToken : t.trusted => Stamped(t) \/ t \in fresh}
Truthful(o) == o.status = "good" => StatusAt(input, o.thisUpdate) = "good"
AnyAnswer == {o \in OcspType : input.fetch /\ o.authentic => Truthful(o)}
Unsigned == [shape : {"ok", "absent"}, tsts : Seq(Tokens), ocsp : AnyAnswer]
Documents ==
  [shape : {"ok"}, id : AnyId, refs : Seq(Reference), spRefs : Seq(PropertiesReference),
   sv : Values, cert : Cert \cup {NoCert}, target : AnyId, sp : Properties, usp : Unsigned]

AnyRow  == [path : Name \cup {"/", "META-INF/", NoName}, mime : AnyMedia \cup {RootMedia}]
Entries ==
  [kind : {"mimetype"}, good : BOOLEAN]
  \cup [kind : {"manifest"}, rows : Seq(AnyRow)]
  \cup [kind : {"file"}, name : Name, data : Content]
  \cup [kind : {"signature"}, key : 0..99, doc : Documents]
  \cup [kind : {"metainf", "subfolder"}]

TransitInv ==
  /\ phase # "verify" => VP!InitFor(zip, policy)
  /\ phase \in {"transit", "verify"} => outcome = "ok" /\ zip \in Seq(Entries)

VerifyInv ==
  phase = "verify" =>
    /\ VP!IInv /\ VP!JInv
    /\ \A k \in DOMAIN ctr.sigDocs : ctr.sigDocs[k] \in Documents

IInv == Given /\ FetchInv /\ CreateInv /\ FreshInv /\ TransitInv /\ VerifyInv

-----------------------------------------------------------------------------
(* The signature documents that Create finishes.                           *)
LEMMA SignedForm ==
  ASSUME NEW k, NEW cert, NEW docs, NEW t
  PROVE  LET sp   == SignedProperties(k, cert, docs, t)
             info == [refs   |-> FileReferences(k, docs),
                      spRefs |-> <<[target |-> SignedPropertiesID(k), dig |-> sp]>>]
         IN  SignBES(k, cert, docs, t) =
               [shape |-> "ok", id |-> SignatureID(k), refs |-> info.refs,
                spRefs |-> info.spRefs,
                sv |-> [id |-> SignatureValueID(k), key |-> cert, over |-> info],
                cert |-> cert, target |-> SignatureID(k), sp |-> sp, usp |-> NoUsp]
<1>. DEFINE sp   == SignedProperties(k, cert, docs, t)
            refs == FileReferences(k, docs)
            spRefs == <<[target |-> SignedPropertiesID(k), dig |-> sp]>>
            info == [refs |-> refs, spRefs |-> spRefs]
<1>1. sp.id = SignedPropertiesID(k)
  BY DEF SignedProperties
<1>2. BuildSignature(k, cert, docs, t) =
        [shape |-> "ok", id |-> SignatureID(k), refs |-> refs, spRefs |-> spRefs,
         sv |-> [id |-> NoId, key |-> cert, over |-> info],
         cert |-> cert, target |-> SignatureID(k), sp |-> sp, usp |-> NoUsp]
  BY <1>1 DEF BuildSignature, SignatureValue
<1>. HIDE DEF sp, refs, spRefs, info
<1>3. SignBES(k, cert, docs, t) =
        [shape |-> "ok", id |-> SignatureID(k), refs |-> refs, spRefs |-> spRefs,
         sv |-> [id |-> SignatureValueID(k), key |-> cert, over |-> info],
         cert |-> cert, target |-> SignatureID(k), sp |-> sp, usp |-> NoUsp]
  BY <1>2 DEF SignBES, SetSignatureValueId
<1>. QED
  BY <1>3 DEF sp, refs, spRefs, info

LEMMA FinishedForm ==
  ASSUME NEW k
  PROVE  LET doc == SignBES(k - 1, order.signers[k].cert, order.docs, order.time)
         IN  /\ CP!BESDoc(k) = doc
             /\ \A token : CP!TSDoc(k, token) = AddUnsignedProperties(doc, token, order.ocsp)
<1>1. CP!BESDoc(k) = SignBES(k - 1, order.signers[k].cert, order.docs, order.time)
  BY DEF CP!BESDoc, CP!SignBES, SignBES, CP!SetSignatureValueId, SetSignatureValueId,
     CP!BuildSignature, BuildSignature, CP!SignedProperties, SignedProperties,
     CP!DataObjectFormats, DataObjectFormats, CP!FileReferences, FileReferences,
     CP!SignatureValue, SignatureValue, CP!SignatureID, SignatureID, CP!ReferenceID,
     ReferenceID, CP!SignatureValueID, SignatureValueID, CP!SignedPropertiesID,
     SignedPropertiesID, CP!NoId, NoId, CP!NoUsp, NoUsp, CP!NoOcsp, NoOcsp, CP!Ocsp, Ocsp,
     CP!NoCert, NoCert
<1>. QED
  BY <1>1 DEF CP!TSDoc, CP!AddUnsignedProperties, AddUnsignedProperties, CP!Usp, Usp

Made(k) == SignBES(k - 1, order.signers[k].cert, order.docs, order.time)

LEMMA OrderFacts ==
  ASSUME order \in CP!OrderType
  PROVE  /\ order.docs \in Seq([name : Name, mime : AnyMedia, data : Content])
         /\ Len(order.docs) \in Nat /\ DOMAIN order.docs = 1..Len(order.docs)
         /\ Len(order.signers) \in Nat /\ DOMAIN order.signers = 1..Len(order.signers)
         /\ \A k \in DOMAIN order.signers : order.signers[k].cert \in Cert \cup {NoCert}
         /\ order.time \in Int /\ order.tsDelay \in Int /\ order.ocsp \in OcspType
<1>1. CP!Doc = [name : Name, mime : AnyMedia, data : Content]
  BY DEF CP!Doc, AnyMedia, CP!MediaType, MediaType, CP!NoMediaType, NoMediaType
<1>2. CP!OcspType = OcspType /\ CP!NoCert = NoCert
  BY DEF CP!OcspType, OcspType, CP!NoCert, NoCert
<1>. DEFINE D == [name : Name, mime : AnyMedia, data : Content]
<1>3. /\ order.docs \in Seq(D)
      /\ order.signers \in Seq([cert : Cert \cup {NoCert}])
      /\ order.time \in Int /\ order.tsDelay \in Int /\ order.ocsp \in OcspType
  BY <1>1, <1>2 DEF CP!OrderType
<1>. HIDE DEF D
<1>4. Len(order.docs) \in Nat /\ DOMAIN order.docs = 1..Len(order.docs)
  BY <1>3
<1>5. Len(order.signers) \in Nat /\ DOMAIN order.signers = 1..Len(order.signers)
  BY <1>3
<1>6. \A k \in DOMAIN order.signers : order.signers[k] \in [cert : Cert \cup {NoCert}]
  BY <1>3, <1>5, ElementOfSeq
<1>. QED
  BY <1>3, <1>4, <1>5, <1>6 DEF D

(* What Create finishes for signer k, and that all its parts are typed.    *)
LEMMA FinishedDocuments ==
  ASSUME CP!IInv, NEW k \in DOMAIN sigs
  PROVE  /\ k \in DOMAIN order.signers /\ k \in 1..Len(sigs)
         /\ order.profile # "TS" => sigs[k] = Made(k)
         /\ order.profile = "TS" =>
              /\ CP!TimeStamped(sigs[k])
              /\ \E token \in CP!Tokens(k) :
                   sigs[k] = AddUnsignedProperties(Made(k), token, order.ocsp)
<1>1. order \in CP!OrderType /\ Len(sigs) <= Len(order.signers) /\ DOMAIN sigs = 1..Len(sigs)
      /\ sigs[k] \in CP!Finished(k)
  <2>1. CP!SigsInv /\ CP!TypeOK /\ order \in CP!OrderType
    BY DEF CP!IInv
  <2>2. Len(sigs) \in Nat /\ DOMAIN sigs = 1..Len(sigs)
    BY <2>1, LenProperties DEF CP!SigsInv
  <2>. QED
    BY <2>1, <2>2 DEF CP!SigsInv, CP!TypeOK
<1>2. k \in DOMAIN order.signers
  BY <1>1, OrderFacts
<1>3. order.profile # "TS" => sigs[k] = Made(k)
  BY <1>1, FinishedForm DEF CP!Finished, Made
<1>4. ASSUME order.profile = "TS"
      PROVE  /\ CP!TimeStamped(sigs[k])
             /\ \E token \in CP!Tokens(k) :
                  sigs[k] = AddUnsignedProperties(Made(k), token, order.ocsp)
  BY <1>1, <1>4, FinishedForm DEF CP!Finished, Made
<1>. QED
  BY <1>1, <1>2, <1>3, <1>4

LEMMA MadeTyped ==
  ASSUME order \in CP!OrderType, NEW k \in DOMAIN order.signers
  PROVE  /\ Made(k).refs \in Seq(Reference)
         /\ Made(k).sp \in Properties
         /\ Made(k).spRefs \in Seq(PropertiesReference)
         /\ Made(k).cert \in Cert \cup {NoCert}
         /\ Made(k).id \in AnyId /\ Made(k).target \in AnyId
<1>1. k \in Nat /\ k - 1 \in Int /\ order.signers[k].cert \in Cert \cup {NoCert} /\ order.time \in Int
  BY OrderFacts
<1>2. /\ SignatureID(k - 1) \in AnyId /\ SignedPropertiesID(k - 1) \in AnyId
      /\ \A i \in Int : ReferenceID(k - 1, i) \in AnyId
  <2>. DEFINE S == {"S", "RefId", "SIG", "SignedProperties"} \cup Int
  <2>1. "S" \in S /\ "SignedProperties" \in S /\ "RefId" \in S /\ Int \subseteq S /\ k - 1 \in S
    BY <1>1
  <2>. HIDE DEF S
  <2>2. <<"S", k - 1>> \in Seq(S) /\ <<"SignedProperties", k - 1>> \in Seq(S)
    BY <2>1
  <2>3. \A i \in Int : <<"RefId", k - 1, i>> \in Seq(S)
    BY <2>1
  <2>. QED
    BY <2>2, <2>3 DEF SignatureID, SignedPropertiesID, ReferenceID, AnyId, S
<1>3. \A i \in 1..Len(order.docs) :
        order.docs[i].name \in Name /\ order.docs[i].mime \in AnyMedia /\ order.docs[i].data \in Content
  <2>. DEFINE D == [name : Name, mime : AnyMedia, data : Content]
  <2>1. order.docs \in Seq(D)
    BY OrderFacts
  <2>. HIDE DEF D
  <2>2. \A i \in 1..Len(order.docs) : order.docs[i] \in D
    BY <2>1, ElementOfSeq
  <2>. QED
    BY <2>2 DEF D
<1>4. FileReferences(k - 1, order.docs) \in Seq(Reference)
  BY <1>2, <1>3, OrderFacts DEF FileReferences, Reference
<1>5. DataObjectFormats(k - 1, order.docs) \in Seq(Format)
  BY <1>2, <1>3, OrderFacts DEF DataObjectFormats, Format
<1>. DEFINE sp == SignedProperties(k - 1, order.signers[k].cert, order.docs, order.time)
<1>6. sp \in Properties
  BY <1>1, <1>2, <1>5 DEF SignedProperties, Properties
<1>. HIDE DEF sp
<1>7. <<[target |-> SignedPropertiesID(k - 1), dig |-> sp]>> \in Seq(PropertiesReference)
  BY <1>2, <1>6 DEF PropertiesReference
<1>8. /\ Made(k).refs = FileReferences(k - 1, order.docs)
      /\ Made(k).sp = sp
      /\ Made(k).spRefs = <<[target |-> SignedPropertiesID(k - 1), dig |-> sp]>>
      /\ Made(k).cert = order.signers[k].cert
      /\ Made(k).id = SignatureID(k - 1) /\ Made(k).target = SignatureID(k - 1)
  BY SignedForm DEF Made, sp
<1>. QED
  BY <1>1, <1>2, <1>4, <1>6, <1>7, <1>8

(* A stamped document carries the one token that was given for it.         *)
LEMMA StampedForm ==
  ASSUME CP!IInv, order.profile = "TS", NEW k \in DOMAIN sigs
  PROVE  \E gen \in GenTime, bound \in PolicyBound, trusted \in BOOLEAN :
           LET token == Token(Made(k).sv, gen, trusted, bound)
           IN  /\ sigs[k] = [Made(k) EXCEPT !.usp = [shape |-> "ok", tsts |-> <<token>>,
                                                     ocsp |-> order.ocsp]]
               /\ sigs[k].usp.tsts[1] = token /\ sigs[k].usp.tsts = <<token>>
               /\ sigs[k].sv = Made(k).sv
<1>1. PICK token \in CP!Tokens(k) :
        sigs[k] = AddUnsignedProperties(Made(k), token, order.ocsp)
  BY FinishedDocuments
<1>2. token \in CP!TokensOver(Made(k).sv)
  BY <1>1, FinishedForm DEF CP!Tokens, Made
<1>3. PICK gen \in GenTime, bound \in PolicyBound, trusted \in BOOLEAN :
        token = CP!Token(Made(k).sv, gen, trusted, bound)
  BY <1>2, CreateTokens
<1>4. token = Token(Made(k).sv, gen, trusted, bound)
  BY <1>3 DEF CP!Token, Token
<1>5. sigs[k] = [Made(k) EXCEPT !.usp = [shape |-> "ok", tsts |-> <<token>>, ocsp |-> order.ocsp]]
  BY <1>1 DEF AddUnsignedProperties, Usp
<1>6. "usp" \in DOMAIN Made(k) /\ "sv" \in DOMAIN Made(k)
  BY SignedForm DEF Made
<1>7. sigs[k].usp.tsts = <<token>> /\ sigs[k].sv = Made(k).sv
  BY <1>5, <1>6
<1>8. sigs[k].usp.tsts[1] = token
  BY <1>7
<1>. QED
  BY <1>4, <1>5, <1>7, <1>8

LEMMA SameValue ==
  ASSUME CP!IInv, NEW k \in DOMAIN sigs
  PROVE  sigs[k].sv = Made(k).sv
BY FinishedDocuments, StampedForm

LEMMA MadeForm ==
  ASSUME NEW k
  PROVE  Made(k) = [shape |-> "ok", id |-> Made(k).id, refs |-> Made(k).refs,
                    spRefs |-> Made(k).spRefs, sv |-> Made(k).sv, cert |-> Made(k).cert,
                    target |-> Made(k).target, sp |-> Made(k).sp, usp |-> NoUsp]
BY SignedForm DEF Made

LEMMA OrderTyped == CP!IInv => order \in CP!OrderType
BY DEF CP!IInv

LEMMA AnswerMade ==
  ASSUME CP!IInv, input.fetch => HonestOcsp(order.ocsp)
  PROVE  order.ocsp \in AnyAnswer
BY OrderTyped, OrderFacts DEF HonestOcsp, AnyAnswer, Truthful

LEMMA NoAnswerTyped ==
  NoOcsp \in OcspType /\ NoOcsp.producedAt = 0 /\ NoOcsp.status = "unknown"
<1>1. Ocsp("unknown", NoCert, 0, 0) \in OcspType
  BY DEF Ocsp, OcspType
<1>2. \A o \in OcspType : [o EXCEPT !.empty = TRUE, !.decodes = FALSE] \in OcspType
  BY DEF OcspType
<1>3. NoOcsp \in OcspType
  BY <1>1, <1>2 DEF NoOcsp
<1>. QED
  BY <1>3 DEF NoOcsp, Ocsp

LEMMA NoUspTyped == NoUsp \in Unsigned
<1>1. NoOcsp \in AnyAnswer
  BY NoAnswerTyped DEF AnyAnswer, Truthful
<1>. QED
  BY <1>1 DEF NoUsp, Unsigned

LEMMA DocumentsMade ==
  ASSUME CP!IInv, input.fetch => HonestOcsp(order.ocsp), NEW k \in DOMAIN sigs
  PROVE  sigs[k] \in Documents
<1>1. k \in DOMAIN order.signers /\ order \in CP!OrderType
  BY FinishedDocuments, OrderTyped
<1>2. Made(k).sv \in Values
  BY SameValue DEF Values
<1>3. ASSUME NEW usp \in Unsigned PROVE [Made(k) EXCEPT !.usp = usp] \in Documents
  <2>1. [Made(k) EXCEPT !.usp = usp] =
          [shape |-> "ok", id |-> Made(k).id, refs |-> Made(k).refs,
           spRefs |-> Made(k).spRefs, sv |-> Made(k).sv, cert |-> Made(k).cert,
           target |-> Made(k).target, sp |-> Made(k).sp, usp |-> usp]
    BY MadeForm
  <2>. QED
    BY <1>1, <1>2, <2>1, MadeTyped DEF Documents
<1>4. CASE order.profile # "TS"
  <2>1. NoUsp \in Unsigned
    BY NoUspTyped
  <2>2. Made(k) = [Made(k) EXCEPT !.usp = NoUsp]
    BY MadeForm
  <2>. QED
    BY <1>3, <1>4, <2>1, <2>2, FinishedDocuments
<1>5. CASE order.profile = "TS"
  <2>1. PICK gen \in GenTime, bound \in PolicyBound, trusted \in BOOLEAN :
          LET token == Token(Made(k).sv, gen, trusted, bound)
          IN  /\ sigs[k] = [Made(k) EXCEPT !.usp = [shape |-> "ok", tsts |-> <<token>>,
                                                    ocsp |-> order.ocsp]]
              /\ sigs[k].usp.tsts[1] = token
    BY <1>5, StampedForm
  <2>. DEFINE token == Token(Made(k).sv, gen, trusted, bound)
  <2>2. gen \in Int /\ bound \in Int
    BY RoundTripAssumption DEF NoBound
  <2>3. token \in Tokens
    BY <1>2, <1>5, <2>1, <2>2 DEF Token, AnyToken, Tokens, Stamped
  <2>. HIDE DEF token
  <2>4. <<token>> \in Seq(Tokens)
    BY <2>3
  <2>5. [shape |-> "ok", tsts |-> <<token>>, ocsp |-> order.ocsp] \in Unsigned
    BY <2>4, AnswerMade DEF Unsigned
  <2>6. sigs[k] = [Made(k) EXCEPT !.usp = [shape |-> "ok", tsts |-> <<token>>,
                                            ocsp |-> order.ocsp]]
    BY <2>1 DEF token
  <2>. QED
    BY <1>3, <2>5, <2>6
<1>. QED
  BY <1>4, <1>5

-----------------------------------------------------------------------------
(* What is in transit is what Verify reads: lists and numbers.             *)
LEMMA ListOver ==
  ASSUME NEW S, NEW s \in Seq(S)
  PROVE  s \in Seq(VP!Range(s)) /\ VP!Range(s) \subseteq S
<1>1. DOMAIN s = 1..Len(s) /\ Len(s) \in Nat /\ \A i \in 1..Len(s) : s[i] \in S
  BY ElementOfSeq
<1>. QED
  BY <1>1 DEF VP!Range

LEMMA DocumentIsList ==
  ASSUME CP!IInv, NEW sig \in Documents
  PROVE  VP!IsDocument(sig)
<1>1. /\ sig.refs \in Seq(Reference) /\ sig.spRefs \in Seq(PropertiesReference)
      /\ sig.sp \in Properties /\ sig.usp \in Unsigned
  BY DEF Documents
<1>2. sig.sp.dofs \in Seq(Format) /\ sig.usp.tsts \in Seq(Tokens)
      /\ sig.usp.ocsp \in OcspType
  BY <1>1 DEF Properties, Unsigned, AnyAnswer
<1>3. sig.usp.ocsp.thisUpdate \in Int /\ sig.usp.ocsp.producedAt \in Int
  BY <1>2 DEF OcspType
<1>4. \A t \in VP!Range(sig.usp.tsts) : t.gen \in Int /\ t.bound \in Int
  <2>1. \A t \in Tokens : t.gen \in Int /\ t.bound \in Int
    BY DEF Tokens, AnyToken
  <2>. QED
    BY <1>2, <2>1, ListOver
<1>5. sig.spRefs \in Seq([target : {r.target : r \in VP!Range(sig.spRefs)},
                          dig    : {r.dig : r \in VP!Range(sig.spRefs)}])
  <2>. DEFINE refs == sig.spRefs
              P == [target : {r.target : r \in VP!Range(refs)}, dig : {r.dig : r \in VP!Range(refs)}]
  <2>1. refs \in Seq(VP!Range(refs)) /\ VP!Range(refs) \subseteq PropertiesReference
    BY <1>1, ListOver
  <2>2. ASSUME NEW r \in VP!Range(refs) PROVE r \in P
    <3>1. r = [target |-> r.target, dig |-> r.dig]
      BY <2>1 DEF PropertiesReference
    <3>. QED
      BY <3>1
  <2>. HIDE DEF P
  <2>3. refs \in Seq(P)
    BY <2>1, <2>2
  <2>. QED
    BY <2>3 DEF P
<1>. QED
  BY <1>1, <1>2, <1>3, <1>4, <1>5, ListOver DEF VP!IsDocument

LEMMA PairTyped ==
  ASSUME NEW S, NEW a \in S, NEW b \in S
  PROVE  <<a, b>> \in Seq(S)
OBVIOUS

LEMMA EntryKinds ==
  ASSUME NEW e \in Entries
  PROVE  /\ e.kind = "mimetype"  => e \in [kind : {"mimetype"}, good : BOOLEAN]
         /\ e.kind = "manifest"  => e \in [kind : {"manifest"}, rows : Seq(AnyRow)]
         /\ e.kind = "file"      => e \in [kind : {"file"}, name : Name, data : Content]
         /\ e.kind = "signature" => e \in [kind : {"signature"}, key : 0..99, doc : Documents]
BY DEF Entries

LEMMA EntryTypes ==
  /\ MimetypeEntry(TRUE) \in Entries
  /\ \A rows \in Seq(AnyRow) : ManifestEntry(rows) \in Entries
  /\ \A n \in Name, c \in Content : FileEntry(n, c) \in Entries
  /\ \A k \in 0..99, d \in Documents : SignatureEntry(k, d) \in Entries
  /\ \A kind \in {"metainf", "subfolder"} : OtherEntry(kind) \in Entries
BY DEF MimetypeEntry, ManifestEntry, FileEntry, SignatureEntry, OtherEntry, Entries

LEMMA ContainerTyped ==
  ASSUME CP!IInv, input.fetch => HonestOcsp(order.ocsp), Len(order.signers) <= 100,
         outcome = "ok"
  PROVE  out.entries = ContainerEntries(order.docs, sigs) /\ out.entries \in Seq(Entries)
<1>1. out.entries = CP!ContainerEntries(order.docs, sigs) /\ Len(sigs) = Len(order.signers)
  BY DEF CP!IInv, CP!OutInv
<1>2. out.entries = ContainerEntries(order.docs, sigs)
  BY <1>1 DEF CP!ContainerEntries, ContainerEntries, CP!MimetypeEntry, MimetypeEntry,
     CP!ManifestEntry, ManifestEntry, CP!FileEntry, FileEntry, CP!SignatureEntry,
     SignatureEntry, CP!ManifestRows, ManifestRows, CP!Row, Row, CP!RootMedia, RootMedia
<1>3. \A i \in 1..Len(order.docs) :
        order.docs[i].name \in Name /\ order.docs[i].mime \in AnyMedia /\ order.docs[i].data \in Content
  <2>. DEFINE D == [name : Name, mime : AnyMedia, data : Content]
  <2>1. order.docs \in Seq(D)
    BY OrderTyped, OrderFacts
  <2>. HIDE DEF D
  <2>2. \A i \in 1..Len(order.docs) : order.docs[i] \in D
    BY <2>1, ElementOfSeq
  <2>. QED
    BY <2>2 DEF D
<1>4. Len(order.docs) \in Nat /\ Len(order.signers) \in Nat
  BY OrderTyped, OrderFacts
<1>5. ManifestRows(order.docs) \in Seq(AnyRow)
  <2>1. <<Row("/", RootMedia)>> \in Seq(AnyRow)
    <3>1. Row("/", RootMedia) \in AnyRow
      BY DEF Row, AnyRow
    <3>. QED
      BY <3>1
  <2>2. [i \in 1..Len(order.docs) |-> Row(order.docs[i].name, order.docs[i].mime)] \in Seq(AnyRow)
    <3>1. \A i \in 1..Len(order.docs) : Row(order.docs[i].name, order.docs[i].mime) \in AnyRow
      BY <1>3 DEF Row, AnyRow
    <3>. QED
      BY <1>4, <3>1
  <2>. QED
    BY <2>1, <2>2, ConcatProperties DEF ManifestRows
<1>6. [i \in 1..Len(order.docs) |-> FileEntry(order.docs[i].name, order.docs[i].data)] \in Seq(Entries)
  BY <1>3, <1>4, EntryTypes
<1>7. [i \in 1..Len(sigs) |-> SignatureEntry(i - 1, sigs[i])] \in Seq(Entries)
  <2>1. CP!SigsInv
    BY DEF CP!IInv
  <2>2. DOMAIN sigs = 1..Len(sigs)
    BY <2>1, LenProperties DEF CP!SigsInv
  <2>3. \A i \in 1..Len(sigs) : i - 1 \in 0..99 /\ sigs[i] \in Documents
    BY <1>1, <1>4, <2>2, DocumentsMade
  <2>4. \A i \in 1..Len(sigs) : SignatureEntry(i - 1, sigs[i]) \in Entries
    BY <2>3, EntryTypes
  <2>5. Len(sigs) \in Nat
    BY <1>1, <1>4
  <2>. QED
    BY <2>4, <2>5
<1>8. <<MimetypeEntry(TRUE), ManifestEntry(ManifestRows(order.docs))>> \in Seq(Entries)
  <2>1. MimetypeEntry(TRUE) \in Entries /\ ManifestEntry(ManifestRows(order.docs)) \in Entries
    BY <1>5, EntryTypes
  <2>. QED
    BY <2>1, PairTyped
<1>9. ContainerEntries(order.docs, sigs) \in Seq(Entries)
  BY <1>6, <1>7, <1>8, ConcatProperties DEF ContainerEntries
<1>. QED
  BY <1>2, <1>9

LEMMA EntriesTyped ==
  ASSUME CP!IInv, zip \in Seq(Entries), policy.tsDelay \in Int, policy.maxAge \in Int
  PROVE  VP!ZipInv /\ VP!Typed
<1>1. \A i \in DOMAIN zip : zip[i] \in Entries
  BY ElementOfSeq
<1>2. zip \in Seq(VP!Range(zip))
  BY ListOver
<1>3. \A i \in DOMAIN zip :
        /\ zip[i].kind = "file" => zip[i].name \in Name /\ zip[i].data \in Content
        /\ zip[i].kind = "signature" => zip[i].key \in 0..99 /\ zip[i].doc \in Documents
  BY <1>1, EntryKinds
<1>. QED
  BY <1>2, <1>3, DocumentIsList DEF VP!ZipInv, VP!Typed

-----------------------------------------------------------------------------
LEMMA SameStart ==
  /\ C!Old = CP!Old
  /\ F!InitFor(input) <=> FP!InitFor(input)
  /\ C!InitFor(order, C!Old) <=> CP!InitFor(order, CP!Old)
  /\ V!InitFor(zip, policy) <=> VP!InitFor(zip, policy)
  /\ F!IsInput(input) <=> FP!IsInput(input)
<1>1. C!Old = CP!Old
  BY DEF C!Old, CP!Old
<1>2. F!InitFor(input) <=> FP!InitFor(input)
  BY DEF F!InitFor, FP!InitFor, F!NoRequest, FP!NoRequest, F!Unset, FP!Unset, F!Old, FP!Old
<1>3. C!NoSignature = CP!NoSignature /\ C!NoToken = CP!NoToken
  BY SameDocuments
     DEF C!NoSignature, CP!NoSignature, C!BuildSignature, CP!BuildSignature, C!SignedProperties,
         CP!SignedProperties, C!DataObjectFormats, CP!DataObjectFormats, C!FileReferences,
         CP!FileReferences, C!SignatureValue, CP!SignatureValue, C!SignatureID, CP!SignatureID,
         C!ReferenceID, CP!ReferenceID, C!SignedPropertiesID, CP!SignedPropertiesID, C!NoId,
         CP!NoId, C!NoUsp, CP!NoUsp, C!NoOcsp, CP!NoOcsp, C!Ocsp, CP!Ocsp, C!NoCert, CP!NoCert,
         C!NoTime, CP!NoTime
<1>4. C!InitFor(order, C!Old) <=> CP!InitFor(order, CP!Old)
  BY <1>1, <1>3 DEF C!InitFor, CP!InitFor
<1>5. V!InitFor(zip, policy) <=> VP!InitFor(zip, policy)
  BY DEF V!InitFor, VP!InitFor, V!EmptyContainer, VP!EmptyContainer, V!EmptyMap, VP!EmptyMap,
         V!NoKey, VP!NoKey, V!NoTime, VP!NoTime
<1>6. F!IsInput(input) <=> FP!IsInput(input)
  BY DEF F!IsInput, FP!IsInput, F!FileType, FP!FileType
<1>. QED
  BY <1>1, <1>2, <1>4, <1>5, <1>6

LEMMA InitIInv == Init => IInv
<1>. SUFFICES ASSUME Init PROVE IInv
  OBVIOUS
<1>1. PICK j \in Journeys :
        /\ F!InitFor(j.world) /\ C!InitFor(j.order, C!Old) /\ V!InitFor(<<>>, j.policy)
        /\ limit = j.changes
        /\ phase = IF j.world.fetch THEN "fetch" ELSE "create"
  BY DEF Init
<1>2. input = j.world /\ clock = 0 /\ log = <<>> /\ fpc = "inputs"
  BY <1>1 DEF F!InitFor
<1>3. order = j.order
  BY <1>1 DEF C!InitFor
<1>4. zip = <<>> /\ policy = j.policy
  BY <1>1 DEF V!InitFor
<1>5. IsJourney(j)
  BY RoundTripAssumption
<1>6. order \in CP!OrderType
  BY <1>3, CreateAssumptions
<1>7. Given
  BY <1>1, <1>2, <1>3, <1>4, <1>5, <1>6 DEF Given, IsJourney
<1>8. F!InitFor(input) /\ C!InitFor(order, C!Old) /\ V!InitFor(zip, policy)
  BY <1>1, <1>2, <1>3, <1>4
<1>9. FP!InitFor(input) /\ CP!InitFor(order, CP!Old) /\ VP!InitFor(zip, policy)
  BY <1>8, SameStart
<1>10. FetchInv
  <2>1. SUFFICES ASSUME phase = "fetch"
                 PROVE  input.fetch /\ FP!IInv
    BY <1>2, <1>9 DEF FetchInv
  <2>2. input.fetch
    BY <2>1, <1>1, <1>2, <1>5 DEF IsJourney
  <2>3. FP!IsInput(input)
    BY <2>2, <1>7, SameStart DEF Given, IsWorld
  <2>. QED
    BY <2>2, <2>3, <1>9, FetchFresh
<1>11. CP!IInv
  BY <1>6, <1>9, CreateFresh
<1>12. CreateInv
  <2>1. phase # "fetch" => ~input.fetch
    BY <1>1, <1>2, <1>5 DEF IsJourney
  <2>. QED
    BY <2>1, <1>11 DEF CreateInv
<1>13. TransitInv /\ VerifyInv
  BY <1>1, <1>9 DEF TransitInv, VerifyInv
<1>14. FreshInv
  BY DEF Init, FreshInv
<1>. QED
  BY <1>7, <1>10, <1>12, <1>13, <1>14 DEF IInv

-----------------------------------------------------------------------------
(* A fetch.                                                                *)
LEMMA FetchLog ==
  FP!IInv => /\ log \in Seq(FP!AnyExchange) /\ DOMAIN log = 1..Len(log) /\ Len(log) \in Nat
             /\ clock \in Nat
<1>. SUFFICES ASSUME FP!IInv
              PROVE  /\ log \in Seq(FP!AnyExchange) /\ DOMAIN log = 1..Len(log)
                     /\ Len(log) \in Nat /\ clock \in Nat
  OBVIOUS
<1>1. log \in Seq(FP!AnyExchange) /\ clock \in Nat
  BY DEF FP!IInv, FP!LogInv, FP!ClockInv
<1>. QED
  BY <1>1, LenProperties

(* The world does not change under it, and its clock runs on.              *)
LEMMA FetchFrame ==
  ASSUME FP!IInv, FP!Next
  PROVE  input' = input /\ clock' \in Nat /\ clock' >= clock
<1>1. clock \in Nat
  BY FetchLog
<1>2. CASE FP!Tick
  BY <1>1, <1>2 DEF FP!Tick
<1>3. CASE ~FP!Tick
  BY <1>1, <1>3
     DEF FP!Next, FP!Work, FP!ReadInputs, FP!BuildRequest, FP!Send, FP!TimesOut, FP!HandleAnswer,
         FP!CheckResponse, FP!WriteFile, FP!Deliver, FP!ConnectionBreaks, FP!Kill
<1>. QED
  BY <1>2, <1>3

(* What a responder that does not lie answers at some time.                *)
LEMMA SaysHonest ==
  ASSUME Given, input.fetch, NEW n \in DOMAIN input.subject, NEW o \in Says(input, n, clock)
  PROVE  HonestOcsp(o)
<1>1. clock \in Nat /\ input.responderAhead \in Nat /\ clock + input.responderAhead \in Nat
  BY DEF Given, IsWorld
<1>2. input.subject[n] \in Cert \cup {NoCert}
  BY DEF Given, IsWorld
<1>. DEFINE now == clock + input.responderAhead
<1>3. PICK x \in 0..now, y \in 0..now : o = Ocsp(StatusAt(input, x), input.subject[n], x, y)
  BY DEF Says
<1>4. StatusAt(input, x) \in {"good", "revoked", "unknown"}
  BY DEF StatusAt
<1>5. o \in OcspType
  BY <1>1, <1>2, <1>3, <1>4 DEF Ocsp, OcspType
<1>6. o.producedAt <= clock + input.responderAhead
  BY <1>1, <1>3 DEF Ocsp
<1>7. o.status = StatusAt(input, o.thisUpdate)
  BY <1>3 DEF Ocsp
<1>. QED
  BY <1>5, <1>6, <1>7 DEF HonestOcsp

LEMMA AnswersHonest ==
  ASSUME Given, input.fetch, request.serial \in DOMAIN input.subject,
         NEW a \in HonestAnswers(input, request, clock)
  PROVE  HonestOcsp(a.body.says)
<1>1. clock \in Nat /\ input.responderAhead \in Nat
  BY DEF Given, IsWorld
<1>2. \/ a.body.says = NoOcsp
      \/ a.body.says \in Says(input, request.serial, clock)
  BY DEF HonestAnswers
<1>3. HonestOcsp(NoOcsp)
  BY <1>1, NoAnswerTyped DEF HonestOcsp
<1>. QED
  BY <1>2, <1>3, SaysHonest

LEMMA FetchingKeeps == IInv /\ Fetching => IInv'
<1>. SUFFICES ASSUME IInv, Fetching PROVE IInv'
  OBVIOUS
<1>1. phase = "fetch" /\ FP!Next /\ Given /\ FetchInv /\ TransitInv
  BY SameFetch DEF Fetching, IInv
<1>2. /\ order' = order /\ policy' = policy /\ phase' = phase
      /\ UNCHANGED createVars /\ UNCHANGED verifyVars
  BY DEF Fetching, createVars, verifyVars
<1>3. FP!IInv /\ input.fetch /\ CP!InitFor(order, CP!Old)
  BY <1>1 DEF FetchInv
<1>4. FP!IInv'
  BY <1>1, <1>3, FetchStep
<1>5. input' = input /\ clock' \in Nat /\ clock' >= clock
  BY <1>1, <1>3, FetchFrame
<1>6. Given'
  <2>1. CP!OrderType' = CP!OrderType
    OBVIOUS
  <2>. QED
    BY <1>1, <1>2, <1>5 DEF Given, IsWorld, StatusAt
<1>7. CP!InitFor(order, CP!Old)' /\ VP!InitFor(zip, policy)'
  <2>1. VP!InitFor(zip, policy)
    BY <1>1 DEF TransitInv
  <2>2. CP!InitFor(order, CP!Old)'
    BY <1>2, <1>3 DEF CP!InitFor, createVars, CP!Old, CP!NoSignature, CP!NoToken
  <2>. QED
    BY <1>2, <2>1, <2>2 DEF VP!InitFor, verifyVars, VP!EmptyContainer, VP!EmptyMap
<1>8. fpc' \notin {"inputs", "build", "done"} => request'.serial \in DOMAIN input'.subject
  <2>1. CASE FP!BuildRequest
    <3>1. fpc = "build" /\ FP!FilesOK /\ FP!IsInput(input)
      BY <1>3, <2>1 DEF FP!BuildRequest, FP!IInv, FP!LogInv
    <3>2. FP!Signer \in Certificate
      BY <3>1 DEF FP!IsInput, FP!FileType, FP!FilesOK, FP!Signer
    <3>3. DOMAIN input.subject = {c.serial : c \in Certificate}
      BY <1>1, <1>3 DEF Given, IsWorld
    <3>. QED
      BY <2>1, <3>2, <3>3, <1>5 DEF FP!BuildRequest, FP!CertIDForSigner, FP!Fail, FP!End
  <2>2. CASE ~FP!BuildRequest
    <3>1. UNCHANGED request /\ (fpc' \notin {"inputs", "build", "done"} => fpc \notin {"inputs", "build", "done"})
      BY <1>1, <2>2
         DEF FP!Next, FP!Work, FP!ReadInputs, FP!Send, FP!TimesOut, FP!HandleAnswer,
             FP!CheckResponse, FP!WriteFile, FP!Deliver, FP!ConnectionBreaks, FP!Kill, FP!Tick,
             FP!Fail, FP!End
    <3>. QED
      BY <1>1, <1>5, <3>1 DEF FetchInv
  <2>. QED
    BY <2>1, <2>2
<1>9. (\A i \in DOMAIN log :
         log[i].answer.kind = "reply" => HonestOcsp(log[i].answer.body.says))'
  <2>. SUFFICES ASSUME NEW i \in DOMAIN log', log'[i].answer.kind = "reply"
                PROVE  HonestOcsp(log[i].answer.body.says)'
    OBVIOUS
  <2>1. log \in Seq(FP!AnyExchange) /\ DOMAIN log = 1..Len(log) /\ Len(log) \in Nat
    BY <1>3, FetchLog
  <2>2. \A k \in DOMAIN log : log[k].answer.kind = "reply" => HonestOcsp(log[k].answer.body.says)
    BY <1>1 DEF FetchInv
  <2>3. HonestOcsp(log'[i].answer.body.says)
    <3>1. CASE FP!Send
      <4>1. \/ log' = Append(log, [shape |-> FP!Shape(Len(log) + 1), id |-> request,
                                   answer |-> FP!NoAnswer])
            \/ log' = log
        BY <3>1 DEF FP!Send
      <4>2. FP!NoAnswer.kind # "reply"
        BY DEF FP!NoAnswer
      <4>3. i \in DOMAIN log /\ log'[i] = log[i]
        BY <2>1, <4>1, <4>2
      <4>. QED
        BY <2>2, <4>3
    <3>2. CASE FP!Deliver
      <4>1. PICK a \in HonestAnswers(input, request, clock) :
              log' = [log EXCEPT ![Len(log)].answer = a]
        BY <3>2 DEF FP!Deliver
      <4>2. fpc = "exchange"
        BY <3>2 DEF FP!Deliver
      <4>3. HonestOcsp(a.body.says)
        BY <1>1, <1>3, <4>2, AnswersHonest DEF FetchInv
      <4>4. i \in DOMAIN log /\ log[i] \in FP!AnyExchange
        BY <2>1, <4>1, ElementOfSeq
      <4>5. log'[i] = IF i = Len(log) THEN [log[i] EXCEPT !.answer = a] ELSE log[i]
        BY <4>1, <4>4
      <4>6. CASE i = Len(log)
        <5>1. log'[i].answer = a
          BY <4>4, <4>5, <4>6 DEF FP!AnyExchange
        <5>. QED
          BY <4>3, <5>1
      <4>. QED
        BY <2>2, <4>4, <4>5, <4>6
    <3>3. CASE ~FP!Send /\ ~FP!Deliver
      <4>1. log' = log
        BY <1>1, <3>3
           DEF FP!Next, FP!Work, FP!ReadInputs, FP!BuildRequest, FP!TimesOut, FP!HandleAnswer,
               FP!CheckResponse, FP!WriteFile, FP!ConnectionBreaks, FP!Kill, FP!Tick
      <4>. QED
        BY <2>2, <4>1
    <3>. QED
      BY <3>1, <3>2, <3>3
  <2>. QED
    BY <1>1, <1>3, <1>5, <2>3 DEF HonestOcsp, StatusAt, Given, IsWorld, OcspType
<1>10. FetchInv'
  BY <1>3, <1>4, <1>5, <1>7, <1>8, <1>9 DEF FetchInv
<1>11. CreateInv' /\ TransitInv' /\ VerifyInv'
  BY <1>1, <1>2, <1>7 DEF CreateInv, TransitInv, VerifyInv
<1>12. FreshInv'
  BY <1>1 DEF IInv, Fetching, FreshInv
<1>. QED
  BY <1>6, <1>10, <1>11, <1>12 DEF IInv

(* Whatever the fetch left on the disk is honest.                          *)
LEMMA StoredHonest ==
  ASSUME IInv, phase = "fetch"
  PROVE  HonestOcsp(Stored)
<1>1. Given /\ input.fetch /\ FP!IInv
      /\ \A i \in DOMAIN log :
           log[i].answer.kind = "reply" => HonestOcsp(log[i].answer.body.says)
  BY DEF IInv, FetchInv
<1>2. clock \in Nat /\ input.responderAhead \in Nat /\ IsWorld(input)
  BY <1>1 DEF Given, IsWorld
<1>3. CASE stored.state = "old"
  <2>1. input.old \in OcspType /\ input.old.producedAt <= input.responderAhead
        /\ (input.old.status = "good" => StatusAt(input, input.old.thisUpdate) = "good")
    BY <1>2 DEF IsWorld
  <2>2. input.old.producedAt \in Int
    BY <2>1 DEF OcspType
  <2>. QED
    BY <1>2, <1>3, <2>1, <2>2 DEF Stored, HonestOcsp
<1>4. CASE stored.state = "response"
  <2>1. /\ log # <<>> /\ stored.body = log[Len(log)].answer.body
        /\ log[Len(log)].answer.kind = "reply"
    BY <1>1, <1>4 DEF FP!IInv, FP!StoredIsServed, FP!Answer
  <2>2. Len(log) \in DOMAIN log
    BY <1>1, <2>1, FetchLog, EmptySeq
  <2>. QED
    BY <1>1, <1>4, <2>1, <2>2 DEF Stored
<1>5. CASE stored.state = "damaged"
  <2>1. \A o \in OcspType : [o EXCEPT !.empty = FALSE] \in OcspType
    BY DEF OcspType
  <2>2. [NoOcsp EXCEPT !.empty = FALSE].producedAt = 0
        /\ [NoOcsp EXCEPT !.empty = FALSE].status = "unknown"
    BY NoAnswerTyped
  <2>3. Stored = [NoOcsp EXCEPT !.empty = FALSE]
    BY <1>5 DEF Stored
  <2>. QED
    BY <1>2, <2>1, <2>2, <2>3, NoAnswerTyped DEF HonestOcsp
<1>. QED
  BY <1>1, <1>3, <1>4, <1>5 DEF FP!IInv, FP!OutInv

LEMMA HandOverKeeps == IInv /\ HandOver => IInv'
<1>. SUFFICES ASSUME IInv, HandOver PROVE IInv'
  OBVIOUS
<1>1. phase = "fetch" /\ phase' = "create" /\ order' = [order EXCEPT !.ocsp = Stored]
  BY DEF HandOver
<1>2. /\ input' = input /\ clock' = clock /\ policy' = policy
      /\ UNCHANGED <<cpc, built, captured, sigs, asked, out, outcome>> /\ UNCHANGED verifyVars
  BY DEF HandOver, fetchVars, verifyVars
<1>3. HonestOcsp(Stored)
  BY <1>1, StoredHonest
<1>4. Given /\ input.fetch /\ CP!InitFor(order, CP!Old) /\ VP!InitFor(zip, policy)
  BY <1>1 DEF IInv, FetchInv, TransitInv
<1>5. order' \in CP!OrderType /\ order'.signers = order.signers /\ order'.ocsp = Stored
  <2>1. CP!OcspType = OcspType
    BY DEF CP!OcspType, OcspType, CP!NoCert, NoCert
  <2>2. Stored \in CP!OcspType
    BY <1>3, <2>1 DEF HonestOcsp
  <2>3. order \in CP!OrderType
    BY <1>4 DEF Given
  <2>. QED
    BY <1>1, <2>2, <2>3 DEF CP!OrderType
<1>6. Given'
  BY <1>1, <1>2, <1>4, <1>5 DEF Given, IsWorld, StatusAt
<1>7. CP!InitFor(order, CP!Old)'
  BY <1>2, <1>4 DEF CP!InitFor, CP!Old, CP!NoSignature, CP!NoToken
<1>8. CP!IInv'
  <2>1. (order \in CP!OrderType /\ CP!InitFor(order, CP!Old))'
    BY <1>5, <1>7
  <2>. QED
    BY <2>1, CreateFresh, PTL
<1>9. HonestOcsp(order.ocsp)'
  BY <1>2, <1>3, <1>5 DEF HonestOcsp, StatusAt
<1>10. cpc' = "output" /\ sigs' = <<>> /\ VP!InitFor(zip, policy)'
  BY <1>2, <1>4 DEF CP!InitFor, VP!InitFor, verifyVars, VP!EmptyContainer, VP!EmptyMap
<1>11. CreateInv'
  BY <1>8, <1>9, <1>10 DEF CreateInv
<1>12. FetchInv' /\ TransitInv' /\ VerifyInv'
  BY <1>1, <1>10 DEF FetchInv, TransitInv, VerifyInv
<1>13. FreshInv'
  BY <1>1 DEF IInv, HandOver, FreshInv
<1>. QED
  BY <1>6, <1>11, <1>12, <1>13 DEF IInv

-----------------------------------------------------------------------------
(* The making of the container, and the time that passes.                  *)
LEMMA SameEntries ==
  ASSUME input' = input, order' = order, sigs' = sigs, fresh' = fresh
  PROVE  Entries' = Entries /\ Documents' = Documents
<1>1. Documents' = Documents
  BY DEF Documents, Values, Unsigned, Tokens, AnyToken, Stamped, AnyAnswer, Truthful, StatusAt
<1>. QED
  BY <1>1 DEF Entries

LEMMA WaitKeeps == IInv /\ Wait => IInv'
<1>. SUFFICES ASSUME IInv, Wait PROVE IInv'
  OBVIOUS
<1>1. /\ phase \in {"create", "transit"} /\ phase' = phase /\ input.fetch /\ input' = input
      /\ clock' = clock + 1 /\ order' = order /\ policy' = policy /\ fresh' = fresh
      /\ UNCHANGED createVars /\ UNCHANGED verifyVars
  BY DEF Wait, createVars, verifyVars
<1>2. Given /\ CP!IInv /\ HonestOcsp(order.ocsp) /\ VP!InitFor(zip, policy)
  BY <1>1 DEF IInv, CreateInv, TransitInv
<1>3. clock' \in Nat /\ clock' >= clock /\ clock \in Nat
  BY <1>1, <1>2 DEF Given
<1>4. Given'
  BY <1>1, <1>2, <1>3 DEF Given, IsWorld, StatusAt
<1>5. CP!IInv'
  <2>1. UNCHANGED CP!vars
    BY <1>1 DEF createVars, CP!vars
  <2>. QED
    BY <1>2, <2>1, CreateStep
<1>6. HonestOcsp(order.ocsp)'
  <2>1. order.ocsp.producedAt \in Int /\ input.responderAhead \in Nat
    BY <1>1, <1>2 DEF HonestOcsp, OcspType, Given, IsWorld
  <2>. QED
    BY <1>1, <1>2, <1>3, <2>1 DEF HonestOcsp, StatusAt
<1>7. CreateInv'
  <2>1. ASSUME NEW t, Timely(t)
        PROVE  /\ t.gen \in Int
               /\ t.gen - order.ocsp.producedAt >= input.tsaAhead - input.responderAhead
               /\ t.gen <= clock' + input.tsaAhead
    <3>1. input.tsaAhead \in Nat
      BY <1>1, <1>2 DEF Given, IsWorld
    <3>. QED
      BY <1>1, <1>3, <2>1, <3>1 DEF Timely
  <2>2. /\ cpc = "guard" => Timely(captured)
        /\ order.profile = "TS" => \A k \in DOMAIN sigs : Timely(sigs[k].usp.tsts[1])
    BY <1>1 DEF CreateInv, IInv
  <2>3. cpc = "guard" => Timely(captured)'
    BY <1>1, <2>1, <2>2 DEF Timely, createVars
  <2>4. ASSUME order.profile = "TS", NEW k \in DOMAIN sigs
        PROVE  Timely(sigs[k].usp.tsts[1])'
    <3>. DEFINE t == sigs[k].usp.tsts[1]
    <3>1. Timely(t)
      BY <2>2, <2>4
    <3>2. sigs' = sigs
      BY <1>1 DEF createVars
    <3>. QED
      BY <1>1, <2>1, <3>1, <3>2 DEF Timely
  <2>5. cpc' = cpc /\ sigs' = sigs
    BY <1>1 DEF createVars
  <2>. QED
    BY <1>1, <1>5, <1>6, <2>3, <2>4, <2>5 DEF CreateInv
<1>8. VP!InitFor(zip, policy)'
  BY <1>1, <1>2 DEF VP!InitFor, verifyVars, VP!EmptyContainer, VP!EmptyMap
<1>9. FetchInv' /\ VerifyInv' /\ FreshInv'
  BY <1>1 DEF FetchInv, VerifyInv, IInv, FreshInv, createVars
<1>10. TransitInv'
  <2>1. Entries' = Entries
    BY <1>1, SameEntries DEF createVars
  <2>. QED
    BY <1>1, <1>8, <2>1 DEF IInv, TransitInv, createVars, verifyVars
<1>. QED
  BY <1>4, <1>7, <1>9, <1>10 DEF IInv

LEMMA CreateFrame ==
  CP!Next => /\ order' = order
             /\ cpc' = "guard" => CP!TimeStamp
             /\ CP!TimeStamp \/ UNCHANGED captured \/ cpc' = "stamp"
             /\ \/ UNCHANGED sigs
                \/ CP!CheckTSDelay /\ sigs' = Append(sigs, built)
                \/ order.profile = "BES"
BY DEF CP!Next, CP!Work, CP!OpenOutput, CP!CheckOptions, CP!SignDocument, CP!TimeStamp,
   CP!CheckTSDelay, CP!WriteContainer, CP!Interrupt, CP!Fail

(* A time-stamp is given after the OCSP answer was produced.               *)
LEMMA StampIsTimely ==
  ASSUME Given, input.fetch, HonestOcsp(order.ocsp), NEW t, t.gen = clock + input.tsaAhead
  PROVE  Timely(t)
<1>1. /\ clock \in Nat /\ input.responderAhead \in Nat /\ input.tsaAhead \in Nat
      /\ order.ocsp.producedAt \in Int /\ order.ocsp.producedAt <= clock + input.responderAhead
  BY DEF Given, IsWorld, HonestOcsp, OcspType
<1>. QED
  BY <1>1 DEF Timely

LEMMA CreatingKeeps == IInv /\ Creating => IInv'
<1>. SUFFICES ASSUME IInv, Creating PROVE IInv'
  OBVIOUS
<1>1. /\ phase = "create" /\ phase' = phase /\ CP!Next
      /\ cpc = "stamp" /\ cpc' = "guard" => captured'.gen \in StampTimes
  BY SameCreate DEF Creating
<1>2. input' = input /\ clock' = clock /\ policy' = policy /\ UNCHANGED verifyVars
  BY DEF Creating, fetchVars, verifyVars
<1>3. order' = order
  BY <1>1, CreateFrame
<1>4. Given /\ CreateInv /\ CP!IInv /\ VP!InitFor(zip, policy)
  BY <1>1 DEF IInv, CreateInv, TransitInv
<1>5. Given'
  BY <1>1, <1>2, <1>3, <1>4 DEF Given, IsWorld, StatusAt
<1>6. CP!IInv'
  BY <1>1, <1>4, CreateStep
<1>7. ASSUME input.fetch PROVE HonestOcsp(order.ocsp)'
  BY <1>1, <1>2, <1>3, <1>4, <1>7 DEF CreateInv, HonestOcsp, StatusAt
<1>8. ASSUME input.fetch, cpc' = "guard" PROVE Timely(captured)'
  <2>1. cpc = "stamp"
    BY <1>1, <1>8, CreateFrame DEF CP!TimeStamp
  <2>2. captured'.gen = clock + input.tsaAhead
    BY <1>1, <1>8, <2>1 DEF StampTimes
  <2>3. HonestOcsp(order.ocsp)
    BY <1>1, <1>4, <1>8 DEF CreateInv
  <2>4. Timely(captured')
    BY <1>4, <1>8, <2>2, <2>3, StampIsTimely
  <2>. QED
    BY <1>2, <1>3, <2>4 DEF Timely
<1>9. ASSUME input.fetch, order.profile = "TS", NEW k \in DOMAIN sigs'
      PROVE  Timely(sigs[k].usp.tsts[1])'
  <2>1. \A h \in DOMAIN sigs : Timely(sigs[h].usp.tsts[1])
    BY <1>1, <1>4, <1>9 DEF CreateInv
  <2>2. Timely(sigs'[k].usp.tsts[1])
    <3>1. CASE UNCHANGED sigs
      BY <1>9, <2>1, <3>1
    <3>2. CASE CP!CheckTSDelay /\ sigs' = Append(sigs, built)
      <4>1. sigs \in Seq(CP!AnyFinished) /\ built = CP!TSDoc(Len(sigs) + 1, captured) /\ cpc = "guard"
        BY <1>4, <3>2 DEF CP!IInv, CP!SigsInv, CP!BuiltInv, CP!CheckTSDelay
      <4>2. built.usp.tsts[1] = captured
        <5>1. built = AddUnsignedProperties(Made(Len(sigs) + 1), captured, order.ocsp)
          BY <4>1, FinishedForm DEF Made
        <5>2. "usp" \in DOMAIN Made(Len(sigs) + 1)
          BY MadeForm
        <5>3. built.usp.tsts = <<captured>>
          BY <5>1, <5>2 DEF AddUnsignedProperties, Usp
        <5>. QED
          BY <5>3
      <4>3. Timely(captured)
        BY <1>1, <1>4, <1>9, <4>1 DEF CreateInv
      <4>4. \/ k \in DOMAIN sigs /\ sigs'[k] = sigs[k]
            \/ sigs'[k] = built
        BY <1>9, <3>2, <4>1
      <4>. QED
        BY <2>1, <4>2, <4>3, <4>4
    <3>. QED
      BY <1>1, <1>9, <3>1, <3>2, CreateFrame
  <2>. QED
    BY <1>2, <1>3, <2>2 DEF Timely
<1>10. CreateInv'
  BY <1>2, <1>3, <1>6, <1>7, <1>8, <1>9 DEF CreateInv
<1>11. VP!InitFor(zip, policy)'
  BY <1>2, <1>4 DEF VP!InitFor, verifyVars, VP!EmptyContainer, VP!EmptyMap
<1>12. FetchInv' /\ TransitInv' /\ VerifyInv'
  BY <1>1, <1>11 DEF FetchInv, TransitInv, VerifyInv
<1>13. FreshInv'
  BY <1>1 DEF IInv, Creating, FreshInv
<1>. QED
  BY <1>5, <1>10, <1>12, <1>13 DEF IInv

-----------------------------------------------------------------------------
(* In transit.                                                             *)
LEMMA NothingMade ==
  ASSUME Given, CreateInv, phase # "fetch", phase' \in {"transit", "verify"},
         UNCHANGED fetchVars, UNCHANGED createVars, policy' = policy
  PROVE  /\ Given' /\ FetchInv' /\ CreateInv'
         /\ FreshInv /\ fresh' = fresh =>
              FreshInv' /\ Entries' = Entries /\ Documents' = Documents
<1>1. input' = input /\ clock' = clock /\ order' = order /\ sigs' = sigs /\ cpc' = cpc /\ captured' = captured
  BY DEF fetchVars, createVars
<1>2. Given'
  BY <1>1 DEF Given, IsWorld, StatusAt
<1>3. CP!IInv'
  <2>1. UNCHANGED CP!vars
    BY DEF createVars, CP!vars
  <2>2. CP!IInv
    BY DEF CreateInv
  <2>. QED
    BY <2>1, <2>2, CreateStep
<1>4. CreateInv'
  BY <1>1, <1>3 DEF CreateInv, HonestOcsp, StatusAt, Timely
<1>5. fresh' = fresh => Documents' = Documents /\ Entries' = Entries
  BY <1>1, SameEntries
<1>6. FreshInv /\ fresh' = fresh => FreshInv'
  BY <1>1 DEF FreshInv
<1>. QED
  BY <1>2, <1>4, <1>5, <1>6 DEF FetchInv

LEMMA ShipKeeps == IInv /\ Ship => IInv'
<1>. SUFFICES ASSUME IInv, Ship PROVE IInv'
  OBVIOUS
<1>1. /\ phase = "create" /\ phase' = "transit" /\ outcome = "ok" /\ zip' = out.entries
      /\ UNCHANGED fetchVars /\ UNCHANGED createVars /\ policy' = policy
      /\ UNCHANGED <<vpc, pos, total, ctr, cerrs, todo, cur, errs, time, refIDs, report>>
  BY DEF Ship
<1>2. Given /\ CreateInv /\ CP!IInv /\ VP!InitFor(zip, policy) /\ Len(order.signers) <= 100
  BY <1>1 DEF IInv, Given, CreateInv, TransitInv
<1>3. Given' /\ FetchInv' /\ CreateInv' /\ FreshInv' /\ Entries' = Entries
  BY <1>1, <1>2, NothingMade DEF Ship, IInv
<1>4. zip' \in Seq(Entries) /\ outcome' = "ok"
  BY <1>1, <1>2, ContainerTyped DEF createVars, CreateInv
<1>5. VP!InitFor(zip, policy)'
  BY <1>1, <1>2 DEF VP!InitFor, VP!EmptyContainer, VP!EmptyMap
<1>6. TransitInv' /\ VerifyInv'
  BY <1>1, <1>3, <1>4, <1>5 DEF TransitInv, VerifyInv
<1>. QED
  BY <1>3, <1>6 DEF IInv

LEMMA Changed ==
  ASSUME NEW S, NEW s \in Seq(S), NEW i \in DOMAIN s, NEW v \in S
  PROVE  [s EXCEPT ![i] = v] \in Seq(S)
<1>1. DOMAIN s = 1..Len(s) /\ Len(s) \in Nat /\ \A j \in 1..Len(s) : s[j] \in S
  BY ElementOfSeq
<1>. QED
  BY <1>1

LEMMA Appendix ==
  ASSUME NEW S, NEW s \in Seq(S), NEW v \in S
  PROVE  Append(s, v) \in Seq(S)
BY AppendProperties

LEMMA Dropped ==
  ASSUME NEW S, NEW s \in Seq(S), NEW i \in DOMAIN s
  PROVE  SubSeq(s, 1, i - 1) \o SubSeq(s, i + 1, Len(s)) \in Seq(S)
<1>1. Len(s) \in Nat /\ i \in 1..Len(s) /\ \A j \in 1..Len(s) : s[j] \in S
  BY ElementOfSeq
<1>2. SubSeq(s, 1, i - 1) \in Seq(S)
  BY <1>1, SubSeqProperties
<1>3. SubSeq(s, i + 1, Len(s)) \in Seq(S)
  BY <1>1, SubSeqProperties
<1>. QED
  BY <1>2, <1>3, ConcatProperties

(* A change of one entry.                                                  *)
LEMMA EntryChanged ==
  ASSUME zip \in Seq(Entries), NEW i \in DOMAIN zip
  PROVE  /\ zip[i].kind = "file" =>
              /\ \A c \in Content : [zip EXCEPT ![i].data = c] \in Seq(Entries)
              /\ \A n \in Name : [zip EXCEPT ![i].name = n] \in Seq(Entries)
         /\ zip[i].kind = "manifest" =>
              \A rows \in Seq(AnyRow) : [zip EXCEPT ![i].rows = rows] \in Seq(Entries)
         /\ zip[i].kind = "signature" =>
              \A d \in Documents : [zip EXCEPT ![i].doc = d] \in Seq(Entries)
<1>1. zip[i] \in Entries
  BY ElementOfSeq
<1>2. ASSUME zip[i].kind = "file"
      PROVE  /\ \A c \in Content : [zip EXCEPT ![i].data = c] \in Seq(Entries)
             /\ \A n \in Name : [zip EXCEPT ![i].name = n] \in Seq(Entries)
  <2>1. zip[i] \in [kind : {"file"}, name : Name, data : Content]
    BY <1>1, <1>2, EntryKinds
  <2>2. \A c \in Content : [zip[i] EXCEPT !.data = c] \in Entries
    BY <2>1 DEF Entries
  <2>3. \A n \in Name : [zip[i] EXCEPT !.name = n] \in Entries
    BY <2>1 DEF Entries
  <2>. QED
    BY <2>2, <2>3, Changed
<1>3. ASSUME zip[i].kind = "manifest", NEW rows \in Seq(AnyRow)
      PROVE  [zip EXCEPT ![i].rows = rows] \in Seq(Entries)
  <2>1. zip[i] \in [kind : {"manifest"}, rows : Seq(AnyRow)]
    BY <1>1, <1>3, EntryKinds
  <2>2. [zip[i] EXCEPT !.rows = rows] \in Entries
    BY <2>1 DEF Entries
  <2>. QED
    BY <2>2, Changed
<1>4. ASSUME zip[i].kind = "signature", NEW d \in Documents
      PROVE  [zip EXCEPT ![i].doc = d] \in Seq(Entries)
  <2>1. zip[i] \in [kind : {"signature"}, key : 0..99, doc : Documents]
    BY <1>1, <1>4, EntryKinds
  <2>2. [zip[i] EXCEPT !.doc = d] \in Entries
    BY <2>1 DEF Entries
  <2>. QED
    BY <2>2, Changed
<1>. QED
  BY <1>2, <1>3, <1>4

(* A change of one signature document, field by field.                     *)
LEMMA DocumentChanged ==
  ASSUME NEW d \in Documents
  PROVE  /\ \A r \in Seq(Reference) : [d EXCEPT !.refs = r] \in Documents
         /\ \A p \in Properties : [d EXCEPT !.sp = p] \in Documents
         /\ \A p \in Properties, c \in Cert : [d EXCEPT !.sp = p, !.cert = c] \in Documents
         /\ \A r \in Seq(PropertiesReference) : [d EXCEPT !.spRefs = r] \in Documents
         /\ \A u \in Unsigned : [d EXCEPT !.usp = u] \in Documents
<1>. DEFINE A == Seq(Reference)  B == Seq(PropertiesReference)
<1>. HIDE DEF A, B
<1>1. \A r \in A : [d EXCEPT !.refs = r] \in Documents
  BY DEF Documents, A
<1>2. \A p \in Properties : [d EXCEPT !.sp = p] \in Documents
  BY DEF Documents
<1>3. \A p \in Properties, c \in Cert : [d EXCEPT !.sp = p, !.cert = c] \in Documents
  BY DEF Documents
<1>4. \A r \in B : [d EXCEPT !.spRefs = r] \in Documents
  BY DEF Documents, B
<1>5. \A u \in Unsigned : [d EXCEPT !.usp = u] \in Documents
  BY DEF Documents
<1>. QED
  BY <1>1, <1>2, <1>3, <1>4, <1>5 DEF A, B

LEMMA SignatureEntries ==
  ASSUME zip \in Seq(Entries), NEW i \in OfKind("signature")
  PROVE  i \in DOMAIN zip /\ zip[i].kind = "signature" /\ zip[i].doc \in Documents
<1>1. i \in DOMAIN zip /\ zip[i].kind = "signature"
  BY DEF OfKind
<1>2. zip[i] \in Entries
  BY <1>1, ElementOfSeq
<1>. QED
  BY <1>1, <1>2, EntryKinds

LEMMA DocumentWritten ==
  ASSUME zip \in Seq(Entries), NEW i \in OfKind("signature"), NEW d \in Documents,
         EditDocument(i, d)
  PROVE  zip' \in Seq(Entries)
<1>1. zip' = [zip EXCEPT ![i].doc = d]
  BY DEF EditDocument, Become, Change
<1>. QED
  BY <1>1, SignatureEntries, EntryChanged

LEMMA ReferenceEdited ==
  ASSUME zip \in Seq(Entries), EditReference
  PROVE  zip' \in Seq(Entries)
<1>1. PICK i \in OfKind("signature") : \E j \in DOMAIN zip[i].doc.refs :
        \/ \E c \in Content : EditDocument(i, [zip[i].doc EXCEPT !.refs[j].dig = c])
        \/ \E n \in Name    : EditDocument(i, [zip[i].doc EXCEPT !.refs[j].uri = n])
        \/ \E h \in DOMAIN zip[i].doc.refs :
             EditDocument(i, [zip[i].doc EXCEPT !.refs[j].id = zip[i].doc.refs[h].id])
  BY DEF EditReference
<1>. DEFINE d == zip[i].doc
<1>2. PICK j \in DOMAIN d.refs :
        \/ \E c \in Content : EditDocument(i, [d EXCEPT !.refs[j].dig = c])
        \/ \E n \in Name    : EditDocument(i, [d EXCEPT !.refs[j].uri = n])
        \/ \E h \in DOMAIN d.refs : EditDocument(i, [d EXCEPT !.refs[j].id = d.refs[h].id])
  BY <1>1
<1>3. d \in Documents
  BY SignatureEntries
<1>. HIDE DEF d
<1>4. d.refs \in Seq(Reference) /\ \A h \in DOMAIN d.refs : d.refs[h] \in Reference
  BY <1>3, ElementOfSeq DEF Documents
<1>5. ASSUME NEW r \in Reference
      PROVE  [d EXCEPT !.refs[j] = r] \in Documents
  <2>1. [d.refs EXCEPT ![j] = r] \in Seq(Reference)
    BY <1>2, <1>4, Changed
  <2>2. [d EXCEPT !.refs[j] = r] = [d EXCEPT !.refs = [d.refs EXCEPT ![j] = r]]
    OBVIOUS
  <2>. QED
    BY <1>3, <2>1, <2>2, DocumentChanged
<1>6. ASSUME NEW c \in Content PROVE [d EXCEPT !.refs[j].dig = c] \in Documents
  <2>1. [d.refs[j] EXCEPT !.dig = c] \in Reference
    BY <1>4 DEF Reference
  <2>2. [d EXCEPT !.refs[j].dig = c] = [d EXCEPT !.refs[j] = [d.refs[j] EXCEPT !.dig = c]]
    OBVIOUS
  <2>. QED
    BY <1>5, <2>1, <2>2
<1>7. ASSUME NEW n \in Name PROVE [d EXCEPT !.refs[j].uri = n] \in Documents
  <2>1. [d.refs[j] EXCEPT !.uri = n] \in Reference
    BY <1>4 DEF Reference
  <2>2. [d EXCEPT !.refs[j].uri = n] = [d EXCEPT !.refs[j] = [d.refs[j] EXCEPT !.uri = n]]
    OBVIOUS
  <2>. QED
    BY <1>5, <2>1, <2>2
<1>8. ASSUME NEW h \in DOMAIN d.refs PROVE [d EXCEPT !.refs[j].id = d.refs[h].id] \in Documents
  <2>1. [d.refs[j] EXCEPT !.id = d.refs[h].id] \in Reference
    BY <1>4 DEF Reference
  <2>2. [d EXCEPT !.refs[j].id = d.refs[h].id]
          = [d EXCEPT !.refs[j] = [d.refs[j] EXCEPT !.id = d.refs[h].id]]
    OBVIOUS
  <2>. QED
    BY <1>5, <2>1, <2>2
<1>. QED
  BY <1>2, <1>6, <1>7, <1>8, DocumentWritten

LEMMA PropertiesEdited ==
  ASSUME zip \in Seq(Entries), EditProperties
  PROVE  zip' \in Seq(Entries)
<1>1. PICK i \in OfKind("signature") :
        \/ \E t \in SigningTimes : EditDocument(i, [zip[i].doc EXCEPT !.sp.time = t])
        \/ \E j \in DOMAIN zip[i].doc.sp.dofs, m \in MediaType :
             EditDocument(i, [zip[i].doc EXCEPT !.sp.dofs[j].mime = m])
        \/ \E c \in Cert :
             EditDocument(i, [zip[i].doc EXCEPT !.sp.cert = c, !.cert = c])
        \/ EditDocument(i, [zip[i].doc EXCEPT !.spRefs[1].dig = zip[i].doc.sp])
  BY DEF EditProperties
<1>. DEFINE d == zip[i].doc
<1>2. \/ \E t \in SigningTimes : EditDocument(i, [d EXCEPT !.sp.time = t])
      \/ \E j \in DOMAIN d.sp.dofs, m \in MediaType :
           EditDocument(i, [d EXCEPT !.sp.dofs[j].mime = m])
      \/ \E c \in Cert : EditDocument(i, [d EXCEPT !.sp.cert = c, !.cert = c])
      \/ EditDocument(i, [d EXCEPT !.spRefs[1].dig = d.sp])
  BY <1>1
<1>3. d \in Documents
  BY SignatureEntries
<1>. HIDE DEF d
<1>4. d.sp \in Properties /\ d.spRefs \in Seq(PropertiesReference)
  BY <1>3 DEF Documents
<1>5. ASSUME NEW t \in SigningTimes PROVE [d EXCEPT !.sp.time = t] \in Documents
  <2>1. t \in Int
    BY RoundTripAssumption
  <2>2. [d.sp EXCEPT !.time = t] \in Properties
    BY <1>4, <2>1 DEF Properties
  <2>. QED
    BY <1>3, <2>2, DocumentChanged
<1>6. ASSUME NEW j \in DOMAIN d.sp.dofs, NEW m \in MediaType
      PROVE  [d EXCEPT !.sp.dofs[j].mime = m] \in Documents
  <2>1. d.sp.dofs \in Seq(Format)
    BY <1>4 DEF Properties
  <2>2. d.sp.dofs[j] \in Format
    BY <2>1, ElementOfSeq
  <2>3. [d.sp.dofs[j] EXCEPT !.mime = m] \in Format
    BY <2>2 DEF Format, AnyMedia
  <2>4. [d.sp.dofs EXCEPT ![j] = [d.sp.dofs[j] EXCEPT !.mime = m]] \in Seq(Format)
    BY <2>1, <2>3, Changed
  <2>. DEFINE dofs == [d.sp.dofs EXCEPT ![j] = [d.sp.dofs[j] EXCEPT !.mime = m]]
  <2>5. [d EXCEPT !.sp.dofs[j].mime = m] = [d EXCEPT !.sp = [d.sp EXCEPT !.dofs = dofs]]
    OBVIOUS
  <2>6. dofs \in Seq(Format)
    BY <2>4
  <2>. HIDE DEF dofs
  <2>7. [d.sp EXCEPT !.dofs = dofs] \in Properties
    BY <1>4, <2>6 DEF Properties
  <2>. QED
    BY <1>3, <2>5, <2>7, DocumentChanged
<1>7. ASSUME NEW c \in Cert PROVE [d EXCEPT !.sp.cert = c, !.cert = c] \in Documents
  <2>1. [d.sp EXCEPT !.cert = c] \in Properties
    BY <1>4 DEF Properties
  <2>2. [d EXCEPT !.sp.cert = c, !.cert = c] = [d EXCEPT !.sp = [d.sp EXCEPT !.cert = c], !.cert = c]
    OBVIOUS
  <2>. QED
    BY <1>3, <2>1, <2>2, DocumentChanged
<1>8. [d EXCEPT !.spRefs[1].dig = d.sp] \in Documents
  <2>. DEFINE refs == [d.spRefs EXCEPT ![1] = [d.spRefs[1] EXCEPT !.dig = d.sp]]
  <2>1. [d EXCEPT !.spRefs[1].dig = d.sp] = [d EXCEPT !.spRefs = refs]
    OBVIOUS
  <2>2. refs \in Seq(PropertiesReference)
    <3>1. CASE 1 \in DOMAIN d.spRefs
      <4>1. d.spRefs[1] \in PropertiesReference
        BY <1>4, <3>1, ElementOfSeq
      <4>2. [d.spRefs[1] EXCEPT !.dig = d.sp] \in PropertiesReference
        BY <1>4, <4>1 DEF PropertiesReference
      <4>. QED
        BY <1>4, <3>1, <4>2, Changed
    <3>2. CASE 1 \notin DOMAIN d.spRefs
      <4>1. DOMAIN d.spRefs = 1..Len(d.spRefs) /\ d.spRefs = [n \in 1..Len(d.spRefs) |-> d.spRefs[n]]
        BY <1>4
      <4>2. refs = d.spRefs
        BY <3>2, <4>1
      <4>. QED
        BY <1>4, <4>2
    <3>. QED
      BY <3>1, <3>2
  <2>. QED
    BY <1>3, <2>1, <2>2, DocumentChanged
<1>. QED
  BY <1>2, <1>5, <1>6, <1>7, <1>8, DocumentWritten

LEMMA StampTimesTyped ==
  ASSUME Given
  PROVE  StampTimes \subseteq Int
BY DEF Given, IsWorld, StampTimes

(* What responders say is true, and what is forged is not authentic.       *)
LEMMA OthersTruthful ==
  ASSUME Given
  PROVE  OtherAnswers \subseteq AnyAnswer
<1>1. CASE ~input.fetch
  BY <1>1 DEF Given, OtherAnswers, AnyAnswer
<1>2. CASE input.fetch
  <2>. SUFFICES ASSUME NEW o \in OtherAnswers PROVE o \in AnyAnswer
    OBVIOUS
  <2>1. PICK n \in DOMAIN input.subject : o \in Says(input, n, clock)
    BY <1>2 DEF OtherAnswers
  <2>2. HonestOcsp(o)
    BY <1>2, <2>1, SaysHonest
  <2>. QED
    BY <2>2 DEF HonestOcsp, AnyAnswer, Truthful
<1>. QED
  BY <1>1, <1>2

LEMMA ForgedTyped ==
  ASSUME NEW cert \in Cert \cup {NoCert}, NEW t \in Int
  PROVE  Forged(cert, t) \in AnyAnswer
<1>1. Ocsp("good", cert, t, t) \in OcspType
  BY DEF Ocsp, OcspType
<1>2. \A o \in OcspType :
        [o EXCEPT !.authentic = FALSE] \in OcspType /\ ~[o EXCEPT !.authentic = FALSE].authentic
  BY DEF OcspType
<1>. QED
  BY <1>1, <1>2 DEF Forged, AnyAnswer

LEMMA UnsignedEdited ==
  ASSUME Given, zip \in Seq(Entries), EditUnsigned
  PROVE  zip' \in Seq(Entries)
<1>1. PICK i \in OfKind("signature") :
        /\ zip[i].doc.usp.tsts # <<>>
        /\ \/ EditDocument(i, [zip[i].doc EXCEPT !.usp = NoUsp])
           \/ \E h \in OfKind("signature") :
                EditDocument(i, [zip[i].doc EXCEPT !.usp = zip[h].doc.usp])
           \/ \E g \in StampTimes : EditDocument(i, [zip[i].doc EXCEPT !.usp.tsts[1].gen = g,
                                                                     !.usp.tsts[1].trusted = FALSE])
           \/ \E o \in OtherAnswers \cup {Forged(zip[i].doc.cert, t) : t \in StampTimes} :
                EditDocument(i, [zip[i].doc EXCEPT !.usp.ocsp = o])
  BY Zenon DEF EditUnsigned
<1>. DEFINE d == zip[i].doc
<1>2. d \in Documents
  BY SignatureEntries
<1>3. CASE \E h \in OfKind("signature") : EditDocument(i, [zip[i].doc EXCEPT !.usp = zip[h].doc.usp])
  <2>1. PICK h \in OfKind("signature") : EditDocument(i, [d EXCEPT !.usp = zip[h].doc.usp])
    BY <1>3
  <2>2. zip[h].doc \in Documents
    BY SignatureEntries
  <2>3. zip[h].doc.usp \in Unsigned
    BY <2>2 DEF Documents
  <2>. HIDE DEF d
  <2>4. [d EXCEPT !.usp = zip[h].doc.usp] \in Documents
    BY <1>2, <2>3, DocumentChanged
  <2>. QED
    BY <2>1, <2>4, DocumentWritten
<1>4. CASE \E g \in StampTimes : EditDocument(i, [zip[i].doc EXCEPT !.usp.tsts[1].gen = g,
                                                                  !.usp.tsts[1].trusted = FALSE])
  <2>1. PICK g \in StampTimes : EditDocument(i, [d EXCEPT !.usp.tsts[1].gen = g,
                                                         !.usp.tsts[1].trusted = FALSE])
    BY <1>4
  <2>2. d.usp.tsts # <<>>
    BY <1>1
  <2>. HIDE DEF d
  <2>3. d.usp \in Unsigned /\ d.usp.tsts \in Seq(Tokens)
    BY <1>2 DEF Documents, Unsigned
  <2>4. 1 \in DOMAIN d.usp.tsts /\ d.usp.tsts[1] \in Tokens
    BY <2>2, <2>3, EmptySeq, ElementOfSeq
  <2>. DEFINE t    == [d.usp.tsts[1] EXCEPT !.gen = g]
              tsts == [d.usp.tsts EXCEPT ![1] = t]
              usp  == [d.usp EXCEPT !.tsts = tsts]
              e    == [d EXCEPT !.usp = usp]
  <2>5. e = [d EXCEPT !.usp.tsts[1].gen = g]
    OBVIOUS
  <2>6. "usp" \in DOMAIN d /\ "tsts" \in DOMAIN d.usp
    BY <1>2, <2>3 DEF Documents, Unsigned
  <2>7. [t EXCEPT !.trusted = FALSE] \in Tokens
    BY <2>4, StampTimesTyped DEF Tokens, AnyToken
  <2>. HIDE DEF t
  <2>8. tsts[1] = t /\ [tsts EXCEPT ![1] = [t EXCEPT !.trusted = FALSE]] \in Seq(Tokens)
    <3>. DEFINE v == [t EXCEPT !.trusted = FALSE]
    <3>1. v \in Tokens
      BY <2>7
    <3>. HIDE DEF v
    <3>2. [d.usp.tsts EXCEPT ![1] = v] \in Seq(Tokens)
      BY <2>3, <2>4, <3>1, Changed
    <3>3. [tsts EXCEPT ![1] = v] = [d.usp.tsts EXCEPT ![1] = v] /\ tsts[1] = t
      BY <2>4
    <3>. QED
      BY <3>2, <3>3 DEF v
  <2>. HIDE DEF tsts
  <2>9. /\ usp.tsts = tsts
        /\ [usp EXCEPT !.tsts = [tsts EXCEPT ![1] = [t EXCEPT !.trusted = FALSE]]] \in Unsigned
    BY <2>3, <2>8 DEF Unsigned
  <2>. HIDE DEF usp
  <2>10. /\ e.usp = usp
         /\ [e EXCEPT !.usp = [usp EXCEPT !.tsts = [tsts EXCEPT ![1] = [t EXCEPT !.trusted = FALSE]]]]
              \in Documents
    <3>. DEFINE u == [usp EXCEPT !.tsts = [tsts EXCEPT ![1] = [t EXCEPT !.trusted = FALSE]]]
    <3>1. u \in Unsigned
      BY <2>9
    <3>. HIDE DEF u
    <3>2. [e EXCEPT !.usp = u] = [d EXCEPT !.usp = u] /\ e.usp = usp
      BY <2>6
    <3>3. [d EXCEPT !.usp = u] \in Documents
      BY <1>2, <3>1, DocumentChanged
    <3>. QED
      BY <3>2, <3>3 DEF u
  <2>11. [d EXCEPT !.usp.tsts[1].gen = g, !.usp.tsts[1].trusted = FALSE]
           = [e EXCEPT !.usp.tsts[1].trusted = FALSE]
    BY <2>5
  <2>. HIDE DEF e
  <2>12. [e EXCEPT !.usp.tsts[1].trusted = FALSE]
           = [e EXCEPT !.usp = [usp EXCEPT !.tsts = [tsts EXCEPT ![1] = [t EXCEPT !.trusted = FALSE]]]]
    BY <2>8, <2>9, <2>10
  <2>. QED
    BY <2>1, <2>10, <2>11, <2>12, DocumentWritten
<1>5. CASE EditDocument(i, [zip[i].doc EXCEPT !.usp = NoUsp])
  <2>. HIDE DEF d
  <2>1. [d EXCEPT !.usp = NoUsp] \in Documents
    BY <1>2, NoUspTyped, DocumentChanged
  <2>. QED
    BY <1>5, <2>1, DocumentWritten DEF d
<1>6. CASE \E o \in OtherAnswers \cup {Forged(zip[i].doc.cert, t) : t \in StampTimes} :
             EditDocument(i, [zip[i].doc EXCEPT !.usp.ocsp = o])
  <2>1. PICK o \in OtherAnswers \cup {Forged(d.cert, t) : t \in StampTimes} :
          EditDocument(i, [d EXCEPT !.usp.ocsp = o])
    BY <1>6
  <2>. HIDE DEF d
  <2>2. d.usp \in Unsigned /\ d.cert \in Cert \cup {NoCert}
    BY <1>2 DEF Documents
  <2>3. o \in AnyAnswer
    BY <2>1, <2>2, OthersTruthful, ForgedTyped, StampTimesTyped
  <2>4. [d.usp EXCEPT !.ocsp = o] \in Unsigned
    BY <2>2, <2>3 DEF Unsigned
  <2>5. [d EXCEPT !.usp.ocsp = o] = [d EXCEPT !.usp = [d.usp EXCEPT !.ocsp = o]]
    OBVIOUS
  <2>6. [d EXCEPT !.usp.ocsp = o] \in Documents
    BY <1>2, <2>4, <2>5, DocumentChanged
  <2>. QED
    BY <2>1, <2>6, DocumentWritten
<1>. QED
  BY <1>1, <1>3, <1>4, <1>5, <1>6

LEMMA RowsEdited ==
  ASSUME zip \in Seq(Entries), EditRow \/ AddRow
  PROVE  zip' \in Seq(Entries)
<1>. DEFINE Paths == Name \cup {"META-INF/", NoName}
<1>1. ASSUME NEW i \in OfKind("manifest")
      PROVE  /\ i \in DOMAIN zip /\ zip[i].rows \in Seq(AnyRow) /\ DOMAIN zip[i].rows = 1..Len(zip[i].rows)
             /\ \A rows \in Seq(AnyRow) : [zip EXCEPT ![i].rows = rows] \in Seq(Entries)
  <2>1. i \in DOMAIN zip /\ zip[i].kind = "manifest"
    BY DEF OfKind
  <2>2. zip[i] \in Entries
    BY <2>1, ElementOfSeq
  <2>3. zip[i].rows \in Seq(AnyRow)
    BY <2>1, <2>2, EntryKinds
  <2>. QED
    BY <2>1, <2>3, EntryChanged
<1>2. CASE EditRow
  <2>1. PICK i \in OfKind("manifest") : \E j \in DOMAIN zip[i].rows :
          \E p \in Paths, m \in MediaType :
            \/ Become([zip EXCEPT ![i].rows[j].path = p])
            \/ Become([zip EXCEPT ![i].rows[j].mime = m])
    BY <1>2 DEF EditRow
  <2>2. PICK j \in DOMAIN zip[i].rows, p \in Paths, m \in MediaType :
          \/ zip' = [zip EXCEPT ![i].rows[j].path = p]
          \/ zip' = [zip EXCEPT ![i].rows[j].mime = m]
    BY <2>1 DEF Become, Change
  <2>3. zip[i].rows[j] \in AnyRow
    BY <1>1, <2>2, ElementOfSeq
  <2>4. [zip[i].rows[j] EXCEPT !.path = p] \in AnyRow /\ [zip[i].rows[j] EXCEPT !.mime = m] \in AnyRow
    BY <2>3 DEF AnyRow, AnyMedia
  <2>5. ASSUME NEW r \in AnyRow PROVE [zip EXCEPT ![i].rows[j] = r] \in Seq(Entries)
    <3>. DEFINE rows == [zip[i].rows EXCEPT ![j] = r]
    <3>1. [zip EXCEPT ![i].rows[j] = r] = [zip EXCEPT ![i].rows = rows]
      OBVIOUS
    <3>2. rows \in Seq(AnyRow)
      BY <1>1, <2>2, Changed
    <3>. QED
      BY <1>1, <3>1, <3>2
  <2>6. \/ zip' = [zip EXCEPT ![i].rows[j] = [zip[i].rows[j] EXCEPT !.path = p]]
        \/ zip' = [zip EXCEPT ![i].rows[j] = [zip[i].rows[j] EXCEPT !.mime = m]]
    BY <2>2
  <2>. QED
    BY <2>4, <2>5, <2>6
<1>3. CASE AddRow
  <2>1. PICK i \in OfKind("manifest"), p \in Name, m \in MediaType :
          zip' = [zip EXCEPT ![i].rows = Append(zip[i].rows, Row(p, m))]
    BY <1>3 DEF AddRow, Become, Change
  <2>2. Row(p, m) \in AnyRow
    BY DEF Row, AnyRow, AnyMedia
  <2>. QED
    BY <1>1, <2>1, <2>2, Appendix
<1>. QED
  BY <1>2, <1>3

LEMMA EditTyped ==
  ASSUME Given, zip \in Seq(Entries), Edit, ~Restamp
  PROVE  zip' \in Seq(Entries)
<1>1. CASE ReplaceData \/ Rename
  BY <1>1, EntryChanged DEF ReplaceData, Rename, Become, Change, OfKind
<1>2. CASE DropEntry
  BY <1>2, Dropped DEF DropEntry, Become, Change
<1>3. CASE AddFile \/ AddOther
  BY <1>3, Appendix, EntryTypes DEF AddFile, AddOther, Become, Change
<1>4. CASE RepeatEntry
  BY <1>4, Appendix, ElementOfSeq DEF RepeatEntry, Become, Change
<1>5. CASE MoveDocument
  <2>1. PICK i \in OfKind("signature"), j \in OfKind("signature") : EditDocument(i, zip[j].doc)
    BY <1>5 DEF MoveDocument
  <2>2. zip[j].doc \in Documents
    BY SignatureEntries
  <2>. QED
    BY <2>1, <2>2, DocumentWritten
<1>. QED
  BY <1>1, <1>2, <1>3, <1>4, <1>5, RowsEdited, ReferenceEdited, PropertiesEdited, UnsignedEdited
     DEF Edit

LEMMA EditFrame ==
  Edit => /\ phase = "transit" /\ phase' = phase /\ edits' = edits + 1
          /\ UNCHANGED fetchVars /\ UNCHANGED createVars /\ policy' = policy
          /\ UNCHANGED <<vpc, pos, total, ctr, cerrs, todo, cur, errs, time, refIDs, report>>
          /\ Restamp \/ fresh' = fresh
<1>. DEFINE Frame ==
       /\ phase = "transit" /\ phase' = phase /\ edits' = edits + 1
       /\ UNCHANGED fetchVars /\ UNCHANGED createVars /\ policy' = policy
       /\ UNCHANGED <<vpc, pos, total, ctr, cerrs, todo, cur, errs, time, refIDs, report>>
            Kept == Frame /\ fresh' = fresh
<1>0. ASSUME NEW z, Change(z) PROVE Frame
  BY <1>0 DEF Change
<1>. HIDE DEF Frame
<1>1. ASSUME NEW z, Become(z) PROVE Kept
  BY <1>0, <1>1 DEF Become
<1>. HIDE DEF Kept
<1>2. ReplaceData \/ Rename \/ DropEntry => Kept
  BY <1>1 DEF ReplaceData, Rename, DropEntry
<1>3. AddFile \/ RepeatEntry \/ AddOther => Kept
  BY <1>1 DEF AddFile, RepeatEntry, AddOther
<1>4. EditRow => Kept
  BY <1>1, Zenon DEF EditRow
<1>5. AddRow => Kept
  BY <1>1 DEF AddRow
<1>6. ASSUME NEW i, NEW doc, EditDocument(i, doc) PROVE Kept
  BY <1>1, <1>6 DEF EditDocument
<1>7. EditReference => Kept
  BY <1>6, Zenon DEF EditReference
<1>8. EditProperties => Kept
  BY <1>6, Zenon DEF EditProperties
<1>9. EditUnsigned \/ MoveDocument => Kept
  BY <1>6, Zenon DEF EditUnsigned, MoveDocument
<1>10. Restamp => Frame
  BY <1>0, Zenon DEF Restamp
<1>11. Edit => Frame /\ (Restamp \/ fresh' = fresh)
  BY <1>2, <1>3, <1>4, <1>5, <1>7, <1>8, <1>9, <1>10 DEF Edit, Kept
<1>. QED
  BY <1>11 DEF Frame

(* A new stamp adds to what an entry may hold.                             *)
LEMMA MoreStamps ==
  ASSUME input' = input, order' = order, sigs' = sigs, fresh \subseteq fresh'
  PROVE  /\ Values' = Values /\ AnyAnswer' = AnyAnswer /\ Tokens \subseteq Tokens'
         /\ Documents \subseteq Documents' /\ Entries \subseteq Entries'
<1>1. Values' = Values
  BY DEF Values
<1>2. AnyAnswer' = AnyAnswer
  BY DEF AnyAnswer, Truthful, StatusAt
<1>3. Tokens \subseteq Tokens'
  BY <1>1 DEF Tokens, AnyToken, Stamped
<1>4. Unsigned \subseteq Unsigned'
  <2>1. ASSUME NEW s \in Seq(Tokens) PROVE s \in Seq(Tokens')
    BY <1>3, ListOver, ElementOfSeq
  <2>. DEFINE S == Seq(Tokens)  R == Seq(Tokens')
  <2>2. S \subseteq R
    BY <2>1
  <2>. HIDE DEF S, R
  <2>3. [shape : {"ok", "absent"}, tsts : S, ocsp : AnyAnswer]
          \subseteq [shape : {"ok", "absent"}, tsts : R, ocsp : AnyAnswer]
    BY <2>2
  <2>. QED
    BY <1>2, <2>3 DEF Unsigned, S, R
<1>5. Documents \subseteq Documents'
  BY <1>1, <1>4 DEF Documents
<1>6. Entries \subseteq Entries'
  BY <1>5 DEF Entries
<1>. QED
  BY <1>1, <1>2, <1>3, <1>5, <1>6

LEMMA Restamped ==
  ASSUME Given, zip \in Seq(Entries), UNCHANGED fetchVars, UNCHANGED createVars, Restamp
  PROVE  zip' \in Seq(Entries')
<1>0. PICK i \in OfKind("signature"), g \in StampTimes, bound \in PolicyBound, trusted \in BOOLEAN :
        LET token == Token(zip[i].doc.sv, g, trusted, bound)
        IN  /\ \E o \in OtherAnswers \cup {zip[i].doc.usp.ocsp} :
                 zip' = [zip EXCEPT ![i].doc.usp = Usp(<<token>>, o)]
            /\ fresh' = fresh \cup {token}
  <2>1. ASSUME NEW i, NEW token,
               \E o \in OtherAnswers \cup {zip[i].doc.usp.ocsp} :
                 Change([zip EXCEPT ![i].doc.usp = Usp(<<token>>, o)])
        PROVE  \E o \in OtherAnswers \cup {zip[i].doc.usp.ocsp} :
                 zip' = [zip EXCEPT ![i].doc.usp = Usp(<<token>>, o)]
    BY <2>1 DEF Change
  <2>. QED
    BY <2>1, Zenon DEF Restamp
<1>1. PICK o \in OtherAnswers \cup {zip[i].doc.usp.ocsp} :
        zip' = [zip EXCEPT ![i].doc.usp = Usp(<<Token(zip[i].doc.sv, g, trusted, bound)>>, o)]
  BY <1>0
<1>. DEFINE d     == zip[i].doc
            token == Token(d.sv, g, trusted, bound)
            usp   == Usp(<<token>>, o)
<1>2. input' = input /\ order' = order /\ sigs' = sigs /\ fresh' = fresh \cup {token}
  BY <1>0 DEF fetchVars, createVars
<1>3. /\ Values' = Values /\ AnyAnswer' = AnyAnswer /\ Documents \subseteq Documents'
      /\ Entries \subseteq Entries'
  BY <1>2, MoreStamps
<1>4. d \in Documents /\ i \in DOMAIN zip /\ zip[i].kind = "signature" /\ zip[i] \in Entries
  BY SignatureEntries, ElementOfSeq
<1>5. d.sv \in Values /\ d.usp.ocsp \in AnyAnswer
  BY <1>4 DEF Documents, Unsigned
<1>6. g \in Int /\ bound \in Int
  BY StampTimesTyped, RoundTripAssumption DEF NoBound
<1>. HIDE DEF d
<1>7. token \in Tokens'
  BY <1>2, <1>3, <1>5, <1>6 DEF Token, Tokens, AnyToken
<1>8. o \in AnyAnswer
  BY <1>1, <1>5, OthersTruthful DEF d
<1>. HIDE DEF token
<1>9. usp \in Unsigned'
  <2>1. <<token>> \in Seq(Tokens')
    BY <1>7
  <2>. QED
    BY <1>3, <1>8, <2>1 DEF Usp, Unsigned
<1>. HIDE DEF usp
<1>10. [d EXCEPT !.usp = usp] \in Documents'
  BY <1>3, <1>4, <1>9 DEF Documents
<1>. DEFINE e == [zip[i] EXCEPT !.doc = [d EXCEPT !.usp = usp]]
<1>11. e \in Entries'
  <2>1. zip[i] \in [kind : {"signature"}, key : 0..99, doc : Documents]
    BY <1>4, EntryKinds
  <2>. QED
    BY <1>10, <2>1 DEF Entries
<1>12. zip' = [zip EXCEPT ![i] = e]
  BY <1>1 DEF d, token, usp
<1>. HIDE DEF e
<1>13. zip \in Seq(Entries')
  BY <1>3, ListOver, ElementOfSeq
<1>. QED
  BY <1>4, <1>11, <1>12, <1>13, Changed

(* The authority's clock has run on since the container was made.          *)
LEMMA StampedLater ==
  ASSUME Given, CreateInv, FreshInv, phase = "transit", phase' = phase,
         UNCHANGED fetchVars, UNCHANGED createVars, Restamp
  PROVE  FreshInv'
<1>1. PICK i \in OfKind("signature"), g \in StampTimes, bound \in PolicyBound, trusted \in BOOLEAN :
        fresh' = fresh \cup {Token(zip[i].doc.sv, g, trusted, bound)}
  BY Zenon DEF Restamp
<1>2. input' = input /\ order' = order /\ sigs' = sigs
  BY DEF fetchVars, createVars
<1>. SUFFICES ASSUME input.fetch, order.profile = "TS", NEW t \in fresh', NEW k \in DOMAIN sigs
              PROVE  t.gen \in Int /\ sigs[k].usp.tsts[1].gen <= t.gen
  BY <1>2 DEF FreshInv
<1>3. CASE t \in fresh
  BY <1>3 DEF FreshInv
<1>4. CASE t = Token(zip[i].doc.sv, g, trusted, bound)
  <2>1. t.gen = clock + input.tsaAhead
    BY <1>4 DEF Token, StampTimes
  <2>2. clock \in Nat /\ input.tsaAhead \in Nat
    BY DEF Given, IsWorld
  <2>3. Timely(sigs[k].usp.tsts[1])
    BY DEF CreateInv
  <2>. QED
    BY <2>1, <2>2, <2>3 DEF Timely
<1>. QED
  BY <1>1, <1>3, <1>4

LEMMA EditKeeps == IInv /\ Edit => IInv'
<1>. SUFFICES ASSUME IInv, Edit PROVE IInv'
  OBVIOUS
<1>2. /\ phase = "transit" /\ phase' = phase
      /\ UNCHANGED fetchVars /\ UNCHANGED createVars /\ policy' = policy
      /\ UNCHANGED <<vpc, pos, total, ctr, cerrs, todo, cur, errs, time, refIDs, report>>
      /\ Restamp \/ fresh' = fresh
  BY EditFrame
<1>3. /\ Given /\ CreateInv /\ FreshInv /\ VP!InitFor(zip, policy)
      /\ outcome = "ok" /\ zip \in Seq(Entries)
  BY <1>2 DEF IInv, TransitInv
<1>4. /\ Given' /\ FetchInv' /\ CreateInv'
      /\ fresh' = fresh => FreshInv' /\ Entries' = Entries
  BY <1>2, <1>3, NothingMade
<1>5. zip' \in Seq(Entries') /\ FreshInv'
  <2>1. CASE Restamp
    BY <1>2, <1>3, <2>1, Restamped, StampedLater
  <2>2. CASE ~Restamp
    BY <1>2, <1>3, <1>4, <2>2, EditTyped
  <2>. QED
    BY <2>1, <2>2
<1>6. VP!InitFor(zip, policy)'
  BY <1>2, <1>3 DEF VP!InitFor, VP!EmptyContainer, VP!EmptyMap
<1>7. outcome' = "ok"
  BY <1>2, <1>3 DEF createVars
<1>8. TransitInv' /\ VerifyInv'
  BY <1>2, <1>5, <1>6, <1>7 DEF TransitInv, VerifyInv
<1>. QED
  BY <1>4, <1>5, <1>8 DEF IInv

-----------------------------------------------------------------------------
(* Verification.                                                           *)
LEMMA DeliverKeeps == IInv /\ Deliver => IInv'
<1>. SUFFICES ASSUME IInv, Deliver PROVE IInv'
  OBVIOUS
<1>1. /\ phase = "transit" /\ phase' = "verify"
      /\ UNCHANGED fetchVars /\ UNCHANGED createVars /\ UNCHANGED verifyVars /\ policy' = policy
  BY DEF Deliver, verifyVars
<1>2. Given /\ CreateInv /\ CP!IInv /\ VP!InitFor(zip, policy) /\ outcome = "ok" /\ zip \in Seq(Entries)
  BY <1>1 DEF IInv, CreateInv, TransitInv
<1>3. Given' /\ FetchInv' /\ CreateInv' /\ FreshInv' /\ Entries' = Entries
  BY <1>1, <1>2, NothingMade DEF Deliver, IInv
<1>4. VP!ZipInv /\ VP!Typed
  BY <1>2, EntriesTyped DEF Given
<1>5. VP!IInv /\ VP!JInv
  BY <1>2, <1>4, VerifyFresh, VerdictFresh
<1>6. UNCHANGED VP!vars
  BY <1>1 DEF verifyVars, VP!vars, VP!input, VP!opening
<1>7. VP!IInv' /\ VP!JInv'
  BY <1>5, <1>6, VerifyStep, VerdictStep
<1>8. ctr'.sigDocs = VP!EmptyMap
  BY <1>1, <1>2 DEF verifyVars, VP!InitFor, VP!EmptyContainer
<1>9. VerifyInv'
  BY <1>7, <1>8 DEF VerifyInv, VP!EmptyMap
<1>10. TransitInv'
  BY <1>1, <1>2, <1>3 DEF TransitInv, createVars, verifyVars
<1>. QED
  BY <1>3, <1>9, <1>10 DEF IInv

(* A check on a signature leaves the archive and what was read from it.    *)
LEMMA CheckFrame ==
  VP!VerifySignature => zip' = zip /\ policy' = policy /\ ctr' = ctr
<1>1. VP!VerifySignature => UNCHANGED VP!input /\ UNCHANGED VP!opening
  BY DEF VP!VerifySignature, VP!CheckShape, VP!CheckKeyInfoCert, VP!CheckObject,
     VP!CheckSigningTime, VP!CheckChain, VP!CheckSignatureValue, VP!CheckReferences,
     VP!CheckSignedProperties, VP!CheckUSPShape, VP!CheckTimestamp, VP!CheckOCSPResponse,
     VP!CheckDelay
<1>. QED
  BY <1>1 DEF VP!input, VP!opening

(* What is read from the archive is in the archive.                        *)
LEMMA DocumentsKept ==
  ASSUME VP!IInv, VP!Next, zip \in Seq(Entries),
         \A k \in DOMAIN ctr.sigDocs : ctr.sigDocs[k] \in Documents
  PROVE  \A k \in DOMAIN ctr'.sigDocs : ctr'.sigDocs[k] \in Documents
<1>1. DOMAIN ctr = DOMAIN VP!EmptyContainer
  BY DEF VP!IInv, VP!OpenInv
<1>2. {"sigDocs", "media", "rows", "files", "hasManifest"} \subseteq DOMAIN ctr
  BY <1>1 DEF VP!EmptyContainer
<1>3. CASE VP!ReadEntry
  <2>a. pos \in Nat \ {0}
    BY Zenon DEF VP!IInv, VP!TypeOK
  <2>b. pos <= Len(zip)
    BY <1>3, Zenon DEF VP!ReadEntry
  <2>c. ASSUME ctr' # ctr PROVE VP!Admitted(zip[pos]) /\ ctr' = VP!WithEntry(zip[pos])
    BY <1>3, <2>c, Zenon DEF VP!ReadEntry
  <2>. DEFINE e == zip[pos]
  <2>1. pos \in DOMAIN zip
    BY <2>a, <2>b, LenProperties
  <2>2. e \in Entries
    BY <2>1, ElementOfSeq
  <2>3. e.kind = "signature" => e.doc \in Documents
    BY <2>2, EntryKinds
  <2>4. \/ ctr' = ctr
        \/ e.kind \in {"manifest", "signature", "file"} /\ ctr' = VP!WithEntry(e)
    BY <2>c DEF VP!Admitted
  <2>. HIDE DEF e
  <2>5. CASE e.kind = "signature" /\ ctr' = VP!WithEntry(e)
    <3>1. VP!WithEntry(e) = [ctr EXCEPT !.sigDocs = VP!Put(ctr.sigDocs, e.key, e.doc)]
      BY <2>5 DEF VP!WithEntry
    <3>2. ctr'.sigDocs = VP!Put(ctr.sigDocs, e.key, e.doc)
      BY <1>2, <2>5, <3>1
    <3>. QED
      BY <2>3, <2>5, <3>2 DEF VP!Put
  <2>6. CASE e.kind = "file" /\ ctr' = VP!WithEntry(e)
    <3>1. VP!WithEntry(e) = [ctr EXCEPT !.files = VP!Put(ctr.files, e.name, e.data)]
      BY <2>6 DEF VP!WithEntry
    <3>2. ctr'.sigDocs = ctr.sigDocs
      BY <1>2, <2>6, <3>1
    <3>. QED
      BY <3>2
  <2>7. CASE e.kind = "manifest" /\ ctr' = VP!WithEntry(e)
    <3>1. VP!WithEntry(e) = [ctr EXCEPT !.hasManifest = TRUE, !.rows = e.rows]
      BY <2>7 DEF VP!WithEntry
    <3>2. ctr'.sigDocs = ctr.sigDocs
      BY <1>2, <2>7, <3>1
    <3>. QED
      BY <3>2
  <2>. QED
    BY <2>4, <2>5, <2>6, <2>7
<1>4. CASE VP!ParseManifest
  <2>1. ctr'.sigDocs = ctr.sigDocs
    BY <1>2, <1>4 DEF VP!ParseManifest
  <2>. QED
    BY <2>1
<1>5. CASE ~VP!ReadEntry /\ ~VP!ParseManifest
  <2>1. CASE VP!OpenMimetype \/ VP!CheckStructure
    BY <2>1 DEF VP!OpenMimetype, VP!CheckStructure
  <2>2. CASE VP!NextSignature \/ VP!FinishSignature \/ VP!Conclude
    BY <2>2 DEF VP!NextSignature, VP!FinishSignature, VP!Conclude, VP!opening
  <2>3. CASE VP!VerifySignature
    BY <2>3, CheckFrame
  <2>. QED
    BY <1>5, <2>1, <2>2, <2>3 DEF VP!Next, VP!OpenContainer
<1>. QED
  BY <1>3, <1>4, <1>5

LEMMA VerifyFrame ==
  VP!Next => zip' = zip /\ policy' = policy
<1>1. CASE VP!OpenContainer
  <2>1. UNCHANGED VP!input
    BY <1>1, Zenon
       DEF VP!OpenContainer, VP!OpenMimetype, VP!ReadEntry, VP!CheckStructure, VP!ParseManifest
  <2>. QED
    BY <2>1 DEF VP!input
<1>2. CASE VP!VerifySignature
  BY <1>2, CheckFrame
<1>3. CASE VP!NextSignature \/ VP!FinishSignature \/ VP!Conclude
  BY <1>3 DEF VP!NextSignature, VP!FinishSignature, VP!Conclude, VP!opening, VP!input
<1>. QED
  BY <1>1, <1>2, <1>3 DEF VP!Next

LEMMA VerifyingKeeps == IInv /\ Verifying => IInv'
<1>. SUFFICES ASSUME IInv, Verifying PROVE IInv'
  OBVIOUS
<1>1. phase = "verify" /\ phase' = phase /\ UNCHANGED fetchVars /\ UNCHANGED createVars /\ V!Next
  BY DEF Verifying
<1>2. [VP!Next]_VP!vars
  BY <1>1, SameVerify
<1>3. zip' = zip /\ policy' = policy
  BY <1>2, VerifyFrame DEF VP!vars, VP!input
<1>4. /\ Given /\ CreateInv /\ VP!IInv /\ VP!JInv /\ outcome = "ok" /\ zip \in Seq(Entries)
      /\ \A k \in DOMAIN ctr.sigDocs : ctr.sigDocs[k] \in Documents
  BY <1>1 DEF IInv, TransitInv, VerifyInv
<1>5. /\ Given' /\ FetchInv' /\ CreateInv' /\ FreshInv'
      /\ Entries' = Entries /\ Documents' = Documents
  BY <1>1, <1>3, <1>4, NothingMade DEF Verifying, IInv
<1>6. VP!IInv' /\ VP!JInv'
  BY <1>2, <1>4, VerifyStep, VerdictStep
<1>7. \A k \in DOMAIN ctr'.sigDocs : ctr'.sigDocs[k] \in Documents
  BY <1>2, <1>4, DocumentsKept DEF VP!vars, VP!opening
<1>8. TransitInv' /\ VerifyInv'
  BY <1>1, <1>3, <1>4, <1>5, <1>6, <1>7 DEF TransitInv, VerifyInv, createVars
<1>. QED
  BY <1>5, <1>8 DEF IInv

LEMMA NextIInv == IInv /\ [Next]_vars => IInv'
<1>. SUFFICES ASSUME IInv, [Next]_vars PROVE IInv'
  OBVIOUS
<1>1. CASE UNCHANGED vars
  <2>1. /\ UNCHANGED fetchVars /\ UNCHANGED createVars /\ UNCHANGED verifyVars
        /\ phase' = phase /\ fresh' = fresh
    BY <1>1 DEF vars
  <2>2. CP!vars' = CP!vars /\ VP!vars' = VP!vars /\ FP!vars' = FP!vars
    BY <2>1 DEF fetchVars, createVars, verifyVars, CP!vars, VP!vars, FP!vars, VP!input, VP!opening
  <2>3. Given'
    BY <2>1 DEF IInv, Given, IsWorld, StatusAt, fetchVars, createVars, verifyVars
  <2>4. FetchInv'
    <3>1. FP!IInv => FP!IInv'
      BY <2>2, FetchStep
    <3>2. CP!InitFor(order, CP!Old) => CP!InitFor(order, CP!Old)'
      BY <2>1 DEF createVars, CP!InitFor, CP!Old, CP!NoSignature, CP!NoToken
    <3>. QED
      BY <2>1, <3>1, <3>2 DEF IInv, FetchInv, fetchVars, HonestOcsp, StatusAt
  <2>5. CreateInv'
    <3>1. CP!IInv => CP!IInv'
      BY <2>2, CreateStep
    <3>. QED
      BY <2>1, <3>1 DEF IInv, CreateInv, fetchVars, createVars, HonestOcsp, StatusAt, Timely
  <2>6. Documents' = Documents /\ Entries' = Entries
    BY <2>1, SameEntries DEF fetchVars, createVars
  <2>7. TransitInv'
    <3>1. VP!InitFor(zip, policy) => VP!InitFor(zip, policy)'
      BY <2>1 DEF verifyVars, VP!InitFor, VP!EmptyContainer, VP!EmptyMap
    <3>. QED
      BY <2>1, <2>6, <3>1 DEF IInv, TransitInv, createVars, verifyVars
  <2>8. VerifyInv'
    <3>1. VP!IInv /\ VP!JInv => VP!IInv' /\ VP!JInv'
      BY <2>2, VerifyStep, VerdictStep
    <3>. QED
      BY <2>1, <2>6, <3>1 DEF IInv, VerifyInv, verifyVars
  <2>9. FreshInv'
    BY <2>1 DEF IInv, FreshInv, fetchVars, createVars
  <2>. QED
    BY <2>3, <2>4, <2>5, <2>7, <2>8, <2>9 DEF IInv
<1>2. CASE Next
  BY <1>2, FetchingKeeps, HandOverKeeps, WaitKeeps, CreatingKeeps, ShipKeeps, EditKeeps,
     DeliverKeeps, VerifyingKeeps DEF Next
<1>. QED
  BY <1>1, <1>2

LEMMA Invariance == Spec => []IInv
BY InitIInv, NextIInv, PTL DEF Spec

-----------------------------------------------------------------------------
(* The results.  The stamp of a container that was made has passed the     *)
(* guard, and was given after the answer.                                  *)
LEMMA ContainerIsMade ==
  ASSUME IInv, out.state = "container"
  PROVE  phase # "fetch" /\ CP!IInv /\ CP!ContainerIsFinished
<1>1. phase # "fetch"
  <2>1. CP!Old.state # "container"
    BY DEF CP!Old
  <2>2. CP!InitFor(order, CP!Old) => out = CP!Old
    BY DEF CP!InitFor
  <2>. QED
    BY <2>1, <2>2 DEF IInv, FetchInv
<1>2. CP!IInv
  BY <1>1 DEF IInv, CreateInv
<1>. QED
  BY <1>1, <1>2, CreateFinished

(* A stamp in a TS signature of the container: its time and what it is of. *)
LEMMA StampFacts ==
  ASSUME CP!IInv, order.profile = "TS", NEW k \in DOMAIN sigs
  PROVE  /\ sigs[k].usp.tsts = <<sigs[k].usp.tsts[1]>>
         /\ sigs[k].usp.tsts[1].gen \in Int
         /\ sigs[k].usp.tsts[1].imprint = sigs[k].sv
         /\ sigs[k].usp.tsts[1].gen <= order.ocsp.producedAt
<1>1. PICK gen \in GenTime, bound \in PolicyBound, trusted \in BOOLEAN :
        LET token == Token(Made(k).sv, gen, trusted, bound)
        IN  /\ sigs[k].usp.tsts[1] = token /\ sigs[k].usp.tsts = <<token>>
            /\ sigs[k].sv = Made(k).sv
  BY StampedForm
<1>2. /\ sigs[k].usp.tsts = <<sigs[k].usp.tsts[1]>>
      /\ sigs[k].usp.tsts[1].gen = gen /\ sigs[k].usp.tsts[1].bound = bound
      /\ sigs[k].usp.tsts[1].imprint = sigs[k].sv
  BY <1>1 DEF Token
<1>3. gen \in Nat /\ bound \in Int /\ order.tsDelay \in Int
  BY RoundTripAssumption, OrderTyped, OrderFacts DEF NoBound
<1>4. CP!TimeStamped(sigs[k])
  BY FinishedDocuments
<1>5. order.ocsp.producedAt \in gen .. (gen + (IF order.tsDelay > 0 THEN order.tsDelay ELSE bound))
  BY <1>2, <1>4 DEF CP!TimeStamped
<1>. QED
  BY <1>2, <1>3, <1>5

(* README.md's order, the answer before the container, meets the guard of  *)
(* checkCreateTSDelay only within what the two clocks differ by: a stamp   *)
(* in the container is not later than the stored answer's producedAt, nor  *)
(* earlier by more than the responder's clock is ahead of the authority's. *)
THEOREM StampsMeetTheAnswer == Spec => []FetchedFirst
<1>1. IInv => FetchedFirst
  <2>. SUFFICES ASSUME IInv, out.state = "container", order.profile = "TS", input.fetch,
                       NEW k \in DOMAIN sigs
                PROVE  sigs[k].usp.tsts[1].gen - order.ocsp.producedAt
                         \in (input.tsaAhead - input.responderAhead)..0
    BY DEF FetchedFirst
  <2>1. phase # "fetch" /\ CP!IInv
    BY ContainerIsMade
  <2>2. sigs[k].usp.tsts[1].gen \in Int /\ sigs[k].usp.tsts[1].gen <= order.ocsp.producedAt
    BY <2>1, StampFacts
  <2>3. Timely(sigs[k].usp.tsts[1])
    BY <2>1 DEF IInv, CreateInv
  <2>4. order.ocsp.producedAt \in Int
    BY <2>1, OrderTyped, OrderFacts DEF OcspType
  <2>5. input.tsaAhead \in Int /\ input.responderAhead \in Int
    BY DEF IInv, Given, IsWorld
  <2>. QED
    BY <2>2, <2>3, <2>4, <2>5 DEF Timely
<1>. QED
  BY <1>1, Invariance, PTL

-----------------------------------------------------------------------------
(* A document that is accepted was made by a signer, up to what its        *)
(* signature value does not cover.                                         *)
LEMMA AcceptedDocument ==
  ASSUME IInv, NEW i \in DOMAIN report.sigs, report.sigs[i].ok
  PROVE  /\ ctr.sigDocs[report.sigs[i].key] \in Documents
         /\ VP!Accepts(ctr.sigDocs[report.sigs[i].key])
         /\ phase # "fetch" /\ CP!IInv /\ VP!IInv /\ VP!JInv
<1>1. phase = "verify"
  <2>1. VP!InitFor(zip, policy) => DOMAIN report.sigs = {}
    BY DEF VP!InitFor
  <2>. QED
    BY <2>1 DEF IInv, TransitInv
<1>2. CP!IInv /\ VP!IInv /\ VP!JInv /\ \A k \in DOMAIN ctr.sigDocs : ctr.sigDocs[k] \in Documents
  BY <1>1 DEF IInv, CreateInv, VerifyInv
<1>3. report.sigs[i].key \in DOMAIN ctr.sigDocs
  <2>1. VP!TypeOK
    BY <1>2 DEF VP!IInv
  <2>. QED
    BY <2>1, Zenon DEF VP!TypeOK
<1>4. VP!Accepts(ctr.sigDocs[report.sigs[i].key])
  <2>1. VP!VerdictInv
    BY <1>2 DEF VP!JInv
  <2>. QED
    BY <2>1 DEF VP!VerdictInv
<1>. QED
  BY <1>1, <1>2, <1>3, <1>4

(* A stamp the authority gave, and the first one of a signer.              *)
LEMMA StampOf ==
  ASSUME CP!IInv, FreshInv, NEW sig, sig.sv \in Values,
         NEW tst, tst.imprint = sig.sv, Stamped(tst) \/ tst \in fresh
  PROVE  \E k \in DOMAIN sigs :
           /\ sigs[k].sv = sig.sv /\ tst \in Range(sigs[k].usp.tsts) \cup fresh
           /\ input.fetch => \A t \in Range(sigs[k].usp.tsts) : t.gen <= tst.gen
<1>1. \A k \in DOMAIN sigs :
        Range(sigs[k].usp.tsts)
          = IF order.profile = "TS" THEN {sigs[k].usp.tsts[1]} ELSE {}
  <2>. TAKE k \in DOMAIN sigs
  <2>1. CASE order.profile = "TS"
    <3>. DEFINE t == sigs[k].usp.tsts[1]
    <3>1. sigs[k].usp.tsts = <<t>>
      BY <2>1, StampFacts
    <3>. HIDE DEF t
    <3>2. Range(<<t>>) = {t}
      BY DEF Range
    <3>. QED
      BY <2>1, <3>1, <3>2 DEF t
  <2>2. CASE order.profile # "TS"
    <3>1. sigs[k].usp = NoUsp
      BY <2>2, FinishedDocuments, MadeForm
    <3>. QED
      BY <2>2, <3>1 DEF NoUsp, Range
  <2>. QED
    BY <2>1, <2>2
<1>2. CASE Stamped(tst)
  <2>1. PICK k \in DOMAIN sigs : tst = sigs[k].usp.tsts[1]
    BY <1>2 DEF Stamped
  <2>2. order.profile = "TS"
    BY <1>2 DEF Stamped
  <2>3. sigs[k].sv = sig.sv /\ tst.gen \in Int
    BY <2>1, <2>2, StampFacts
  <2>. QED
    BY <1>1, <2>1, <2>2, <2>3
<1>3. CASE tst \in fresh
  <2>1. PICK k \in DOMAIN sigs : sigs[k].sv = sig.sv
    BY DEF Values
  <2>2. input.fetch => \A t \in Range(sigs[k].usp.tsts) : t.gen <= tst.gen
    BY <1>1, <1>3 DEF FreshInv
  <2>. QED
    BY <1>3, <2>1, <2>2
<1>. QED
  BY <1>2, <1>3

(* ... and carries a stamp of the authority, not later than an answer that *)
(* is good and no older than the policy takes.                             *)
LEMMA AcceptedStamp ==
  ASSUME IInv, NEW i \in DOMAIN report.sigs, report.sigs[i].ok, policy.profile = "TS"
  PROVE  LET sig == ctr.sigDocs[report.sigs[i].key]
             o   == sig.usp.ocsp
         IN  /\ \E tst : /\ tst.trusted /\ tst.imprint = sig.sv
                         /\ report.sigs[i].time = tst.gen
                         /\ Stamped(tst) \/ tst \in fresh
             /\ sig.sv \in Values
             /\ report.sigs[i].time \in Int
             /\ report.sigs[i].time <= o.producedAt
             /\ o \in AnyAnswer /\ o.authentic /\ o.status = "good"
             /\ o.producedAt - o.thisUpdate \in 0..policy.maxAge
<1>. DEFINE sig == ctr.sigDocs[report.sigs[i].key]
<1>. DEFINE tst == VP!TokenOf(sig.usp)
<1>1. sig \in Documents /\ VP!Accepts(sig) /\ CP!IInv /\ VP!IInv
  BY AcceptedDocument
<1>2. report.sigs[i].time = tst.gen
  <2>1. VP!ReportedTime
    BY <1>1 DEF VP!IInv
  <2>. QED
    BY <2>1 DEF VP!ReportedTime
<1>. HIDE DEF sig
<1>3. VP!AcceptsStamp(sig)
  BY <1>1 DEF VP!Accepts
<1>4. ~tst.empty /\ tst.trusted /\ tst.imprint = sig.sv
  BY <1>3 DEF VP!AcceptsStamp, VP!UspOK, VP!UspFound, VP!TimestampOK
<1>5. sig.usp \in Unsigned
  BY <1>1 DEF Documents
<1>6. tst \in Tokens
  <2>1. sig.usp.tsts \in Seq(Tokens)
    BY <1>5 DEF Unsigned
  <2>2. sig.usp.tsts # <<>>
    BY <1>4 DEF VP!TokenOf, VP!NoToken, VP!Token
  <2>3. Len(sig.usp.tsts) \in 1..Len(sig.usp.tsts)
    BY <2>1, <2>2, EmptySeq, LenProperties
  <2>4. sig.usp.tsts[Len(sig.usp.tsts)] \in Tokens
    BY <2>1, <2>3, ElementOfSeq
  <2>. QED
    BY <2>2, <2>4 DEF VP!TokenOf
<1>. HIDE DEF tst
<1>7. tst.gen \in Int /\ tst.bound \in Int /\ (Stamped(tst) \/ tst \in fresh)
  BY <1>4, <1>6 DEF Tokens, AnyToken
<1>8. sig.sv \in Values /\ sig.usp.ocsp \in AnyAnswer
  BY <1>1, <1>5 DEF Documents, Unsigned
<1>. DEFINE o == sig.usp.ocsp
<1>9. o.authentic /\ o.status = "good" /\ o.producedAt - o.thisUpdate \in 0..policy.maxAge
  BY <1>3 DEF VP!AcceptsStamp, VP!OcspOK
<1>10. tst.gen <= o.producedAt
  <2>1. PICK bound : VP!TsDelayOK(o.producedAt, tst.gen, bound)
    BY <1>3 DEF VP!AcceptsStamp, VP!DelayOK, tst
  <2>2. o.producedAt \in Int
    BY <1>8 DEF AnyAnswer, OcspType
  <2>. QED
    BY <1>7, <2>1, <2>2 DEF VP!TsDelayOK
<1>. HIDE DEF o
<1>11. /\ \E t : t.trusted /\ t.imprint = sig.sv /\ report.sigs[i].time = t.gen
               /\ (Stamped(t) \/ t \in fresh)
       /\ report.sigs[i].time \in Int /\ report.sigs[i].time <= o.producedAt
  BY <1>2, <1>4, <1>7, <1>10
<1>. QED
  BY <1>8, <1>9, <1>11 DEF sig, o

(* Whatever is done in transit without a signer's, the authority's or the  *)
(* responder's key, new stamps and other answers among it, the time that   *)
(* asice verify reports for a TS signature it accepts is that of a token   *)
(* the authority gave over this very signature value: when the container   *)
(* was made or, never earlier than that, on its way.  It is not later than *)
(* the OCSP answer beside it.                                              *)
THEOREM TimeIsTheAuthoritys == Spec => []ReportedTimeIsStamped
<1>1. IInv => ReportedTimeIsStamped
  <2>. SUFFICES ASSUME IInv, NEW i \in DOMAIN report.sigs, report.sigs[i].ok,
                       policy.profile = "TS"
                PROVE  LET sig == ctr.sigDocs[report.sigs[i].key]
                       IN  \E k \in DOMAIN sigs :
                             /\ sigs[k].sv = sig.sv
                             /\ \E t \in Range(sigs[k].usp.tsts) \cup fresh :
                                  t.trusted /\ t.imprint = sig.sv /\ report.sigs[i].time = t.gen
                             /\ input.fetch =>
                                  \A t \in Range(sigs[k].usp.tsts) : t.gen <= report.sigs[i].time
                             /\ report.sigs[i].time <= sig.usp.ocsp.producedAt
    BY DEF ReportedTimeIsStamped
  <2>. DEFINE sig == ctr.sigDocs[report.sigs[i].key]
  <2>1. sig.sv \in Values /\ report.sigs[i].time <= sig.usp.ocsp.producedAt
    BY AcceptedStamp
  <2>2. PICK tst : /\ tst.trusted /\ tst.imprint = sig.sv /\ report.sigs[i].time = tst.gen
                   /\ Stamped(tst) \/ tst \in fresh
    BY AcceptedStamp
  <2>3. CP!IInv /\ FreshInv
    BY AcceptedDocument DEF IInv
  <2>. HIDE DEF sig
  <2>4. PICK k \in DOMAIN sigs :
          /\ sigs[k].sv = sig.sv /\ tst \in Range(sigs[k].usp.tsts) \cup fresh
          /\ input.fetch => \A t \in Range(sigs[k].usp.tsts) : t.gen <= tst.gen
    BY <2>1, <2>2, <2>3, StampOf
  <2>. QED
    BY <2>1, <2>2, <2>4 DEF sig
<1>. QED
  BY <1>1, Invariance, PTL

(* Who accepts a TS signature knows that its certificate was not revoked   *)
(* for longer than OCSPMaxAge when it was stamped, up to the difference of *)
(* the clocks: for any clocks, any age of the stored answer, any failure   *)
(* of the fetch and any change in transit.                                 *)
THEOREM StampedBeforeRevocation == Spec => []AcceptedBeforeRevocation
<1>1. IInv => AcceptedBeforeRevocation
  <2>. SUFFICES ASSUME IInv, NEW i \in DOMAIN report.sigs, report.sigs[i].ok,
                       policy.profile = "TS", input.fetch
                PROVE  (report.sigs[i].time - input.tsaAhead) + input.tsaAhead - input.responderAhead
                         < input.revoked + policy.maxAge
    BY DEF AcceptedBeforeRevocation
  <2>. DEFINE t == report.sigs[i].time
              o == ctr.sigDocs[report.sigs[i].key].usp.ocsp
  <2>1. /\ t \in Int /\ t <= o.producedAt /\ o.producedAt - o.thisUpdate \in 0..policy.maxAge
        /\ o \in AnyAnswer /\ o.authentic /\ o.status = "good"
    BY AcceptedStamp
  <2>. HIDE DEF o
  <2>3. StatusAt(input, o.thisUpdate) = "good"
    BY <2>1 DEF AnyAnswer, Truthful
  <2>4. /\ input.tsaAhead \in Int /\ input.responderAhead \in Int /\ input.revoked \in Int
        /\ policy.maxAge \in Int
    BY DEF IInv, Given, IsWorld
  <2>5. o.producedAt \in Int /\ o.thisUpdate \in Int
    BY <2>1 DEF AnyAnswer, OcspType
  <2>6. ~(input.revoked + input.responderAhead <= o.thisUpdate)
    BY <2>3 DEF StatusAt
  <2>. HIDE DEF t
  <2>7. (t - input.tsaAhead) + input.tsaAhead - input.responderAhead < input.revoked + policy.maxAge
    BY <2>1, <2>4, <2>5, <2>6
  <2>. QED
    BY <2>7 DEF t
<1>. QED
  BY <1>1, Invariance, PTL

-----------------------------------------------------------------------------
(* What the one signature value that Create makes for signer k is over is  *)
(* what its document has, once that document is accepted.                  *)
LEMMA SignedBySigner ==
  ASSUME CP!IInv, NEW k \in DOMAIN sigs, NEW sig, sig.sv = sigs[k].sv,
         sig.sv.key = sig.cert, sig.sv.over = [refs |-> sig.refs, spRefs |-> sig.spRefs],
         sig.spRefs = <<[target |-> sig.sp.id, dig |-> sig.sp]>>
  PROVE  /\ sig.cert = order.signers[k].cert
         /\ sig.refs = FileReferences(k - 1, order.docs)
         /\ sig.sp = SignedProperties(k - 1, sig.cert, order.docs, order.time)
<1>. DEFINE cert == order.signers[k].cert
            sp   == SignedProperties(k - 1, cert, order.docs, order.time)
            refs == FileReferences(k - 1, order.docs)
<1>1. Made(k).sv = [id |-> SignatureValueID(k - 1), key |-> cert,
                    over |-> [refs   |-> refs,
                              spRefs |-> <<[target |-> SignedPropertiesID(k - 1), dig |-> sp]>>]]
  BY SignedForm DEF Made
<1>. HIDE DEF cert, sp, refs
<1>2. sig.sv = Made(k).sv
  BY SameValue
<1>3. /\ sig.cert = cert /\ sig.refs = refs
      /\ sig.spRefs = <<[target |-> SignedPropertiesID(k - 1), dig |-> sp]>>
  <2>1. sig.sv.key = cert
    BY <1>1, <1>2
  <2>2. sig.sv.over.refs = refs
    BY <1>1, <1>2
  <2>3. sig.sv.over.spRefs = <<[target |-> SignedPropertiesID(k - 1), dig |-> sp]>>
    BY <1>1, <1>2
  <2>. QED
    BY <2>1, <2>2, <2>3
<1>4. sig.sp = sp
  <2>1. sig.spRefs[1].dig = sp
    BY <1>3
  <2>2. sig.spRefs[1].dig = sig.sp
    OBVIOUS
  <2>. QED
    BY <2>1, <2>2
<1>. QED
  BY <1>3, <1>4 DEF cert, sp, refs

(* A document that covers the files of the container with the references   *)
(* and the media types of the order's, has the order's files there.        *)
Describes(sig, k, n) ==
  /\ DOMAIN sig.refs = 1..n /\ DOMAIN sig.sp.dofs = 1..n
  /\ \A i \in 1..n :
       /\ sig.refs[i].id = <<"RefId", k - 1, i - 1>>
       /\ sig.refs[i].uri = order.docs[i].name /\ sig.refs[i].dig = order.docs[i].data
       /\ sig.sp.dofs[i].ref = <<"RefId", k - 1, i - 1>>
       /\ sig.sp.dofs[i].mime = order.docs[i].mime

LEMMA FilesAgree ==
  ASSUME NEW k, NEW n \in Nat, NEW sig, Describes(sig, k, n),
         VP!Covers(sig, ctr.files, ctr.media)
  PROVE  ReadFiles = {<<order.docs[i].name, order.docs[i].data, Trim(order.docs[i].mime)>> : i \in 1..n}
<1>. DEFINE docs == order.docs
<1>0. /\ DOMAIN sig.refs = 1..n /\ DOMAIN sig.sp.dofs = 1..n
      /\ \A i \in 1..n :
           /\ sig.refs[i].id = <<"RefId", k - 1, i - 1>>
           /\ sig.refs[i].uri = docs[i].name /\ sig.refs[i].dig = docs[i].data
           /\ sig.sp.dofs[i].ref = <<"RefId", k - 1, i - 1>>
           /\ sig.sp.dofs[i].mime = docs[i].mime
  BY DEF Describes
<1>. HIDE DEF docs
<1>1. PICK f \in [DOMAIN sig.refs -> DOMAIN ctr.files],
           r \in [DOMAIN sig.sp.dofs -> DOMAIN sig.refs] :
        /\ \A m \in DOMAIN ctr.files : \E j \in DOMAIN sig.refs : f[j] = m
        /\ \A j \in DOMAIN sig.refs : sig.refs[j].uri = f[j] /\ sig.refs[j].dig = ctr.files[f[j]]
        /\ \A d \in DOMAIN sig.sp.dofs :
             /\ sig.sp.dofs[d].ref = sig.refs[r[d]].id
             /\ VP!Trim(sig.sp.dofs[d].mime) = ctr.media[f[r[d]]]
  BY DEF VP!Covers
<1>2. \A i \in 1..n : r[i] = i
  <2>. TAKE i \in 1..n
  <2>1. r[i] \in 1..n /\ sig.sp.dofs[i].ref = sig.refs[r[i]].id
    BY <1>0, <1>1
  <2>2. <<"RefId", k - 1, i - 1>> = <<"RefId", k - 1, r[i] - 1>>
    BY <1>0, <2>1
  <2>3. i - 1 = r[i] - 1
    BY <2>2
  <2>. QED
    BY <2>1, <2>3
<1>3. \A i \in 1..n : /\ f[i] \in DOMAIN ctr.files /\ docs[i].name = f[i]
                      /\ docs[i].data = ctr.files[f[i]]
  BY <1>0, <1>1
<1>4. \A i \in 1..n : Trim(docs[i].mime) = ctr.media[f[i]]
  <2>. TAKE i \in 1..n
  <2>1. VP!Trim(sig.sp.dofs[i].mime) = ctr.media[f[r[i]]]
    BY <1>0, <1>1
  <2>2. sig.sp.dofs[i].mime = docs[i].mime /\ r[i] = i
    BY <1>0, <1>2
  <2>3. VP!Trim(docs[i].mime) = Trim(docs[i].mime)
    BY DEF VP!Trim, Trim
  <2>. QED
    BY <2>1, <2>2, <2>3
<1>5. \A i \in 1..n : Trim(ctr.media[f[i]]) = Trim(docs[i].mime)
  <2>1. \A i \in 1..n : Trim(Trim(docs[i].mime)) = Trim(docs[i].mime)
    BY DEF Trim
  <2>. QED
    BY <1>4, <2>1
<1>6. \A i \in 1..n : <<docs[i].name, docs[i].data, Trim(docs[i].mime)>>
                        = <<f[i], ctr.files[f[i]], Trim(ctr.media[f[i]])>>
  BY <1>3, <1>5
<1>7. \A m \in DOMAIN ctr.files : \E i \in 1..n : f[i] = m
  BY <1>0, <1>1
<1>. DEFINE Read(m) == <<m, ctr.files[m], Trim(ctr.media[m])>>
<1>8. ReadFiles = {Read(m) : m \in DOMAIN ctr.files}
  BY DEF ReadFiles
<1>9. \A i \in 1..n : <<docs[i].name, docs[i].data, Trim(docs[i].mime)>> = Read(f[i])
  BY <1>6
<1>. HIDE DEF Read
<1>10. {Read(m) : m \in DOMAIN ctr.files} = {Read(f[i]) : i \in 1..n}
  BY <1>3, <1>7
<1>11. {<<docs[i].name, docs[i].data, Trim(docs[i].mime)>> : i \in 1..n} = {Read(f[i]) : i \in 1..n}
  BY <1>9
<1>. QED
  BY <1>8, <1>10, <1>11 DEF docs

LEMMA AcceptedVouches ==
  VP!IInv /\ VP!JInv => \A i \in DOMAIN report.sigs :
    report.sigs[i].ok => VP!Vouches(ctr.sigDocs[report.sigs[i].key], ctr.files, ctr.media)
BY AsiceAssumption, RoundTripAssumption, VP!AcceptedSigns

(* Whatever happened to the container in between, a signature that asice   *)
(* verify accepts is one of the order's signers', and it vouches for       *)
(* exactly the names, contents and media types of the data files, and the  *)
(* signing time, that asice create was given.                              *)
THEOREM AcceptedWasSigned == Spec => []AcceptedIsWhatWasSigned
<1>1. ASSUME IInv, NEW v \in DOMAIN report.sigs, report.sigs[v].ok,
             NEW sig, sig = ctr.sigDocs[report.sigs[v].key]
      PROVE  ReadFiles = OrderedFiles /\ sig.cert \in Signers /\ sig.sp.time = order.time
  <2>1. sig \in Documents /\ CP!IInv /\ VP!IInv /\ VP!JInv
    BY <1>1, AcceptedDocument
  <2>a. VP!Vouches(sig, ctr.files, ctr.media)
    BY <1>1, <2>1, AcceptedVouches
  <2>2. /\ sig.sv.key = sig.cert
        /\ sig.sv.over = [refs |-> sig.refs, spRefs |-> sig.spRefs]
        /\ sig.spRefs = <<[target |-> sig.sp.id, dig |-> sig.sp]>>
        /\ VP!Covers(sig, ctr.files, ctr.media)
    BY <2>a DEF VP!Vouches
  <2>3. PICK k \in DOMAIN sigs : sig.sv = sigs[k].sv
    BY <2>1 DEF Documents, Values
  <2>4. /\ sig.cert = order.signers[k].cert
        /\ sig.refs = FileReferences(k - 1, order.docs)
        /\ sig.sp = SignedProperties(k - 1, sig.cert, order.docs, order.time)
    BY <2>1, <2>2, <2>3, SignedBySigner
  <2>5. /\ k \in DOMAIN order.signers
        /\ Len(order.docs) \in Nat /\ DOMAIN order.docs = 1..Len(order.docs)
    BY <2>1, FinishedDocuments, OrderTyped, OrderFacts
  <2>6. sig.cert \in Signers
    BY <2>4, <2>5 DEF Signers
  <2>7. sig.sp.time = order.time
    BY <2>4 DEF SignedProperties
  <2>8. ReadFiles = OrderedFiles
    <3>. DEFINE n == Len(order.docs)
    <3>1. /\ DOMAIN sig.refs = 1..n
          /\ \A i \in 1..n : /\ sig.refs[i].id = <<"RefId", k - 1, i - 1>>
                             /\ sig.refs[i].uri = order.docs[i].name
                             /\ sig.refs[i].dig = order.docs[i].data
      BY <2>4 DEF FileReferences, ReferenceID
    <3>2. /\ DOMAIN sig.sp.dofs = 1..n
          /\ \A i \in 1..n : /\ sig.sp.dofs[i].ref = <<"RefId", k - 1, i - 1>>
                             /\ sig.sp.dofs[i].mime = order.docs[i].mime
      BY <2>4 DEF SignedProperties, DataObjectFormats, ReferenceID
    <3>3. OrderedFiles
            = {<<order.docs[i].name, order.docs[i].data, Trim(order.docs[i].mime)>> : i \in 1..n}
      BY <2>5 DEF OrderedFiles
    <3>. HIDE DEF n
    <3>4. n \in Nat
      BY <2>5 DEF n
    <3>5. Describes(sig, k, n)
      BY <3>1, <3>2 DEF Describes
    <3>. QED
      BY <2>2, <3>3, <3>4, <3>5, FilesAgree
  <2>. QED
    BY <2>6, <2>7, <2>8
<1>2. IInv => AcceptedIsWhatWasSigned
  BY <1>1 DEF AcceptedIsWhatWasSigned
<1>. QED
  BY <1>2, Invariance, PTL
-----------------------------------------------------------------------------
(* A container that nobody touched.  What Create wrote is what Verify      *)
(* reads, so that Create's last word on it, its writer's checks, is known  *)
(* where Verify gives its verdict.                                         *)
LEMMA WriterFresh == CP!InitFor(order, CP!Old) => CP!WriterInv
<1>1. CP!Old \in {CP!Absent, CP!Old}
  OBVIOUS
<1>. QED
  BY <1>1, AsiceAssumption, CreateAssumptions, CP!FreshWriterInv

LEMMA WriterStep == CP!IInv /\ CP!WriterInv /\ [CP!Next]_CP!vars => CP!WriterInv'
BY AsiceAssumption, CreateAssumptions, CP!NextWriterInv

LEMMA ContainerFresh == VP!ArchiveInv /\ VP!InitFor(zip, policy) => VP!KInv
BY AsiceAssumption, RoundTripAssumption, VP!FreshKInv

LEMMA ContainerStep == VP!IInv /\ VP!JInv /\ VP!KInv /\ [VP!Next]_VP!vars => VP!KInv'
BY AsiceAssumption, RoundTripAssumption, VP!NextKInv

UntouchedInv ==
  /\ edits \in Nat
  /\ phase # "fetch" => CP!WriterInv
  /\ phase \in {"transit", "verify"} /\ edits = 0 =>
       out.state = "container" /\ zip = out.entries
  /\ phase = "verify" => VP!KInv

LEMMA ArchiveOfEntries ==
  ASSUME CP!IInv, zip \in Seq(Entries), policy.tsDelay \in Int, policy.maxAge \in Int
  PROVE  VP!ArchiveInv
<1>1. zip \in Seq(VP!Range(zip))
  BY ListOver
<1>2. ASSUME NEW e \in Entries PROVE VP!IsEntry(e)
  <2>1. e.kind = "mimetype" => e.good \in BOOLEAN /\ e = VP!MimetypeEntry(e.good)
    BY EntryKinds DEF VP!MimetypeEntry
  <2>2. ASSUME e.kind = "manifest"
        PROVE  /\ e.rows \in Seq(VP!Range(e.rows))
               /\ \A r \in VP!Range(e.rows) : r = VP!Row(r.path, r.mime)
    <3>1. e.rows \in Seq(AnyRow)
      BY <2>2, EntryKinds
    <3>2. e.rows \in Seq(VP!Range(e.rows)) /\ VP!Range(e.rows) \subseteq AnyRow
      BY <3>1, ListOver
    <3>3. \A r \in AnyRow : r = VP!Row(r.path, r.mime)
      BY DEF AnyRow, VP!Row
    <3>. QED
      BY <3>2, <3>3
  <2>3. e.kind = "file" => e.name \in Name /\ e.data \in Content
    BY EntryKinds
  <2>4. e.kind = "signature" => e.key \in 0..99 /\ VP!IsDocument(e.doc)
    BY EntryKinds, DocumentIsList
  <2>. QED
    BY <2>1, <2>2, <2>3, <2>4 DEF VP!IsEntry
<1>3. \A i \in DOMAIN zip : zip[i] \in Entries
  BY ElementOfSeq
<1>. QED
  BY <1>1, <1>2, <1>3 DEF VP!ArchiveInv

LEMMA InitUntouched == Init => UntouchedInv
<1>. SUFFICES ASSUME Init PROVE UntouchedInv
  OBVIOUS
<1>1. PICK j \in Journeys :
        /\ C!InitFor(j.order, C!Old) /\ V!InitFor(<<>>, j.policy)
        /\ phase = IF j.world.fetch THEN "fetch" ELSE "create"
  BY DEF Init
<1>2. order = j.order
  BY <1>1 DEF C!InitFor
<1>3. CP!InitFor(order, CP!Old)
  BY <1>1, <1>2, SameStart
<1>4. CP!WriterInv
  BY <1>3, WriterFresh
<1>5. edits \in Nat /\ phase \notin {"transit", "verify"}
  BY <1>1 DEF Init
<1>. QED
  BY <1>4, <1>5 DEF UntouchedInv

(* The writer's part holds as long as Create stands still.                 *)
LEMMA WriterKept ==
  ASSUME CP!IInv, CP!WriterInv, UNCHANGED createVars
  PROVE  CP!WriterInv'
<1>1. UNCHANGED CP!vars
  BY DEF createVars, CP!vars
<1>. QED
  BY <1>1, WriterStep

LEMMA NextUntouched == IInv /\ UntouchedInv /\ [Next]_vars => UntouchedInv'
<1>. SUFFICES ASSUME IInv, UntouchedInv, [Next]_vars PROVE UntouchedInv'
  OBVIOUS
<1>0. /\ edits \in Nat
      /\ phase # "fetch" => CP!IInv /\ CP!WriterInv
      /\ phase = "verify" => VP!IInv /\ VP!JInv /\ VP!KInv
  BY DEF IInv, CreateInv, VerifyInv, UntouchedInv
<1>1. CASE Fetching
  BY <1>0, <1>1 DEF Fetching, UntouchedInv
<1>2. CASE HandOver
  <2>1. phase = "fetch" /\ phase' = "create" /\ edits' = edits
    BY <1>2 DEF HandOver
  <2>2. CP!InitFor(order, CP!Old)'
    BY <1>2, <2>1 DEF HandOver, IInv, FetchInv, CP!InitFor, CP!Old, CP!NoSignature, CP!NoToken
  <2>3. CP!WriterInv'
    BY <2>2, WriterFresh, PTL
  <2>. QED
    BY <1>0, <2>1, <2>3 DEF UntouchedInv
<1>3. CASE Wait
  <2>1. /\ phase \in {"create", "transit"} /\ phase' = phase /\ edits' = edits
        /\ UNCHANGED createVars
    BY <1>3 DEF Wait, createVars
  <2>2. CP!WriterInv'
    BY <1>0, <2>1, WriterKept
  <2>3. out' = out /\ zip' = zip
    BY <1>3 DEF Wait, createVars, verifyVars
  <2>. QED
    BY <1>0, <2>1, <2>2, <2>3 DEF UntouchedInv
<1>4. CASE Creating
  <2>1. phase = "create" /\ phase' = "create" /\ edits' = edits /\ C!Next
    BY <1>4 DEF Creating
  <2>2. CP!WriterInv'
    BY <1>0, <2>1, SameCreate, WriterStep
  <2>. QED
    BY <1>0, <2>1, <2>2 DEF UntouchedInv
<1>5. CASE Ship
  <2>1. phase = "create" /\ phase' = "transit" /\ edits' = edits /\ outcome = "ok"
        /\ zip' = out.entries /\ UNCHANGED createVars
    BY <1>5 DEF Ship
  <2>2. out.state = "container" /\ out' = out
    BY <1>0, <2>1 DEF CP!IInv, CP!OutInv, createVars
  <2>3. CP!WriterInv'
    BY <1>0, <2>1, WriterKept
  <2>. QED
    BY <1>0, <2>1, <2>2, <2>3 DEF UntouchedInv
<1>6. CASE Edit
  <2>1. phase = "transit" /\ phase' = "transit" /\ edits' = edits + 1 /\ UNCHANGED createVars
    BY <1>6, EditFrame
  <2>2. edits' \in Nat /\ edits' # 0
    BY <1>0, <2>1
  <2>3. CP!WriterInv'
    BY <1>0, <2>1, WriterKept
  <2>. QED
    BY <2>1, <2>2, <2>3 DEF UntouchedInv
<1>7. CASE Deliver
  <2>1. /\ phase = "transit" /\ phase' = "verify" /\ edits' = edits
        /\ UNCHANGED createVars /\ UNCHANGED verifyVars
    BY <1>7 DEF Deliver
  <2>2. CP!WriterInv'
    BY <1>0, <2>1, WriterKept
  <2>3. VP!KInv
    <3>1. VP!InitFor(zip, policy) /\ zip \in Seq(Entries) /\ Given
      BY <2>1 DEF IInv, TransitInv
    <3>2. VP!ArchiveInv
      BY <1>0, <2>1, <3>1, ArchiveOfEntries DEF Given
    <3>. QED
      BY <3>1, <3>2, ContainerFresh
  <2>4. VP!IInv /\ VP!JInv
    <3>1. VP!InitFor(zip, policy) /\ zip \in Seq(Entries) /\ Given
      BY <2>1 DEF IInv, TransitInv
    <3>2. VP!ZipInv /\ VP!Typed
      BY <1>0, <2>1, <3>1, EntriesTyped DEF Given
    <3>. QED
      BY <3>1, <3>2, VerifyFresh, VerdictFresh
  <2>5. UNCHANGED VP!vars
    BY <2>1 DEF verifyVars, VP!vars, VP!input, VP!opening
  <2>6. VP!KInv'
    BY <2>3, <2>4, <2>5, ContainerStep
  <2>7. out' = out /\ zip' = zip
    BY <2>1 DEF createVars, verifyVars
  <2>. QED
    BY <1>0, <2>1, <2>2, <2>6, <2>7 DEF UntouchedInv
<1>8. CASE Verifying
  <2>1. phase = "verify" /\ phase' = "verify" /\ edits' = edits /\ UNCHANGED createVars /\ V!Next
    BY <1>8 DEF Verifying
  <2>2. CP!WriterInv'
    BY <1>0, <2>1, WriterKept
  <2>3. [VP!Next]_VP!vars
    BY <2>1, SameVerify
  <2>4. VP!KInv'
    BY <1>0, <2>1, <2>3, ContainerStep
  <2>5. zip' = zip /\ out' = out
    BY <2>1, <2>3, VerifyFrame DEF VP!vars, VP!input, createVars
  <2>. QED
    BY <1>0, <2>1, <2>2, <2>4, <2>5 DEF UntouchedInv
<1>9. CASE UNCHANGED vars
  <2>1. UNCHANGED createVars /\ UNCHANGED verifyVars /\ phase' = phase /\ edits' = edits
    BY <1>9 DEF vars
  <2>2. CP!vars' = CP!vars /\ VP!vars' = VP!vars
    BY <2>1 DEF createVars, verifyVars, CP!vars, VP!vars, VP!input, VP!opening
  <2>3. phase # "fetch" => CP!WriterInv'
    BY <1>0, <2>1, WriterKept
  <2>4. phase = "verify" => VP!KInv'
    BY <1>0, <2>2, ContainerStep
  <2>5. out' = out /\ zip' = zip
    BY <2>1 DEF createVars, verifyVars
  <2>. QED
    BY <1>0, <2>1, <2>3, <2>4, <2>5 DEF UntouchedInv
<1>. QED
  BY <1>1, <1>2, <1>3, <1>4, <1>5, <1>6, <1>7, <1>8, <1>9 DEF Next
LEMMA ContainerVerdict ==
  ASSUME VP!KInv, vpc = "done", NEW docs, NEW ss, NEW certs, NEW t, NEW o, NEW stamped \in BOOLEAN,
         VP!Holds(docs, ss), VP!IsSigned(docs, ss, certs, t), t # VP!NoTime,
         o.thisUpdate \in Int, o.producedAt \in Int,
         IF stamped THEN VP!IsTimed(ss, o, policy.tsDelay) ELSE VP!IsBare(ss)
  PROVE  report.ok <=>
           /\ VP!Fits(docs, ss) /\ VP!Plain(docs)
           /\ \A k \in 1..Len(ss) : <<certs[k], t>> \in Trusted
           /\ policy.profile = "TS" =>
                stamped /\ \A k \in 1..Len(ss) :
                             VP!StampTrusted(ss[k]) /\ VP!OcspOK(o, certs[k], policy.maxAge)
BY AsiceAssumption, RoundTripAssumption, VP!MadeVerdict

(* Create's documents are orderly, and its container holds them with a     *)
(* signature of every signer.                                              *)
LEMMA WrittenHolds ==
  ASSUME CP!IInv, CP!WriterInv, out.state = "container", zip = out.entries
  PROVE  VP!Holds(order.docs, sigs) /\ Len(sigs) = Len(order.signers)
<1>1. /\ order \in CP!OrderType /\ Len(sigs) = Len(order.signers)
      /\ zip = CP!ContainerEntries(order.docs, sigs)
  BY DEF CP!IInv, CP!OutInv
<1>2. CP!OptionsOK /\ CP!DocumentsOK(order.docs)
  BY DEF CP!WriterInv, CP!Writable
<1>3. VP!Orderly(order.docs)
  <2>1. CP!Doc = VP!Doc /\ CP!NoMediaType = VP!NoMediaType
    BY DEF CP!Doc, VP!Doc, CP!MediaType, VP!MediaType, CP!NoMediaType, VP!NoMediaType
  <2>2. order.docs \in Seq(VP!Doc)
    BY <1>1, <2>1 DEF CP!OrderType
  <2>. QED
    BY <1>2, <2>1, <2>2 DEF CP!OptionsOK, CP!DocumentsOK, VP!Orderly
<1>4. Len(sigs) \in Nat \ {0}
  <2>. DEFINE S == [cert : Cert \cup {CP!NoCert}]
  <2>1. order.signers \in Seq(S) /\ order.signers # <<>>
    BY <1>1, <1>2 DEF CP!OrderType, CP!OptionsOK
  <2>. HIDE DEF S
  <2>. QED
    BY <1>1, <2>1, EmptySeq
<1>5. zip = VP!ContainerEntries(order.docs, sigs)
  BY <1>1 DEF CP!ContainerEntries, VP!ContainerEntries, CP!MimetypeEntry, VP!MimetypeEntry,
     CP!ManifestEntry, VP!ManifestEntry, CP!FileEntry, VP!FileEntry, CP!SignatureEntry,
     VP!SignatureEntry, CP!ManifestRows, VP!ManifestRows, CP!Row, VP!Row, CP!RootMedia,
     VP!RootMedia
<1>. QED
  BY <1>1, <1>3, <1>4, <1>5 DEF VP!Holds

(* Each of its documents is what its signer made ...                       *)
LEMMA FinishedIsMade ==
  ASSUME CP!IInv, NEW k \in DOMAIN sigs
  PROVE  VP!IsMade(sigs[k], k - 1, order.signers[k].cert, order.docs, order.time)
<1>. DEFINE sp   == SignedProperties(k - 1, order.signers[k].cert, order.docs, order.time)
            refs == FileReferences(k - 1, order.docs)
            spRefs == <<[target |-> SignedPropertiesID(k - 1), dig |-> sp]>>
            info == [refs |-> refs, spRefs |-> spRefs]
            sv   == [id |-> SignatureValueID(k - 1), key |-> order.signers[k].cert, over |-> info]
            With(usp) ==
              [shape |-> "ok", id |-> SignatureID(k - 1), refs |-> refs, spRefs |-> spRefs,
               sv |-> sv, cert |-> order.signers[k].cert, target |-> SignatureID(k - 1),
               sp |-> sp, usp |-> usp]
<1>1. Made(k) = With(NoUsp)
  BY SignedForm DEF Made
<1>2. VP!SignedProperties(k - 1, order.signers[k].cert, order.docs, order.time) = sp
      /\ VP!FileReferences(k - 1, order.docs) = refs /\ sp.id = SignedPropertiesID(k - 1)
  BY DEF VP!SignedProperties, SignedProperties, VP!DataObjectFormats, DataObjectFormats,
     VP!FileReferences, FileReferences, VP!ReferenceID, ReferenceID, VP!SignedPropertiesID,
     SignedPropertiesID
<1>3. VP!SignatureID(k - 1) = SignatureID(k - 1)
      /\ VP!SignatureValueID(k - 1) = SignatureValueID(k - 1)
  BY DEF VP!SignatureID, SignatureID, VP!SignatureValueID, SignatureValueID
<1>. HIDE DEF sp, refs
<1>4. \E usp : sigs[k] = With(usp)
  <2>1. CASE order.profile = "TS"
    <3>1. PICK gen \in GenTime, bound \in PolicyBound, trusted \in BOOLEAN :
            LET token == Token(Made(k).sv, gen, trusted, bound)
            IN  sigs[k] = [Made(k) EXCEPT !.usp = [shape |-> "ok", tsts |-> <<token>>,
                                                   ocsp |-> order.ocsp]]
      BY <2>1, StampedForm
    <3>. DEFINE token == Token(Made(k).sv, gen, trusted, bound)
                usp   == [shape |-> "ok", tsts |-> <<token>>, ocsp |-> order.ocsp]
    <3>2. sigs[k] = [Made(k) EXCEPT !.usp = usp]
      BY <3>1
    <3>. HIDE DEF token, usp
    <3>3. sigs[k] = With(usp)
      BY <1>1, <3>2
    <3>. QED
      BY <3>3
  <2>2. CASE order.profile # "TS"
    BY <1>1, <2>2, FinishedDocuments
  <2>. QED
    BY <2>1, <2>2
<1>5. PICK usp : sigs[k] = With(usp)
  BY <1>4
<1>6. /\ sigs[k].shape = "ok" /\ sigs[k].id = SignatureID(k - 1) /\ sigs[k].target = SignatureID(k - 1)
      /\ sigs[k].cert = order.signers[k].cert /\ sigs[k].refs = refs /\ sigs[k].sp = sp
      /\ sigs[k].spRefs = spRefs /\ sigs[k].sv = sv
  BY <1>5
<1>7. spRefs = <<[target |-> sp.id, dig |-> sp]>>
  BY <1>2
<1>8. sv = VP!SignatureValue(VP!SignatureValueID(k - 1), order.signers[k].cert, VP!SignedInfo(sigs[k]))
  BY <1>3, <1>6 DEF VP!SignatureValue, VP!SignedInfo
<1>. QED
  BY <1>2, <1>3, <1>6, <1>7, <1>8 DEF VP!IsMade

(* ... and, in the TS profile, stamped within the window.                  *)
LEMMA FinishedIsStamped ==
  ASSUME CP!IInv, NEW k \in DOMAIN sigs
  PROVE  IF order.profile = "TS"
         THEN \E gen, bound \in Int, trusted \in BOOLEAN :
                /\ VP!IsStamped(sigs[k], gen, trusted, bound, order.ocsp)
                /\ VP!InWindow(order.ocsp, gen, bound, order.tsDelay)
         ELSE sigs[k].usp = VP!NoUsp
<1>1. CASE order.profile # "TS"
  <2>1. sigs[k] = Made(k)
    BY <1>1, FinishedDocuments
  <2>2. Made(k).usp = NoUsp
    BY MadeForm
  <2>3. VP!NoUsp = NoUsp
    BY DEF VP!NoUsp, NoUsp, VP!NoOcsp, NoOcsp, VP!Ocsp, Ocsp, VP!NoCert, NoCert
  <2>. QED
    BY <1>1, <2>1, <2>2, <2>3
<1>2. CASE order.profile = "TS"
  <2>1. PICK gen \in GenTime, bound \in PolicyBound, trusted \in BOOLEAN :
          LET token == Token(Made(k).sv, gen, trusted, bound)
          IN  /\ sigs[k] = [Made(k) EXCEPT !.usp = [shape |-> "ok", tsts |-> <<token>>,
                                                    ocsp |-> order.ocsp]]
              /\ sigs[k].usp.tsts[1] = token
              /\ sigs[k].sv = Made(k).sv
    BY <1>2, StampedForm
  <2>. DEFINE token == Token(Made(k).sv, gen, trusted, bound)
  <2>2. gen \in Int /\ bound \in Int
    BY RoundTripAssumption DEF NoBound
  <2>3. token = VP!Token(sigs[k].sv, gen, trusted, bound) /\ token.gen = gen /\ token.bound = bound
    BY <2>1 DEF Token, VP!Token
  <2>4. sigs[k].usp.tsts[1] = token
        /\ sigs[k] = [Made(k) EXCEPT !.usp = [shape |-> "ok", tsts |-> <<token>>, ocsp |-> order.ocsp]]
    BY <2>1
  <2>. HIDE DEF token
  <2>5. "usp" \in DOMAIN Made(k)
    BY MadeForm
  <2>6. sigs[k].usp = [shape |-> "ok", tsts |-> <<token>>, ocsp |-> order.ocsp]
    BY <2>4, <2>5
  <2>7. VP!IsStamped(sigs[k], gen, trusted, bound, order.ocsp)
    BY <2>3, <2>6 DEF VP!IsStamped, VP!Usp
  <2>8. CP!TimeStamped(sigs[k])
    BY <1>2, FinishedDocuments
  <2>9. VP!InWindow(order.ocsp, gen, bound, order.tsDelay)
    BY <2>3, <2>4, <2>8 DEF CP!TimeStamped, VP!InWindow
  <2>. QED
    BY <1>2, <2>2, <2>7, <2>9
<1>. QED
  BY <1>1, <1>2

LEMMA SameSizes ==
  ASSUME Len(sigs) = Len(order.signers)
  PROVE  VP!Fits(order.docs, sigs) <=>
           /\ \A i \in DOMAIN order.docs : Size[order.docs[i].data] <= MaxEntry
           /\ C!ArchiveSize(order.docs, Len(order.signers)) <= MaxTotal
BY DEF VP!Fits, VP!DocSizes, C!ArchiveSize, VP!Total, VP!Totals, C!Total, C!Totals

(* Create and Verify agree: given the same --tsdelay, asice verify accepts *)
(* a container that nobody changed exactly when those conditions hold that *)
(* asic.Create leaves unchecked: no name that starts with "#", no padded   *)
(* media type, sizes within the reader's bounds, a chain for every signer  *)
(* and, for TS, a stored OCSP answer good for each and stamps whose        *)
(* certificates the verifier accepts, by the trust it was given and by     *)
(* their window and usage.                                                 *)
THEOREM UntouchedIsAccepted == Spec => []UntouchedVerdict
<1>1. IInv /\ UntouchedInv => UntouchedVerdict
  <2>. SUFFICES ASSUME IInv, UntouchedInv, vpc = "done", edits = 0, policy.tsDelay = order.tsDelay
                PROVE  report.ok <=> Acceptable
    BY DEF UntouchedVerdict
  <2>1. phase = "verify"
    <3>1. VP!InitFor(zip, policy) => vpc = "open"
      BY DEF VP!InitFor
    <3>. QED
      BY <3>1 DEF IInv, TransitInv
  <2>2. /\ CP!IInv /\ CP!WriterInv /\ VP!KInv
        /\ out.state = "container" /\ zip = out.entries
    BY <2>1 DEF IInv, CreateInv, UntouchedInv
  <2>. DEFINE certs   == [k \in 1..Len(sigs) |-> order.signers[k].cert]
              stamped == (order.profile = "TS")
  <2>3. VP!Holds(order.docs, sigs) /\ Len(sigs) = Len(order.signers)
    BY <2>2, WrittenHolds
  <2>4. DOMAIN sigs = 1..Len(sigs)
    BY <2>2, LenProperties DEF CP!IInv, CP!SigsInv
  <2>5. \A k \in 1..Len(sigs) : certs[k] = order.signers[k].cert
    OBVIOUS
  <2>6. VP!IsSigned(order.docs, sigs, certs, order.time)
    <3>. HIDE DEF certs
    <3>1. \A k \in 1..Len(sigs) : order.signers[k].cert # VP!NoCert
      BY <2>2 DEF CP!WriterInv, CP!NoCert, VP!NoCert
    <3>2. \A k \in 1..Len(sigs) :
            VP!IsMade(sigs[k], k - 1, order.signers[k].cert, order.docs, order.time)
      BY <2>2, <2>4, FinishedIsMade
    <3>. QED
      BY <2>5, <3>1, <3>2 DEF VP!IsSigned
  <2>7. IF stamped THEN VP!IsTimed(sigs, order.ocsp, policy.tsDelay) ELSE VP!IsBare(sigs)
    BY <2>2, <2>4, FinishedIsStamped DEF VP!IsTimed, VP!IsBare
  <2>8. order.time # VP!NoTime
    BY <2>2 DEF CP!WriterInv, CP!OptionsOK, CP!NoTime, VP!NoTime
  <2>9. order.ocsp.thisUpdate \in Int /\ order.ocsp.producedAt \in Int
    BY <2>2, OrderTyped, OrderFacts DEF OcspType
  <2>10. stamped \in BOOLEAN
    OBVIOUS
  <2>. HIDE DEF certs, stamped
  <2>11. report.ok <=>
           /\ VP!Fits(order.docs, sigs) /\ VP!Plain(order.docs)
           /\ \A k \in 1..Len(sigs) : <<certs[k], order.time>> \in Trusted
           /\ policy.profile = "TS" =>
                stamped /\ \A k \in 1..Len(sigs) :
                             /\ VP!StampTrusted(sigs[k])
                             /\ VP!OcspOK(order.ocsp, certs[k], policy.maxAge)
    BY <2>2, <2>3, <2>6, <2>7, <2>8, <2>9, <2>10, ContainerVerdict
  <2>12. \A c : VP!OcspOK(order.ocsp, c, policy.maxAge) <=> V!OcspOK(order.ocsp, c, policy.maxAge)
    BY DEF VP!OcspOK, V!OcspOK
  <2>13. Signers = {certs[k] : k \in 1..Len(sigs)}
    <3>1. DOMAIN order.signers = 1..Len(sigs)
      BY <2>2, <2>3, OrderTyped, OrderFacts
    <3>. QED
      BY <2>5, <3>1 DEF Signers
  <2>14. Acceptable <=>
           /\ VP!Fits(order.docs, sigs) /\ VP!Plain(order.docs)
           /\ \A c \in Signers : <<c, order.time>> \in Trusted
           /\ policy.profile = "TS" =>
                /\ stamped
                /\ \A k \in 1..Len(sigs) : VP!StampTrusted(sigs[k])
                /\ \A c \in Signers : VP!OcspOK(order.ocsp, c, policy.maxAge)
    BY <2>3, <2>4, <2>12, SameSizes DEF Acceptable, VP!Plain, VP!StampTrusted, stamped
  <2>. QED
    BY <2>11, <2>13, <2>14
<1>2. Spec => []UntouchedInv
  BY InitIInv, NextIInv, InitUntouched, NextUntouched, PTL DEF Spec
<1>. QED
  BY <1>1, <1>2, Invariance, PTL
=============================================================================
