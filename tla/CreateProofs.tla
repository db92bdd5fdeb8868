---------------------------- MODULE CreateProofs ----------------------------
(***************************************************************************)
(* Proofs about Create, for any options, any number of signers and data    *)
(* files and any answers of the time-stamping authority, and about the     *)
(* command that runs it, for any files on its command line: what the loops *)
(* over the blocks of the signer file compute, and that Create starts      *)
(* exactly when its inputs are fit for it.                                 *)
(***************************************************************************)
EXTENDS CreateCommand, WellFoundedInduction, TLAPS

(* The document of signer k in its BES form, and with its time-stamp.      *)
BESDoc(k) == SignBES(k - 1, opts.signers[k].cert, opts.docs, opts.time)
TSDoc(k, token) == AddUnsignedProperties(BESDoc(k), token, opts.ocsp)

TokensAt(sv, gen, bound) == {Token(sv, gen, trusted, bound) : trusted \in BOOLEAN}
TokensOf(sv, gen) == UNION {TokensAt(sv, gen, bound) : bound \in PolicyBound}
TokensOver(sv) == UNION {TokensOf(sv, gen) : gen \in GenTime}
Tokens(k) == TokensOver(BESDoc(k).sv)

Finished(k) ==
  IF opts.profile = "TS"
  THEN {d \in {TSDoc(k, token) : token \in Tokens(k)} : TimeStamped(d)}
  ELSE {BESDoc(k)}

AnyFinished == UNION {Finished(k) : k \in 1..Len(opts.signers)}

(* The inductive invariant: the finished documents are those of the first  *)
(* signers, in order; the document being rendered is the next signer's;    *)
(* nothing is asked before the options are checked; a container is only    *)
(* there once the program has ended, with all the signatures.              *)
SigsInv ==
  /\ sigs \in Seq(AnyFinished)
  /\ \A k \in 1..Len(sigs) : sigs[k] \in Finished(k)

BuiltInv ==
  /\ pc = "stamp" => built = BESDoc(Len(sigs) + 1)
  /\ pc = "guard" =>
       /\ captured \in Tokens(Len(sigs) + 1)
       /\ built = TSDoc(Len(sigs) + 1, captured)

PhaseInv ==
  /\ pc \in {"signer", "stamp", "guard"} => OptionsOK
  /\ pc \in {"output", "options"} => asked = 0 /\ sigs = <<>>
  /\ pc = "stamp" => asked = Len(sigs)
  /\ pc = "guard" => asked = Len(sigs) + 1

OutInv ==
  /\ out.state = "container" =>
       /\ pc = "done" /\ Len(sigs) = Len(opts.signers)
       /\ out.entries = ContainerEntries(opts.docs, sigs)
  /\ outcome = "ok" => out.state = "container"
  /\ outcome = "error" => out.state # "container"

IInv ==
  /\ opts \in OrderType
  /\ TypeOK /\ SigsInv /\ BuiltInv /\ PhaseInv /\ OutInv
  /\ OneStampPerSignature

(* The tokens an authority may answer with to a request over sv.           *)
LEMMA TokenOver ==
  ASSUME NEW sv, NEW token
  PROVE  token \in TokensOver(sv) <=>
           \E gen \in GenTime, bound \in PolicyBound, trusted \in BOOLEAN :
             token = Token(sv, gen, trusted, bound)
<1>1. token \in TokensOver(sv) <=> \E gen \in GenTime : token \in TokensOf(sv, gen)
  BY Zenon DEF TokensOver
<1>2. ASSUME NEW gen
      PROVE  token \in TokensOf(sv, gen) <=>
               \E bound \in PolicyBound : token \in TokensAt(sv, gen, bound)
  BY Zenon DEF TokensOf
<1>3. ASSUME NEW gen, NEW bound
      PROVE  token \in TokensAt(sv, gen, bound) <=>
               \E trusted \in BOOLEAN : token = Token(sv, gen, trusted, bound)
  BY Zenon DEF TokensAt
<1> QED
  BY <1>1, <1>2, <1>3, Zenon

(* What the fields of a rendered document are.                             *)
LEMMA BESFields ==
  ASSUME NEW k
  PROVE  /\ BESDoc(k).id = SignatureID(k - 1)
         /\ BESDoc(k).cert = opts.signers[k].cert
         /\ BESDoc(k).sv.id = SignatureValueID(k - 1)
BY DEF BESDoc, SignBES, SetSignatureValueId, BuildSignature, SignatureValue

LEMMA TSFields ==
  ASSUME NEW k, NEW token
  PROVE  /\ TSDoc(k, token).id = BESDoc(k).id
         /\ TSDoc(k, token).cert = BESDoc(k).cert
         /\ TSDoc(k, token).sv = BESDoc(k).sv
         /\ TSDoc(k, token).usp = Usp(<<token>>, opts.ocsp)
BY DEF TSDoc, BESDoc, SignBES, SetSignatureValueId, BuildSignature, AddUnsignedProperties

(* A document that the guard lets pass is finished.                        *)
LEMMA GuardFinishes ==
  ASSUME opts \in OrderType, opts.profile = "TS", NEW k,
         captured \in Tokens(k), built = TSDoc(k, captured), GuardOK
  PROVE  built \in Finished(k)
<1>1. PICK gen \in GenTime, bound \in PolicyBound, trusted \in BOOLEAN :
        captured = Token(BESDoc(k).sv, gen, trusted, bound)
  BY TokenOver DEF Tokens
<1>2. /\ captured.gen = gen /\ captured.bound = bound /\ captured.imprint = BESDoc(k).sv
  BY <1>1 DEF Token
<1>3. /\ gen \in Nat /\ bound \in Nat \cup {-1} /\ opts.tsDelay \in Int
      /\ opts.ocsp.producedAt \in Int
  BY CreateAssumption DEF OrderType, OcspType, NoBound
<1>4. /\ built.usp.tsts = <<captured>> /\ built.usp.ocsp = opts.ocsp /\ built.sv = BESDoc(k).sv
  <2>1. built.usp = Usp(<<captured>>, opts.ocsp) /\ built.sv = BESDoc(k).sv
    BY TSFields
  <2> QED
    BY <2>1 DEF Usp
<1>5. Len(built.usp.tsts) = 1 /\ built.usp.tsts[1] = captured
  BY <1>4
<1>6. opts.ocsp.producedAt \in
        gen .. (gen + (IF opts.tsDelay > 0 THEN opts.tsDelay ELSE bound))
  BY <1>2, <1>3 DEF GuardOK
<1>7. TimeStamped(built)
  BY <1>2, <1>4, <1>5, <1>6 DEF TimeStamped
<1> QED
  BY <1>7 DEF Finished

-----------------------------------------------------------------------------
(* The options never change, so neither does what is defined from them.    *)
LEMMA SameOptions ==
  ASSUME opts' = opts
  PROVE  /\ AnyFinished' = AnyFinished
         /\ \A k : Finished(k)' = Finished(k)
         /\ \A k : Tokens(k)' = Tokens(k)
         /\ \A k : BESDoc(k)' = BESDoc(k)
         /\ \A k, token : TSDoc(k, token)' = TSDoc(k, token)
         /\ OptionsOK' <=> OptionsOK
<1>1. \A k : BESDoc(k)' = BESDoc(k)
  BY DEF BESDoc
<1>2. \A k, token : TSDoc(k, token)' = TSDoc(k, token)
  BY <1>1 DEF TSDoc
<1>3. \A k : Tokens(k)' = Tokens(k)
  BY <1>1 DEF Tokens
<1>4. \A d : TimeStamped(d)' <=> TimeStamped(d)
  BY DEF TimeStamped
<1>5. \A k : Finished(k)' = Finished(k)
  BY <1>1, <1>2, <1>3, <1>4 DEF Finished
<1>6. AnyFinished' = AnyFinished
  BY <1>5 DEF AnyFinished
<1>7. OptionsOK' <=> OptionsOK
  BY DEF OptionsOK
<1> QED
  BY <1>1, <1>2, <1>3, <1>5, <1>6, <1>7

LEMMA SignersCounted ==
  ASSUME opts \in OrderType
  PROVE  Len(opts.signers) \in Nat
BY DEF OrderType

(* Appending the finished document of the next signer.                     *)
LEMMA AppendFinished ==
  ASSUME IInv, opts' = opts, NEW d \in Finished(Len(sigs) + 1),
         Len(sigs) < Len(opts.signers), sigs' = Append(sigs, d)
  PROVE  SigsInv' /\ Len(sigs') = Len(sigs) + 1
<1>1. Len(sigs) \in Nat /\ Len(opts.signers) \in Nat /\ sigs \in Seq(AnyFinished)
  BY SignersCounted DEF IInv, SigsInv
<1>2. d \in AnyFinished
  BY <1>1 DEF AnyFinished
<1>3. sigs' \in Seq(AnyFinished) /\ Len(sigs') = Len(sigs) + 1
  BY <1>1, <1>2
<1>4. ASSUME NEW k \in 1..Len(sigs')
      PROVE  sigs'[k] \in Finished(k)
  <2>1. CASE k = Len(sigs) + 1
    BY <2>1, <1>1
  <2>2. CASE k \in 1..Len(sigs)
    BY <2>2, <1>1, <1>2 DEF IInv, SigsInv
  <2> QED
    BY <2>1, <2>2, <1>1, <1>3
<1> QED
  BY <1>3, <1>4, SameOptions DEF SigsInv

(* Nothing that SigsInv speaks of has changed.                             *)
LEMMA SameSigs ==
  ASSUME IInv, opts' = opts, sigs' = sigs
  PROVE  SigsInv'
BY SameOptions DEF IInv, SigsInv

LEMMA FreshIInv ==
  ASSUME opts \in OrderType, NEW file \in {Absent, Old}, InitFor(opts, file)
  PROVE  IInv
<1>1. sigs = <<>> /\ Len(opts.signers) \in Nat
  BY SignersCounted DEF InitFor
<1>2. out.state \in {"absent", "old"}
  BY DEF InitFor, Absent, Old
<1>3. SigsInv
  BY <1>1 DEF SigsInv
<1> QED
  BY <1>1, <1>2, <1>3 DEF IInv, InitFor, TypeOK, Steps, FileStates, BuiltInv, PhaseInv,
     OutInv, OneStampPerSignature

LEMMA InitIInv == Init => IInv
<1> SUFFICES ASSUME NEW o \in Order, NEW file \in {Absent, Old}, InitFor(o, file)
             PROVE  IInv
  BY DEF Init
<1>1. opts = o /\ opts \in OrderType
  BY CreateAssumption DEF InitFor
<1> QED
  BY <1>1, FreshIInv

LEMMA NextIInv == IInv /\ [Next]_vars => IInv'
<1> SUFFICES ASSUME IInv, [Next]_vars
             PROVE  IInv'
  OBVIOUS
<1> USE DEF IInv
<1>0. Len(sigs) \in Nat /\ Len(opts.signers) \in Nat /\ asked \in Nat
  BY SignersCounted DEF SigsInv, TypeOK
<1>1. CASE UNCHANGED vars
  <2>1. opts' = opts /\ sigs' = sigs
    BY <1>1 DEF vars
  <2> QED
    BY <1>1, <2>1, SameSigs, SameOptions DEF vars, TypeOK, Steps, FileStates, BuiltInv,
       PhaseInv, OutInv, OneStampPerSignature
<1>2. CASE OpenOutput
  <2>1. opts' = opts /\ sigs' = sigs
    BY <1>2 DEF OpenOutput
  <2> QED
    BY <1>2, <2>1, SameSigs, SameOptions DEF OpenOutput, Fail, Truncated, TypeOK, Steps,
       FileStates, BuiltInv, PhaseInv, OutInv, OneStampPerSignature
<1>3. CASE CheckOptions
  <2>1. opts' = opts /\ sigs' = sigs
    BY <1>3 DEF CheckOptions
  <2> QED
    BY <1>3, <1>0, <2>1, SameSigs, SameOptions DEF CheckOptions, Fail, TypeOK, Steps,
       FileStates, BuiltInv, PhaseInv, OutInv, OneStampPerSignature
<1>4. CASE SignDocument
  <2>1. opts' = opts /\ Rendered = BESDoc(Len(sigs) + 1)
    BY <1>4, <1>0 DEF SignDocument, Rendered, BESDoc, Signer
  <2>2. CASE opts.profile = "BES" /\ sigs' = Append(sigs, Rendered)
             /\ UNCHANGED <<pc, built, captured, outcome>>
    <3>1. Rendered \in Finished(Len(sigs) + 1)
      BY <2>1, <2>2 DEF Finished
    <3>2. SigsInv' /\ Len(sigs') = Len(sigs) + 1
      BY <1>4, <2>1, <2>2, <3>1, AppendFinished DEF SignDocument
    <3> QED
      BY <1>0, <1>4, <2>1, <2>2, <3>2, SameOptions DEF SignDocument, TypeOK, Steps,
         FileStates, BuiltInv, PhaseInv, OutInv, OneStampPerSignature
  <2>3. CASE opts.profile = "TS" /\ built' = Rendered /\ pc' = "stamp"
             /\ UNCHANGED <<sigs, outcome>>
    BY <1>0, <1>4, <2>1, <2>3, SameSigs, SameOptions DEF SignDocument, TypeOK, Steps,
       FileStates, BuiltInv, PhaseInv, OutInv, OneStampPerSignature
  <2>4. CASE Fail /\ UNCHANGED <<built, captured, sigs>>
    BY <1>0, <1>4, <2>1, <2>4, SameSigs, SameOptions DEF SignDocument, Fail, TypeOK, Steps,
       FileStates, BuiltInv, PhaseInv, OutInv, OneStampPerSignature
  <2> QED
    BY <1>4, <2>2, <2>3, <2>4 DEF SignDocument
<1>5. CASE TimeStamp
  <2>1. opts' = opts /\ sigs' = sigs
    BY <1>5 DEF TimeStamp
  <2>2. CASE Fail
    BY <1>0, <1>5, <2>1, <2>2, SameSigs, SameOptions DEF TimeStamp, Fail, TypeOK, Steps,
       FileStates, BuiltInv, PhaseInv, OutInv, OneStampPerSignature
  <2>3. CASE \E gen \in GenTime, bound \in PolicyBound, trusted \in BOOLEAN :
               /\ captured' = Token(built.sv, gen, trusted, bound)
               /\ built' = AddUnsignedProperties(built, captured', opts.ocsp)
               /\ pc' = "guard" /\ UNCHANGED outcome
    <3>1. built = BESDoc(Len(sigs) + 1)
      BY <1>5 DEF TimeStamp, BuiltInv
    <3>2. captured' \in Tokens(Len(sigs) + 1)
      BY <2>3, <3>1, TokenOver DEF Tokens
    <3>3. built' = TSDoc(Len(sigs) + 1, captured')
      BY <2>3, <3>1 DEF TSDoc
    <3>4. BuiltInv'
      BY <2>1, <2>3, <3>2, <3>3, SameOptions DEF BuiltInv
    <3> QED
      BY <1>0, <1>5, <2>1, <2>3, <3>4, SameSigs, SameOptions DEF TimeStamp, TypeOK, Steps,
         FileStates, PhaseInv, OutInv, OneStampPerSignature
  <2> QED
    BY <1>5, <2>2, <2>3 DEF TimeStamp
<1>6. CASE CheckTSDelay
  <2>1. opts' = opts
    BY <1>6 DEF CheckTSDelay
  <2>2. CASE GuardOK /\ sigs' = Append(sigs, built) /\ pc' = "signer" /\ UNCHANGED outcome
    <3>1. opts.profile = "TS" /\ Len(sigs) < Len(opts.signers)
      BY <1>6 DEF CheckTSDelay, TypeOK
    <3>2. built \in Finished(Len(sigs) + 1)
      BY <1>6, <2>2, <3>1, GuardFinishes DEF CheckTSDelay, BuiltInv
    <3>3. SigsInv' /\ Len(sigs') = Len(sigs) + 1
      BY <2>1, <2>2, <3>1, <3>2, AppendFinished
    <3> QED
      BY <1>0, <1>6, <2>1, <2>2, <3>1, <3>3, SameOptions DEF CheckTSDelay, TypeOK, Steps,
         FileStates, BuiltInv, PhaseInv, OutInv, OneStampPerSignature
  <2>3. CASE Fail /\ UNCHANGED sigs
    BY <1>0, <1>6, <2>1, <2>3, SameSigs, SameOptions DEF CheckTSDelay, Fail, TypeOK, Steps,
       FileStates, BuiltInv, PhaseInv, OutInv, OneStampPerSignature
  <2> QED
    BY <1>6, <2>2, <2>3 DEF CheckTSDelay
<1>7. CASE WriteContainer
  <2>1. opts' = opts /\ sigs' = sigs
    BY <1>7 DEF WriteContainer
  <2>2. CASE out' = Written(ContainerEntries(opts.docs, sigs)) /\ pc' = "done" /\ outcome' = "ok"
    <3>1. /\ out'.state = "container" /\ out'.entries = ContainerEntries(opts'.docs, sigs')
      BY <2>1, <2>2 DEF Written
    <3> QED
      BY <1>0, <1>7, <2>1, <2>2, <3>1, SameSigs, SameOptions DEF WriteContainer, TypeOK, Steps,
         FileStates, BuiltInv, PhaseInv, OutInv, OneStampPerSignature
  <2>3. CASE Fail /\ (out' \in {Truncated, Partial} \/ UNCHANGED out)
    <3>1. out'.state \in FileStates \ {"container"}
      BY <1>7, <2>3 DEF WriteContainer, TypeOK, OutInv, Truncated, Partial, FileStates
    <3> QED
      BY <1>0, <1>7, <2>1, <2>3, <3>1, SameSigs, SameOptions DEF WriteContainer, Fail, TypeOK,
         Steps, FileStates, BuiltInv, PhaseInv, OutInv, OneStampPerSignature
  <2> QED
    BY <1>7, <2>2, <2>3 DEF WriteContainer
<1>8. CASE Interrupt
  <2>1. opts' = opts /\ sigs' = sigs
    BY <1>8 DEF Interrupt
  <2>2. CASE UNCHANGED out
    BY <1>0, <1>8, <2>1, <2>2, SameSigs, SameOptions DEF Interrupt, TypeOK, Steps,
       FileStates, BuiltInv, PhaseInv, OutInv, OneStampPerSignature
  <2>3. CASE /\ pc = "signer" /\ Len(sigs) = Len(opts.signers)
             /\ out' \in {Partial, Written(ContainerEntries(opts.docs, sigs))}
    <3>1. /\ out'.state \in FileStates
          /\ out'.state = "container" => out'.entries = ContainerEntries(opts'.docs, sigs')
      BY <2>1, <2>3 DEF Written, Partial, FileStates
    <3> QED
      BY <1>0, <1>8, <2>1, <2>3, <3>1, SameSigs, SameOptions DEF Interrupt, TypeOK, Steps,
         BuiltInv, PhaseInv, OutInv, OneStampPerSignature
  <2> QED
    BY <1>8, <2>2, <2>3 DEF Interrupt
<1> QED
  BY <1>1, <1>2, <1>3, <1>4, <1>5, <1>6, <1>7, <1>8 DEF Next, Work

LEMMA Invariance == Spec => []IInv
<1>1. Init => IInv
  BY InitIInv
<1>2. IInv /\ [Next]_vars => IInv'
  BY NextIInv
<1> QED
  BY <1>1, <1>2, PTL DEF Spec

LEMMA IInvFinished == IInv => ContainerIsFinished
<1> SUFFICES ASSUME IInv
             PROVE  ContainerIsFinished
  OBVIOUS
<1>1. Len(sigs) \in Nat /\ DOMAIN sigs = 1..Len(sigs)
  BY DEF IInv, SigsInv
<1>2. ASSUME out.state = "container", NEW k \in DOMAIN sigs
      PROVE  /\ sigs[k].cert = opts.signers[k].cert /\ sigs[k].id = SignatureID(k - 1)
             /\ sigs[k].sv.id = SignatureValueID(k - 1)
             /\ opts.profile = "TS" => TimeStamped(sigs[k])
  <2>1. sigs[k] \in Finished(k)
    BY <1>1, <1>2 DEF IInv, SigsInv
  <2>2. CASE opts.profile = "TS"
    <3>1. TimeStamped(sigs[k])
      BY <2>1, <2>2 DEF Finished
    <3>2. PICK token \in Tokens(k) : sigs[k] = TSDoc(k, token)
      BY <2>1, <2>2 DEF Finished
    <3>3. /\ sigs[k].id = BESDoc(k).id /\ sigs[k].cert = BESDoc(k).cert
          /\ sigs[k].sv = BESDoc(k).sv
      BY <3>2, TSFields
    <3>4. /\ BESDoc(k).cert = opts.signers[k].cert /\ BESDoc(k).id = SignatureID(k - 1)
          /\ BESDoc(k).sv.id = SignatureValueID(k - 1)
      BY BESFields
    <3> QED
      BY <3>1, <3>3, <3>4
  <2>3. CASE opts.profile # "TS"
    <3>1. sigs[k] = BESDoc(k)
      BY <2>1, <2>3 DEF Finished
    <3> QED
      BY <2>3, <3>1, BESFields
  <2> QED
    BY <2>2, <2>3
<1> QED
  BY <1>2 DEF IInv, OutInv, ContainerIsFinished

(* A signature is by someone who could sign, and what is written could be. *)
WriterInv ==
  /\ \A k \in 1..Len(sigs) : opts.signers[k].cert # NoCert
  /\ pc \in {"stamp", "guard"} => opts.signers[Len(sigs) + 1].cert # NoCert
  /\ out.state = "container" => OptionsOK /\ Writable

LEMMA FreshWriterInv ==
  ASSUME NEW file \in {Absent, Old}, InitFor(opts, file)
  PROVE  WriterInv
<1>1. sigs = <<>> /\ pc = "output" /\ out.state # "container"
  BY DEF InitFor, Absent, Old
<1> QED
  BY <1>1 DEF WriterInv

LEMMA NextWriterInv == IInv /\ WriterInv /\ [Next]_vars => WriterInv'
<1> SUFFICES ASSUME IInv, WriterInv, [Next]_vars
             PROVE  WriterInv'
  OBVIOUS
<1>0. /\ Len(sigs) \in Nat /\ pc \in {"signer", "stamp", "guard"} => OptionsOK
      /\ out.state = "container" => pc = "done"
  BY DEF IInv, SigsInv, PhaseInv, OutInv
<1>1. opts' = opts
  BY DEF Next, Work, vars, OpenOutput, CheckOptions, SignDocument, TimeStamp, CheckTSDelay,
     WriteContainer, Interrupt
<1>2. OptionsOK' <=> OptionsOK
  BY <1>1, SameOptions
<1>3. sigs' = sigs => (Writable' <=> Writable)
  BY <1>1 DEF Writable
<1>4. CASE UNCHANGED vars
  BY <1>2, <1>3, <1>4 DEF vars, WriterInv
<1>5. CASE OpenOutput \/ CheckOptions
  BY <1>0, <1>1, <1>2, <1>3, <1>5 DEF WriterInv, OpenOutput, CheckOptions, Fail, Truncated
<1>6. CASE SignDocument
  <2>1. /\ pc = "signer" /\ out' = out
        /\ \/ Signer.cert # NoCert /\ sigs' = Append(sigs, Rendered) /\ pc' = pc
           \/ Signer.cert # NoCert /\ sigs' = sigs
           \/ sigs' = sigs /\ pc' = "done"
    BY <1>6 DEF SignDocument, Fail
  <2>2. out.state # "container" /\ Signer = opts.signers[Len(sigs) + 1]
    BY <1>0, <2>1 DEF Signer
  <2>3. CASE Signer.cert # NoCert /\ sigs' = Append(sigs, Rendered) /\ pc' = pc
    <3>1. Len(sigs') = Len(sigs) + 1
      BY <1>0, <2>3 DEF IInv, SigsInv
    <3>2. \A k \in 1..Len(sigs') : k \in 1..Len(sigs) \/ k = Len(sigs) + 1
      BY <1>0, <3>1
    <3> QED
      BY <1>1, <2>1, <2>2, <2>3, <3>2 DEF WriterInv
  <2>4. CASE Signer.cert # NoCert /\ sigs' = sigs
    BY <1>1, <2>1, <2>2, <2>4 DEF WriterInv
  <2>5. CASE sigs' = sigs /\ pc' = "done"
    BY <1>1, <2>1, <2>2, <2>5 DEF WriterInv
  <2> QED
    BY <2>1, <2>3, <2>4, <2>5
<1>7. CASE TimeStamp
  <2>1. pc = "stamp" /\ sigs' = sigs /\ out' = out
    BY <1>7 DEF TimeStamp
  <2> QED
    BY <1>0, <1>1, <2>1 DEF WriterInv
<1>8. CASE CheckTSDelay
  <2>1. /\ pc = "guard" /\ out' = out
        /\ \/ sigs' = Append(sigs, built) /\ pc' = "signer"
           \/ sigs' = sigs /\ pc' = "done"
    BY <1>8 DEF CheckTSDelay, Fail
  <2>2. CASE sigs' = Append(sigs, built) /\ pc' = "signer"
    <3>1. Len(sigs') = Len(sigs) + 1
      BY <1>0, <2>2 DEF IInv, SigsInv
    <3>2. \A k \in 1..Len(sigs') : k \in 1..Len(sigs) \/ k = Len(sigs) + 1
      BY <1>0, <3>1
    <3> QED
      BY <1>0, <1>1, <2>1, <2>2, <3>2 DEF WriterInv
  <2>3. CASE sigs' = sigs /\ pc' = "done"
    BY <1>0, <1>1, <2>1, <2>3 DEF WriterInv
  <2> QED
    BY <2>1, <2>2, <2>3
<1>9. CASE WriteContainer
  <2>1. /\ pc = "signer" /\ sigs' = sigs /\ pc' = "done"
        /\ Writable \/ out'.state # "container"
    BY <1>0, <1>9 DEF WriteContainer, Fail, Truncated, Partial
  <2> QED
    BY <1>0, <1>1, <1>2, <1>3, <2>1 DEF WriterInv
<1>10. CASE Interrupt
  <2>1. /\ pc # "done" /\ sigs' = sigs /\ pc' = "done"
        /\ (pc = "signer" /\ Writable) \/ out' = out
    BY <1>10 DEF Interrupt
  <2> QED
    BY <1>0, <1>1, <1>2, <1>3, <2>1 DEF WriterInv
<1> QED
  BY <1>4, <1>5, <1>6, <1>7, <1>8, <1>9, <1>10 DEF Next, Work

-----------------------------------------------------------------------------
(* asic.Create keeps its own bookkeeping within its types, for any options *)
(* and any number of signers.                                              *)
THEOREM TypeCorrect == Spec => []TypeOK
<1>1. IInv => TypeOK
  BY DEF IInv
<1> QED
  BY <1>1, Invariance, PTL

(* A container at the output path is complete, and in the TS profile each  *)
(* of its signatures carries a time-stamp over its own final signature     *)
(* value whose genTime the stored OCSP answer's producedAt follows within  *)
(* the bound: for any options, signers and answers, killed or not.         *)
THEOREM Finishedness == Spec => []ContainerIsFinished
BY Invariance, IInvFinished, PTL

(* One time-stamp request per signature, none before the previous one      *)
(* passed the guard, none in the BES profile.                              *)
THEOREM StampsCounted == Spec => []OneStampPerSignature
<1>1. IInv => OneStampPerSignature
  BY DEF IInv
<1> QED
  BY <1>1, Invariance, PTL

-----------------------------------------------------------------------------
(* Until the inputs are read Create has done nothing, unless it is killed. *)
InputsInv == step = "inputs" /\ outcome = "running" => pc = "output"

LEMMA CommandStarts == CommandInit => Init /\ InputsInv
BY CommandAssumption DEF CommandInit, Init, InitFor, InputsInv

(* The command's steps are Create's: reading the inputs is no step of      *)
(* Create, or, when they are refused, the failure of its first.            *)
LEMMA CommandSteps ==
  ASSUME InputsInv, CommandNext
  PROVE  [Next]_vars /\ InputsInv'
<1>1. CASE ReadInputs
  <2>1. pc = "output" /\ step' # "inputs"
    BY <1>1 DEF ReadInputs, InputsInv
  <2>2. CASE UNCHANGED vars
    BY <2>1, <2>2 DEF InputsInv
  <2>3. CASE Fail /\ UNCHANGED <<opts, built, captured, sigs, asked, out>>
    <3>1. OpenOutput
      BY <2>1, <2>3 DEF OpenOutput
    <3> QED
      BY <2>1, <3>1 DEF Next, Work, InputsInv
  <2> QED
    BY <1>1, <2>2, <2>3 DEF ReadInputs
<1>2. CASE Creating
  BY <1>2 DEF Creating, commandVars, Next, InputsInv
<1>3. CASE CloseOutput
  BY <1>3 DEF CloseOutput, InputsInv
<1>4. CASE Killed
  BY <1>4 DEF Killed, Interrupt, commandVars, Next, InputsInv
<1> QED
  BY <1>1, <1>2, <1>3, <1>4 DEF CommandNext, CommandWork

LEMMA CommandInvariance == CommandSpec => [](InputsInv /\ IInv)
<1>1. CommandInit => InputsInv /\ IInv
  BY CommandStarts, InitIInv
<1>2. InputsInv /\ IInv /\ [CommandNext]_<<vars, commandVars>> => InputsInv' /\ IInv'
  <2> SUFFICES ASSUME InputsInv, IInv, [CommandNext]_<<vars, commandVars>>
               PROVE  InputsInv' /\ IInv'
    OBVIOUS
  <2>1. [Next]_vars /\ InputsInv'
    <3>1. CASE CommandNext
      BY <3>1, CommandSteps
    <3>2. CASE UNCHANGED <<vars, commandVars>>
      BY <3>2 DEF vars, commandVars, InputsInv
    <3> QED
      BY <3>1, <3>2
  <2> QED
    BY <2>1, NextIInv
<1> QED
  BY <1>1, <1>2, PTL DEF CommandSpec

(* The same holds of the whole command, whatever the files hold: what it   *)
(* leaves at the output path is a finished container or none.              *)
THEOREM CommandFinishedness == CommandSpec => []ContainerIsFinished
BY CommandInvariance, IInvFinished, PTL

(* And no command asks for more than one time-stamp per signature.         *)
THEOREM CommandStampsCounted == CommandSpec => []OneStampPerSignature
<1>1. IInv => OneStampPerSignature
  BY DEF IInv
<1> QED
  BY <1>1, CommandInvariance, PTL
-----------------------------------------------------------------------------
(* Counting up from zero, by the least number that is missed.              *)
LEMMA CountedUp ==
  ASSUME NEW n \in Nat, NEW S, 0 \in S, \A i \in 1..n : i - 1 \in S => i \in S
  PROVE  n \in S
<1> DEFINE Bad == {i \in 0..n : i \notin S}
<1>1. CASE Bad # {}
  <2>1. Bad \subseteq Nat
    OBVIOUS
  <2>2. PICK i \in Bad : \A m \in Bad : ~(<<m, i>> \in OpToRel(<, Nat))
    <3> HIDE DEF Bad
    <3> QED
      BY <1>1, <2>1, WFMin, NatLessThanWellFounded
  <2>3. i \in 1..n /\ i - 1 \in 0..n /\ i - 1 < i /\ i - 1 \in Nat /\ i \in Nat
    OBVIOUS
  <2>4. <<i - 1, i>> \in OpToRel(<, Nat)
    <3> DEFINE edge == <<i - 1, i>>
    <3>1. edge \in Nat \X Nat /\ edge[1] < edge[2]
      BY <2>3
    <3> HIDE DEF edge
    <3>2. edge \in OpToRel(<, Nat)
      BY <3>1, Zenon DEF OpToRel
    <3> QED
      BY <3>2 DEF edge
  <2>5. i - 1 \notin Bad
    BY <2>2, <2>4
  <2>6. i - 1 \in S
    BY <2>3, <2>5
  <2> QED
    BY <2>3, <2>6
<1>2. CASE Bad = {}
  BY <1>2
<1> QED
  BY <1>1, <1>2

(* The loop over a signer file's blocks.  It reaches the end of each file. *)
ReadOn(acc, b, types) == IF b.type \in types THEN Scan(acc, b) ELSE acc
IsReading(f, blocks, types, n) ==
  f = [i \in 0..n |-> IF i = 0 THEN NothingRead
                      ELSE IF blocks[i].type \in types THEN Scan(f[i - 1], blocks[i])
                      ELSE f[i - 1]]

LEMMA ReadingExists ==
  ASSUME NEW blocks, NEW types, NEW n \in Nat
  PROVE  \E f : IsReading(f, blocks, types, n)
<1> DEFINE S == {k \in Nat : \E f : IsReading(f, blocks, types, k)}
<1>1. 0 \in S
  <2>1. IsReading([i \in 0..0 |-> NothingRead], blocks, types, 0)
    BY DEF IsReading
  <2> QED
    BY <2>1
<1>2. ASSUME NEW k \in 1..n, k - 1 \in S PROVE k \in S
  <2>1. k \in Nat /\ k # 0 /\ k - 1 \in Nat
    OBVIOUS
  <2>2. PICK f : IsReading(f, blocks, types, k - 1)
    BY <1>2
  <2> DEFINE last == ReadOn(f[k - 1], blocks[k], types)
             g    == [i \in 0..k |-> IF i = k THEN last ELSE f[i]]
             Next0(h, i) == IF i = 0 THEN NothingRead ELSE ReadOn(h[i - 1], blocks[i], types)
  <2>3. \A i \in 0..(k - 1) : f[i] = Next0(f, i)
    BY <2>2 DEF IsReading, ReadOn
  <2>4. ASSUME NEW i \in 0..k PROVE g[i] = Next0(g, i)
    <3>1. CASE i = k
      BY <3>1, <2>1
    <3>2. CASE i # k
      <4>1. i \in 0..(k - 1)
        BY <3>2, <2>1
      <4>2. i = 0 \/ (i - 1 \in 0..k /\ i - 1 # k)
        BY <4>1, <2>1
      <4> QED
        BY <2>3, <3>2, <4>1, <4>2
    <3> QED
      BY <3>1, <3>2
  <2>5. g = [i \in 0..k |-> g[i]]
    OBVIOUS
  <2> HIDE DEF g
  <2>6. IsReading(g, blocks, types, k)
    BY <2>4, <2>5 DEF IsReading, ReadOn
  <2> QED
    BY <2>1, <2>6
<1> HIDE DEF S
<1>3. n \in S
  BY <1>1, <1>2, CountedUp
<1> QED
  BY <1>3 DEF S

(* What has been read after n blocks.                                      *)
Certificates(blocks, n)  == {i \in 1..n : blocks[i].type = "certificate"}
Others(blocks, types, n) == {i \in 1..n : blocks[i].type \in types \ {"certificate"}}
KeyOf(b) == IF Decodes(b) THEN b.key ELSE NoKey
HasRead(acc, blocks, types, n) ==
  LET C == Certificates(blocks, n)
      K == Others(blocks, types, n)
  IN  /\ acc = [bad |-> acc.bad, cert |-> acc.cert, key |-> acc.key, keyBlocks |-> acc.keyBlocks]
      /\ acc.bad <=> \/ \E i \in C : ~blocks[i].parses
                     \/ \E i, j \in C : i # j
                     \/ \E i, j \in K : i # j
      /\ acc.keyBlocks \in Nat /\ (acc.keyBlocks = 0 <=> K = {})
      /\ C = {} => acc.cert = NoBlock
      /\ ~acc.bad => \A i \in C : acc.cert = blocks[i]
      /\ K = {} => acc.key = NoKey
      /\ ~acc.bad => \A i \in K : acc.key = KeyOf(blocks[i])

LEMMA ScanForm ==
  ASSUME NEW acc, NEW b,
         acc = [bad |-> acc.bad, cert |-> acc.cert, key |-> acc.key, keyBlocks |-> acc.keyBlocks]
  PROVE  /\ b.type = "certificate" =>
              Scan(acc, b) = [bad  |-> acc.bad \/ acc.cert # NoBlock \/ ~b.parses, cert |-> b,
                              key |-> acc.key, keyBlocks |-> acc.keyBlocks]
         /\ b.type # "certificate" =>
              Scan(acc, b) = [bad  |-> acc.bad \/ acc.keyBlocks > 0, cert |-> acc.cert,
                              key  |-> IF Decodes(b) THEN b.key ELSE acc.key,
                              keyBlocks |-> acc.keyBlocks + 1]
<1> DEFINE r == [bad |-> acc.bad, cert |-> acc.cert, key |-> acc.key, keyBlocks |-> acc.keyBlocks]
<1>1. Scan(acc, b) = Scan(r, b)
  OBVIOUS
<1>2. b.type = "certificate" =>
        Scan(r, b) = [bad  |-> acc.bad \/ acc.cert # NoBlock \/ ~b.parses, cert |-> b,
                      key |-> acc.key, keyBlocks |-> acc.keyBlocks]
  BY DEF Scan
<1>3. b.type # "certificate" =>
        Scan(r, b) = [bad  |-> acc.bad \/ acc.keyBlocks > 0, cert |-> acc.cert,
                      key  |-> IF Decodes(b) THEN b.key ELSE acc.key,
                      keyBlocks |-> acc.keyBlocks + 1]
  BY DEF Scan
<1> QED
  BY <1>1, <1>2, <1>3
LEMMA ReadsOn ==
  ASSUME NEW blocks, NEW types, "certificate" \in types, NEW n \in Nat \ {0}, NEW acc,
         HasRead(acc, blocks, types, n - 1)
  PROVE  HasRead(ReadOn(acc, blocks[n], types), blocks, types, n)
<1> DEFINE C  == Certificates(blocks, n)
           K  == Others(blocks, types, n)
           C0 == Certificates(blocks, n - 1)
           K0 == Others(blocks, types, n - 1)
           b  == blocks[n]
<1>1. \A i \in 1..n : i \in 1..(n - 1) \/ i = n
  OBVIOUS
<1>2. n \in 1..n /\ n \notin 1..(n - 1) /\ 1..(n - 1) \subseteq 1..n
  OBVIOUS
<1>3. b.type = "certificate" => C = C0 \cup {n} /\ K = K0 /\ n \notin C0
  BY <1>1, <1>2 DEF Certificates, Others
<1>4. b.type \in types \ {"certificate"} => C = C0 /\ K = K0 \cup {n} /\ n \notin K0
  BY <1>1, <1>2 DEF Certificates, Others
<1>5. b.type \notin types => C = C0 /\ K = K0
  BY <1>1, <1>2 DEF Certificates, Others
<1> HIDE DEF C, K, C0, K0
<1>6. /\ acc = [bad |-> acc.bad, cert |-> acc.cert, key |-> acc.key, keyBlocks |-> acc.keyBlocks]
      /\ acc.bad <=> \/ \E i \in C0 : ~blocks[i].parses
                     \/ \E i, j \in C0 : i # j
                     \/ \E i, j \in K0 : i # j
      /\ acc.keyBlocks \in Nat /\ (acc.keyBlocks = 0 <=> K0 = {})
      /\ C0 = {} => acc.cert = NoBlock
      /\ ~acc.bad => \A i \in C0 : acc.cert = blocks[i]
      /\ K0 = {} => acc.key = NoKey
      /\ ~acc.bad => \A i \in K0 : acc.key = KeyOf(blocks[i])
  BY DEF HasRead, C0, K0
<1> DEFINE Goal(a) ==
      /\ a = [bad |-> a.bad, cert |-> a.cert, key |-> a.key, keyBlocks |-> a.keyBlocks]
      /\ a.bad <=> \/ \E i \in C : ~blocks[i].parses
                   \/ \E i, j \in C : i # j
                   \/ \E i, j \in K : i # j
      /\ a.keyBlocks \in Nat /\ (a.keyBlocks = 0 <=> K = {})
      /\ C = {} => a.cert = NoBlock
      /\ ~a.bad => \A i \in C : a.cert = blocks[i]
      /\ K = {} => a.key = NoKey
      /\ ~a.bad => \A i \in K : a.key = KeyOf(blocks[i])
<1>7. CASE b.type = "certificate"
  <2> DEFINE a == Scan(acc, b)
  <2>1. a = [bad  |-> acc.bad \/ acc.cert # NoBlock \/ ~b.parses, cert |-> b,
             key |-> acc.key, keyBlocks |-> acc.keyBlocks]
    BY <1>6, <1>7, ScanForm
  <2> HIDE DEF a
  <2>2. /\ a.cert = b /\ a.key = acc.key /\ a.keyBlocks = acc.keyBlocks
        /\ a.bad <=> acc.bad \/ acc.cert # NoBlock \/ ~b.parses
        /\ a = [bad |-> a.bad, cert |-> a.cert, key |-> a.key, keyBlocks |-> a.keyBlocks]
    BY <2>1
  <2>3. ASSUME ~acc.bad PROVE acc.cert # NoBlock <=> C0 # {}
    <3>1. CASE C0 = {}
      BY <1>6, <3>1
    <3>2. CASE C0 # {}
      <4>1. PICK i \in C0 : TRUE
        BY <3>2
      <4>2. acc.cert = blocks[i] /\ blocks[i].parses
        BY <1>6, <2>3, <4>1
      <4>3. ~NoBlock.parses
        BY DEF NoBlock
      <4> QED
        BY <3>2, <4>2, <4>3
    <3> QED
      BY <3>1, <3>2
  <2>4. a.bad <=> \/ \E i \in C : ~blocks[i].parses
                  \/ \E i, j \in C : i # j
                  \/ \E i, j \in K : i # j
    <3>1. CASE acc.bad
      BY <1>3, <1>6, <1>7, <2>2, <3>1
    <3>2. CASE ~acc.bad
      BY <1>3, <1>6, <1>7, <2>2, <2>3, <3>2
    <3> QED
      BY <3>1, <3>2
  <2>5. ~a.bad => \A i \in C : a.cert = blocks[i]
    BY <1>3, <1>7, <2>2, <2>4
  <2>6. Goal(a)
    BY <1>3, <1>6, <1>7, <2>2, <2>4, <2>5
  <2>7. ReadOn(acc, b, types) = a
    BY <1>7 DEF ReadOn, a
  <2> QED
    BY <2>6, <2>7 DEF HasRead, C, K
<1>8. CASE b.type \in types \ {"certificate"}
  <2> DEFINE a == Scan(acc, b)
  <2>1. a = [bad  |-> acc.bad \/ acc.keyBlocks > 0, cert |-> acc.cert,
             key  |-> IF Decodes(b) THEN b.key ELSE acc.key, keyBlocks |-> acc.keyBlocks + 1]
    BY <1>6, <1>8, ScanForm
  <2> HIDE DEF a
  <2>2. /\ a.cert = acc.cert /\ a.key = (IF Decodes(b) THEN b.key ELSE acc.key)
        /\ a.keyBlocks = acc.keyBlocks + 1
        /\ a.bad <=> acc.bad \/ acc.keyBlocks > 0
        /\ a = [bad |-> a.bad, cert |-> a.cert, key |-> a.key, keyBlocks |-> a.keyBlocks]
    BY <2>1
  <2>3. acc.keyBlocks > 0 <=> K0 # {}
    BY <1>6
  <2>4. a.bad <=> \/ \E i \in C : ~blocks[i].parses
                  \/ \E i, j \in C : i # j
                  \/ \E i, j \in K : i # j
    <3>1. CASE acc.bad
      BY <1>4, <1>6, <1>8, <2>2, <3>1
    <3>2. CASE ~acc.bad
      BY <1>4, <1>6, <1>8, <2>2, <2>3, <3>2
    <3> QED
      BY <3>1, <3>2
  <2>5. ASSUME ~a.bad, NEW i \in K PROVE a.key = KeyOf(blocks[i])
    <3>1. K0 = {} /\ i = n
      BY <1>4, <1>8, <2>2, <2>3, <2>5
    <3>2. acc.key = NoKey
      BY <1>6, <3>1
    <3> QED
      BY <2>2, <3>1, <3>2 DEF KeyOf
  <2>6. a.keyBlocks \in Nat /\ a.keyBlocks # 0 /\ K # {}
    BY <1>4, <1>6, <1>8, <2>2
  <2>7. ~a.bad => \A i \in C : a.cert = blocks[i]
    BY <1>4, <1>6, <1>8, <2>2
  <2>8. Goal(a)
    BY <1>4, <1>6, <1>8, <2>2, <2>4, <2>5, <2>6, <2>7
  <2>9. ReadOn(acc, b, types) = a
    BY <1>8 DEF ReadOn, a
  <2> QED
    BY <2>8, <2>9 DEF HasRead, C, K
<1>9. CASE b.type \notin types
  <2>1. ReadOn(acc, b, types) = acc
    BY <1>9 DEF ReadOn
  <2>2. Goal(acc)
    BY <1>5, <1>6, <1>9
  <2> QED
    BY <2>1, <2>2 DEF HasRead, C, K
<1> QED
  BY <1>7, <1>8, <1>9

LEMMA ScanReads ==
  ASSUME NEW blocks, NEW types, "certificate" \in types, Len(blocks) \in Nat
  PROVE  HasRead(ScanAll(blocks, types), blocks, types, Len(blocks))
<1> DEFINE n == Len(blocks)
           f == CHOOSE g : IsReading(g, blocks, types, n)
           S == {k \in 0..n : HasRead(f[k], blocks, types, k)}
<1>0. n \in Nat
  OBVIOUS
<1>1. ScanAll(blocks, types) = f[n]
  BY DEF ScanAll, IsReading
<1>2. IsReading(f, blocks, types, n)
  BY <1>0, ReadingExists
<1> HIDE DEF f, n
<1>3. f[0] = NothingRead /\ \A k \in 1..n : f[k] = ReadOn(f[k - 1], blocks[k], types)
  BY <1>0, <1>2 DEF IsReading, ReadOn
<1>4. HasRead(NothingRead, blocks, types, 0)
  BY DEF HasRead, NothingRead, Certificates, Others
<1>5. 0 \in S
  BY <1>0, <1>3, <1>4
<1>6. ASSUME NEW k \in 1..n, k - 1 \in S PROVE k \in S
  <2>1. k \in Nat \ {0} /\ k \in 0..n
    BY <1>0
  <2>2. HasRead(f[k - 1], blocks, types, k - 1)
    BY <1>6
  <2>3. HasRead(ReadOn(f[k - 1], blocks[k], types), blocks, types, k)
    BY <2>1, <2>2, ReadsOn
  <2> QED
    BY <1>3, <2>1, <2>3
<1> HIDE DEF S
<1>7. n \in S
  BY <1>0, <1>5, <1>6, CountedUp
<1> QED
  BY <1>1, <1>7 DEF S, n

(* What a file's blocks are.                                               *)
LEMMA BlockFacts ==
  ASSUME NEW blocks \in Seq(BlockType)
  PROVE  /\ Len(blocks) \in Nat /\ DOMAIN blocks = 1..Len(blocks)
         /\ \A i \in 1..Len(blocks) :
              /\ blocks[i].type \in {"certificate", "key", "other"}
              /\ blocks[i].type = "certificate" /\ blocks[i].parses =>
                   blocks[i].key \in Key /\ blocks[i].cert \in Cert
              /\ Decodes(blocks[i]) => blocks[i].key \in Key
<1>1. Len(blocks) \in Nat /\ DOMAIN blocks = 1..Len(blocks)
      /\ \A i \in 1..Len(blocks) : blocks[i] \in BlockType
  OBVIOUS
<1> QED
  BY <1>1 DEF BlockType, Block, Decodes

(* A signer file has a signer only if it holds one, and whenever it holds  *)
(* one and nothing else.                                                   *)
LEMMA OneFileHolds ==
  ASSUME NEW a \in CommandLineType, NoKey \notin Key, NoCert \notin Cert, SignerKey \subseteq Key,
         a.cert.state = "read", a.key.state = "none"
  PROVE  /\ SignerOf(a) # NoCert => SignerOf(a) \in Cert /\ HoldsSigner(a, SignerOf(a))
         /\ ~HasOtherBlock(a.cert) /\ (\E cert : HoldsSigner(a, cert)) => SignerOf(a) # NoCert
<1> DEFINE blocks == a.cert.blocks
           types  == {"certificate", "key", "other"}
           n == Len(blocks)
           r == ScanAll(blocks, types)
           C == Certificates(blocks, n)
           K == Others(blocks, types, n)
<1>1. blocks \in Seq(BlockType)
  BY DEF CommandLineType, FileType
<1>2. HasRead(r, blocks, types, n)
  BY <1>1, BlockFacts, ScanReads
<1>3. SignerOf(a) = SignerFor(r, r.key)
  BY DEF SignerOf, ParseSigner
<1>4. /\ r.bad <=> \/ \E i \in C : ~blocks[i].parses
                   \/ \E i, j \in C : i # j
                   \/ \E i, j \in K : i # j
      /\ C = {} => r.cert = NoBlock
      /\ ~r.bad => \A i \in C : r.cert = blocks[i]
      /\ K = {} => r.key = NoKey
      /\ ~r.bad => \A i \in K : r.key = KeyOf(blocks[i])
  BY <1>2 DEF HasRead
<1> HIDE DEF r
<1>5. /\ DOMAIN blocks = 1..n /\ C \cup K = 1..n /\ C \cap K = {}
      /\ \A i \in 1..n : i \in C <=> blocks[i].type = "certificate"
  BY <1>1, BlockFacts DEF Certificates, Others
<1>6. \A i \in 1..n :
        /\ i \in C /\ blocks[i].parses => blocks[i].key \in Key /\ blocks[i].cert \in Cert
        /\ Decodes(blocks[i]) => blocks[i].key \in Key
  BY <1>1, <1>5, BlockFacts
<1> HIDE DEF C, K, n
<1>7. ASSUME SignerOf(a) # NoCert PROVE SignerOf(a) \in Cert /\ HoldsSigner(a, SignerOf(a))
  <2>1. /\ ~r.bad /\ r.cert # NoBlock /\ r.key # NoKey /\ r.key \in SignerKey
        /\ r.key = r.cert.key /\ SignerOf(a) = r.cert.cert
    BY <1>3, <1>7 DEF SignerFor
  <2>2. PICK i \in C : TRUE
    BY <1>4, <2>1
  <2>3. PICK j \in K : TRUE
    BY <1>4, <2>1
  <2>4. r.cert = blocks[i] /\ blocks[i].parses /\ C = {i} /\ K = {j}
    BY <1>4, <2>1, <2>2, <2>3
  <2>5. r.key = KeyOf(blocks[j])
    BY <1>4, <2>1, <2>3
  <2>6. Decodes(blocks[j]) /\ blocks[j].key = blocks[i].key
    BY <2>1, <2>4, <2>5 DEF KeyOf
  <2>7. OnlyOfType(blocks, i, "certificate") /\ OnlyOfType(blocks, j, "key")
    BY <1>5, <2>4, <2>6 DEF OnlyOfType, Decodes
  <2>8. i \in DOMAIN blocks /\ j \in DOMAIN blocks /\ blocks[i].cert \in Cert
    BY <1>5, <1>6, <2>4
  <2> QED
    BY <2>1, <2>4, <2>6, <2>7, <2>8 DEF HoldsSigner, Decodes
<1>8. ASSUME NEW cert, HoldsSigner(a, cert), ~HasOtherBlock(a.cert) PROVE SignerOf(a) # NoCert
  <2>1. PICK i \in DOMAIN blocks :
          /\ OnlyOfType(blocks, i, "certificate")
          /\ blocks[i].parses /\ blocks[i].key \in SignerKey
          /\ \E j \in DOMAIN blocks :
               /\ OnlyOfType(blocks, j, "key")
               /\ blocks[j].parses /\ blocks[j].key = blocks[i].key
    BY <1>8 DEF HoldsSigner
  <2>2. PICK j \in DOMAIN blocks :
          /\ OnlyOfType(blocks, j, "key")
          /\ blocks[j].parses /\ blocks[j].key = blocks[i].key
    BY <2>1
  <2>3. C = {i} /\ K = {j} /\ Decodes(blocks[j])
    <3>1. blocks[i].type = "certificate" /\ blocks[j].type = "key"
      BY <2>1, <2>2 DEF OnlyOfType
    <3>2. \A m \in 1..n : blocks[m].type \in {"certificate", "key"}
      BY <1>1, <1>5, <1>8, BlockFacts DEF HasOtherBlock
    <3>3. /\ \A m \in 1..n : m \in C <=> m = i
          /\ \A m \in 1..n : m \in K <=> m = j
      BY <1>5, <2>1, <2>2, <3>1, <3>2 DEF OnlyOfType
    <3> QED
      BY <1>5, <2>2, <3>1, <3>3 DEF Decodes
  <2>4. ~r.bad
    BY <1>4, <2>1, <2>3
  <2>5. r.cert = blocks[i] /\ r.key = blocks[i].key
    BY <1>4, <2>2, <2>3, <2>4 DEF KeyOf
  <2>6. blocks[i].key \in Key /\ blocks[i].cert \in Cert
    BY <1>5, <1>6, <2>1, <2>3
  <2>7. blocks[i] # NoBlock
    BY <2>1 DEF NoBlock
  <2> QED
    BY <1>3, <2>1, <2>4, <2>5, <2>6, <2>7 DEF SignerFor
<1> QED
  BY <1>7, <1>8

LEMMA TwoFilesHold ==
  ASSUME NEW a \in CommandLineType, NoKey \notin Key, NoCert \notin Cert, SignerKey \subseteq Key,
         a.cert.state = "read", a.key.state = "read"
  PROVE  /\ SignerOf(a) # NoCert => SignerOf(a) \in Cert /\ HoldsSigner(a, SignerOf(a))
         /\ (\E cert : HoldsSigner(a, cert)) => SignerOf(a) # NoCert
<1> DEFINE blocks == a.cert.blocks
           types  == {"certificate"}
           n == Len(blocks)
           r == ScanAll(blocks, types)
           k == ParsePrivateKey(a.key)
           C == Certificates(blocks, n)
<1>1. blocks \in Seq(BlockType)
  BY DEF CommandLineType, FileType
<1>2. HasRead(r, blocks, types, n)
  BY <1>1, BlockFacts, ScanReads
<1>3. SignerOf(a) = SignerFor(r, k)
  BY DEF SignerOf, ParseSignerCertKey
<1>4. Others(blocks, types, n) = {}
  BY DEF Others
<1>5. /\ r.bad <=> (\E i \in C : ~blocks[i].parses) \/ (\E i, j \in C : i # j)
      /\ C = {} => r.cert = NoBlock
      /\ ~r.bad => \A i \in C : r.cert = blocks[i]
  BY <1>2, <1>4 DEF HasRead
<1>6. /\ DOMAIN blocks = 1..n
      /\ \A i \in 1..n : i \in C <=> blocks[i].type = "certificate"
      /\ C \subseteq 1..n
      /\ \A i \in C : blocks[i].parses => blocks[i].key \in Key /\ blocks[i].cert \in Cert
  BY <1>1, BlockFacts DEF Certificates
<1> DEFINE Matches(key) == IF a.key.blocks = <<>> THEN a.key.der = key
                           ELSE Decodes(a.key.blocks[1]) /\ a.key.blocks[1].key = key
<1>7. \A key \in Key : k = key <=> Matches(key)
  BY DEF ParsePrivateKey
<1> HIDE DEF r, C, n, k
<1>8. ASSUME SignerOf(a) # NoCert PROVE SignerOf(a) \in Cert /\ HoldsSigner(a, SignerOf(a))
  <2>1. /\ ~r.bad /\ r.cert # NoBlock /\ k = r.cert.key /\ SignerOf(a) = r.cert.cert
        /\ k \in SignerKey
    BY <1>3, <1>8 DEF SignerFor
  <2>2. PICK i \in C : TRUE
    BY <1>5, <2>1
  <2>3. r.cert = blocks[i] /\ blocks[i].parses /\ C = {i}
    BY <1>5, <2>1, <2>2
  <2>4. Matches(blocks[i].key)
    BY <1>6, <1>7, <2>1, <2>2, <2>3
  <2>5. OnlyOfType(blocks, i, "certificate") /\ i \in DOMAIN blocks /\ blocks[i].cert \in Cert
    BY <1>6, <2>3 DEF OnlyOfType
  <2> QED
    BY <2>1, <2>3, <2>4, <2>5 DEF HoldsSigner
<1>9. ASSUME NEW cert, HoldsSigner(a, cert) PROVE SignerOf(a) # NoCert
  <2>1. PICK i \in DOMAIN blocks :
          /\ OnlyOfType(blocks, i, "certificate")
          /\ blocks[i].parses /\ blocks[i].key \in SignerKey
          /\ Matches(blocks[i].key)
    BY <1>9 DEF HoldsSigner
  <2>2. C = {i}
    BY <1>6, <2>1 DEF OnlyOfType
  <2>3. ~r.bad /\ r.cert = blocks[i]
    BY <1>5, <2>1, <2>2
  <2>4. blocks[i].key \in Key /\ blocks[i].cert \in Cert
    BY <1>6, <2>1, <2>2
  <2>5. k = blocks[i].key
    BY <1>7, <2>1, <2>4
  <2>6. blocks[i] # NoBlock
    BY <2>1 DEF NoBlock
  <2> QED
    BY <1>3, <2>1, <2>3, <2>4, <2>5, <2>6 DEF SignerFor
<1> QED
  BY <1>8, <1>9

(* The command line that is ready, said twice: as the code decides it, and *)
(* as the property says it.                                                *)
InOrder(a) == a.timeParses /\ FlagsOK(a) /\ FilesOK(a)

Ready(a) ==
  /\ a.timeParses /\ FlagsOK(a)
  /\ a.cert.state = "read" /\ a.key.state # "unreadable"
  /\ \E cert \in Cert : HoldsSigner(a, cert)
  /\ \A i \in DOMAIN a.docs : a.docs[i].readable
  /\ a.profile = "TS" =>
       /\ a.ocsp.state = "read"
       /\ Len(a.chain.blocks) = 2 /\ a.tstSigners.blocks # <<>>
       /\ \A f \in {a.chain, a.tstSigners} : ParsePEMCertsOK(f)

LEMMA ReadyIsOK ==
  ASSUME NEW a \in CommandLineType, NoKey \notin Key, NoCert \notin Cert, SignerKey \subseteq Key
  PROVE  /\ InOrder(a) => Ready(a) /\ HoldsSigner(a, SignerOf(a))
         /\ Ready(a) /\ (a.key.state = "read" \/ ~HasOtherBlock(a.cert)) => InOrder(a)
<1>1. a.cert.state \in FileState /\ a.key.state \in FileState
  BY DEF CommandLineType, FileType
<1>2. /\ SignerOf(a) # NoCert =>
           /\ a.cert.state = "read" /\ a.key.state # "unreadable"
           /\ SignerOf(a) \in Cert /\ HoldsSigner(a, SignerOf(a))
      /\ /\ a.cert.state = "read" /\ a.key.state # "unreadable"
         /\ a.key.state = "read" \/ ~HasOtherBlock(a.cert)
         /\ \E cert \in Cert : HoldsSigner(a, cert)
         => SignerOf(a) # NoCert
  <2>1. CASE a.cert.state # "read" \/ a.key.state = "unreadable"
    BY <2>1 DEF SignerOf
  <2>2. CASE a.cert.state = "read" /\ a.key.state = "none"
    BY <2>2, OneFileHolds
  <2>3. CASE a.cert.state = "read" /\ a.key.state = "read"
    BY <2>3, TwoFilesHold
  <2> QED
    BY <1>1, <2>1, <2>2, <2>3 DEF FileState
<1> QED
  BY <1>2 DEF Ready, InOrder, FilesOK

(* The invariant of the command: its options are those of its command      *)
(* line, and until it is found in order nothing has happened.              *)
CommandInv ==
  /\ step \in {"inputs", "create", "refused", "closed"}
  /\ step \in {"inputs", "refused"} => asked = 0 /\ out.state \in {"absent", "old"}
  /\ step = "inputs"  => exit = Running /\ pc \in {"output", "done"}
  /\ step = "refused" => exit \in {1, 2} /\ pc = "done"
  /\ args # Library =>
       /\ args \in CommandLine /\ opts = OptionsOf(args)
       /\ step = "refused" => ~InOrder(args)
       /\ step \in {"create", "closed"} => InOrder(args)

LEMMA InitCommandInv == CommandInit => CommandInv
<1> SUFFICES ASSUME CommandInit PROVE CommandInv
  OBVIOUS
<1>1. PICK file \in {Absent, Old} :
        \/ \E a \in CommandLine : args = a /\ step = "inputs" /\ InitFor(OptionsOf(a), file)
        \/ \E o \in Order : args = Library /\ step = "create" /\ InitFor(o, file)
  BY DEF CommandInit
<1>2. exit = Running
  BY DEF CommandInit
<1>3. CASE \E a \in CommandLine : args = a /\ step = "inputs" /\ InitFor(OptionsOf(a), file)
  <2>1. PICK a \in CommandLine : args = a /\ step = "inputs" /\ InitFor(OptionsOf(a), file)
    BY <1>3
  <2>2. opts = OptionsOf(args) /\ pc = "output" /\ asked = 0 /\ out = file
    BY <2>1 DEF InitFor
  <2>3. file.state \in {"absent", "old"}
    BY DEF Absent, Old
  <2> QED
    BY <1>2, <2>1, <2>2, <2>3 DEF CommandInv
<1>4. CASE \E o \in Order : args = Library /\ step = "create" /\ InitFor(o, file)
  BY <1>4 DEF CommandInv
<1> QED
  BY <1>1, <1>3, <1>4

LEMMA NextCommandInv == CommandInv /\ [CommandNext]_<<vars, commandVars>> => CommandInv'
<1> SUFFICES ASSUME CommandInv, [CommandNext]_<<vars, commandVars>> PROVE CommandInv'
  OBVIOUS
<1>1. ASSUME args' = args, opts' = opts
      PROVE  /\ args # Library /\ args \in CommandLine /\ opts = OptionsOf(args) =>
                  args' \in CommandLine /\ opts' = OptionsOf(args')
             /\ InOrder(args') <=> InOrder(args)
  BY <1>1
<1>2. CASE ReadInputs
  <2>1. /\ step = "inputs" /\ args' = args /\ opts' = opts /\ asked' = asked /\ out' = out
        /\ \/ step' = "create" /\ InOrder(args)
           \/ step' = "refused" /\ ~InOrder(args) /\ pc' = "done" /\ exit' \in {1, 2}
    BY <1>2 DEF ReadInputs, InOrder, Fail, vars
  <2> QED
    BY <1>1, <2>1 DEF CommandInv
<1>3. CASE Creating
  <2>1. step = "create" /\ step' = step /\ args' = args
    BY <1>3 DEF Creating, commandVars
  <2>2. opts' = opts
    BY <1>3 DEF Creating, Work, OpenOutput, CheckOptions, SignDocument, TimeStamp, CheckTSDelay,
       WriteContainer
  <2> QED
    BY <1>1, <2>1, <2>2 DEF CommandInv
<1>4. CASE Killed
  <2>1. /\ step' = step /\ args' = args /\ exit' = exit /\ opts' = opts /\ asked' = asked
        /\ pc # "done" /\ pc' = "done"
        /\ pc = "output" => out' = out
    BY <1>4 DEF Killed, Interrupt, commandVars
  <2>2. /\ step # "refused"
        /\ step = "inputs" => out' = out
    BY <2>1 DEF CommandInv
  <2> QED
    BY <1>1, <2>1, <2>2 DEF CommandInv
<1>5. CASE CloseOutput
  <2>1. step = "create" /\ step' = "closed" /\ args' = args /\ opts' = opts
    BY <1>5 DEF CloseOutput, vars
  <2> QED
    BY <1>1, <2>1 DEF CommandInv
<1>6. CASE UNCHANGED <<vars, commandVars>>
  <2>1. /\ step' = step /\ args' = args /\ exit' = exit /\ opts' = opts /\ asked' = asked
        /\ pc' = pc /\ out' = out
    BY <1>6 DEF vars, commandVars
  <2> QED
    BY <1>1, <2>1 DEF CommandInv
<1> QED
  BY <1>2, <1>3, <1>4, <1>5, <1>6 DEF CommandNext, CommandWork

(* A command line that is incomplete, or names a file that is missing or   *)
(* does not hold what it must, costs neither the container at the -o path  *)
(* nor a time-stamp; one that is in order is not refused, whichever order  *)
(* the blocks of its signer file stand in, unless that file has a block    *)
(* that is neither a certificate nor a private key; and the certificate    *)
(* that signs is the one that the files hold with its key.                 *)
THEOREM StartsWhenReady == CommandSpec => []StartsExactlyWhenReady
<1>1. CommandInv => StartsExactlyWhenReady
  <2> SUFFICES ASSUME CommandInv, args # Library
               PROVE  /\ ~Ready(args) => asked = 0 /\ out.state \in {"absent", "old"} /\ exit # 0
                      /\ Ready(args) /\ (args.key.state = "read" \/ ~HasOtherBlock(args.cert)) =>
                           step # "refused"
                      /\ step \in {"create", "closed"} => HoldsSigner(args, opts.signers[1].cert)
    BY DEF StartsExactlyWhenReady, Ready
  <2>1. /\ args \in CommandLineType /\ NoKey \notin Key /\ NoCert \notin Cert
        /\ SignerKey \subseteq Key
    BY CommandAssumption, AsiceAssumption DEF CommandInv, NoCert
  <2>2. opts.signers[1].cert = SignerOf(args)
    BY DEF CommandInv, OptionsOf
  <2>3. /\ InOrder(args) => Ready(args) /\ HoldsSigner(args, SignerOf(args))
        /\ Ready(args) /\ (args.key.state = "read" \/ ~HasOtherBlock(args.cert)) => InOrder(args)
    BY <2>1, ReadyIsOK
  <2> QED
    BY <2>2, <2>3 DEF CommandInv, Running
<1> QED
  BY <1>1, InitCommandInv, NextCommandInv, PTL DEF CommandSpec
=============================================================================
