------------------------------- MODULE Create -------------------------------
(***************************************************************************)
(* asic.Create under "asice create": the output file is opened, the        *)
(* options are checked, one signature document per signer is rendered (in  *)
(* the TS profile with one time-stamp request and the TSDelayTime guard),  *)
(* and the container is written in one Write call.                         *)
(*                                                                         *)
(* The time-stamping authority, the signer's key store, the disk and the   *)
(* user's interrupt are the environment: each may fail at its step.        *)
(***************************************************************************)
EXTENDS Asice

CONSTANTS
  Order,       (* the CreateOptions considered                             *)
  GenTime,     (* the genTimes a time-stamping authority may answer with   *)
  PolicyBound, (* the TSDelayTime bounds its policy may carry              *)
  MaxZip,      (* the largest archive the ZIP fields can describe          *)
  MetaSize     (* size of an entry that is not a data file                 *)

OrderType ==
  [docs : Seq(Doc), signers : Seq([cert : Cert \cup {NoCert}]),
   profile : {"BES", "TS", "other"}, tsDelay : Int, time : Int, ocsp : OcspType,
   tsCerts : Nat, provider : BOOLEAN, digest : BOOLEAN]

ASSUME CreateAssumption ==
  /\ Order \subseteq OrderType
  /\ GenTime \subseteq Nat
  /\ PolicyBound \subseteq Nat \cup {NoBound}
  /\ MaxZip \in Nat /\ MetaSize \in Nat

VARIABLES
  opts,     (* CreateOptions: [docs, signers, profile, tsDelay, time,      *)
            (*   ocsp, tsCerts, provider, digest]                          *)
  pc,       (* the step to run next                                        *)
  built,    (* the signature document being rendered                       *)
  captured, (* the token captureTimeStamp recorded                         *)
  sigs,     (* the finished signature documents                            *)
  asked,    (* time-stamp requests made so far                             *)
  out,      (* the file at the -o path                                     *)
  outcome   (* "running", "ok", "error" or "killed"                        *)

vars == <<opts, pc, built, captured, sigs, asked, out, outcome>>

NoSignature == BuildSignature(0, NoCert, <<>>, NoTime)
Absent      == [state |-> "absent", entries |-> <<>>]
Old         == [state |-> "old", entries |-> <<>>]
Truncated   == [state |-> "empty", entries |-> <<>>]
Partial     == [state |-> "partial", entries |-> <<>>]
Written(z)  == [state |-> "container", entries |-> z]

InitFor(o, file) ==
  /\ opts = o /\ pc = "output" /\ built = NoSignature /\ captured = NoToken
  /\ sigs = <<>> /\ asked = 0 /\ out = file /\ outcome = "running"

Fail == pc' = "done" /\ outcome' = "error"

-----------------------------------------------------------------------------
(* os.Create truncates the output before asic.Create looks at anything.    *)
OpenOutput ==
  /\ pc = "output"
  /\ \/ out' = Truncated /\ pc' = "options" /\ UNCHANGED outcome
     \/ Fail /\ UNCHANGED out
  /\ UNCHANGED <<opts, built, captured, sigs, asked>>

OptionsOK ==
  /\ opts.docs # <<>> /\ opts.signers # <<>>
  /\ opts.digest /\ opts.time # NoTime
  /\ opts.profile \in {"BES", "TS"}
  /\ opts.profile = "TS" =>
       opts.provider /\ ~opts.ocsp.empty /\ opts.tsCerts = 2

CheckOptions ==
  /\ pc = "options"
  /\ \/ OptionsOK  /\ pc' = "signer" /\ UNCHANGED outcome
     \/ ~OptionsOK /\ Fail
  /\ UNCHANGED <<opts, built, captured, sigs, asked, out>>

Signer == opts.signers[Len(sigs) + 1]

(* The document of signer k = Len(sigs) as the renderer leaves it before a *)
(* time-stamp is asked for: the SignatureValue already has its Id.         *)
Rendered == SignBES(Len(sigs), Signer.cert, opts.docs, opts.time)

(* Mutant: a signed document is not kept.                                  *)
SignDocumentForgets ==
  /\ pc = "signer" /\ Len(sigs) < Len(opts.signers)
  /\ \/ opts.profile = "BES" /\ UNCHANGED <<pc, built, captured, sigs, outcome>>
     \/ opts.profile = "TS" /\ Fail /\ UNCHANGED <<built, captured, sigs>>
  /\ UNCHANGED <<opts, asked, out>>

(* The key store may refuse to sign.                                       *)
SignDocument ==
  /\ pc = "signer" /\ Len(sigs) < Len(opts.signers)
  /\ \/ /\ Signer.cert # NoCert /\ opts.profile = "BES"
        /\ sigs' = Append(sigs, Rendered)
        /\ UNCHANGED <<pc, built, captured, outcome>>
     \/ /\ Signer.cert # NoCert /\ opts.profile = "TS"
        /\ built' = Rendered /\ captured' = NoToken
        /\ pc' = "stamp" /\ UNCHANGED <<sigs, outcome>>
     \/ Fail /\ UNCHANGED <<built, captured, sigs>>
  /\ UNCHANGED <<opts, asked, out>>

(* Mutant: the imprint is taken before the SignatureValue has its Id.      *)
TimeStampBeforeId ==
  /\ pc = "stamp"
  /\ asked' = asked + 1
  /\ \E gen \in GenTime, bound \in PolicyBound, trusted \in BOOLEAN :
       captured' = Token([built.sv EXCEPT !.id = NoId], gen, trusted, bound)
  /\ built' = AddUnsignedProperties(built, captured', opts.ocsp)
  /\ pc' = "guard"
  /\ UNCHANGED <<opts, sigs, out, outcome>>

(* One request per signature.  A provider's answer stamps what it was      *)
(* asked to stamp (tsa.Client checks the imprint, and the signature with a *)
(* certificate of create's own list); whether a verifier will accept that  *)
(* certificate is not looked at.  An empty token is refused when the       *)
(* UnsignedProperties are built.                                           *)
TimeStamp ==
  /\ pc = "stamp"
  /\ asked' = asked + 1
  /\ \/ \E gen \in GenTime, bound \in PolicyBound, trusted \in BOOLEAN :
          /\ captured' = Token(built.sv, gen, trusted, bound)
          /\ built' = AddUnsignedProperties(built, captured', opts.ocsp)
          /\ pc' = "guard" /\ UNCHANGED outcome
     \/ Fail /\ UNCHANGED <<built, captured>>
  /\ UNCHANGED <<opts, sigs, out>>

(* Mutant: an OCSP answer older than the time-stamp passes the guard.      *)
GuardUpper ==
  LET bound == IF opts.tsDelay > 0 THEN opts.tsDelay ELSE captured.bound
  IN  opts.ocsp.decodes /\ bound # NoBound /\ opts.ocsp.producedAt - captured.gen <= bound

(* checkCreateTSDelay: producedAt in [genTime, genTime + bound].           *)
GuardOK ==
  LET bound == IF opts.tsDelay > 0 THEN opts.tsDelay ELSE captured.bound
      diff  == opts.ocsp.producedAt - captured.gen
  IN  opts.ocsp.decodes /\ bound # NoBound /\ diff >= 0 /\ diff <= bound

(* Mutants: a failed guard asks for another time-stamp; a passed one goes  *)
(* back to the request instead of to the next signer.                      *)
CheckTSDelayRetries ==
  /\ pc = "guard"
  /\ \/ GuardOK  /\ sigs' = Append(sigs, built) /\ pc' = "signer"
     \/ ~GuardOK /\ pc' = "stamp" /\ UNCHANGED sigs
  /\ UNCHANGED <<opts, built, captured, asked, out, outcome>>
CheckTSDelayRestamps ==
  /\ pc = "guard"
  /\ \/ GuardOK  /\ sigs' = Append(sigs, built) /\ pc' = "stamp" /\ UNCHANGED outcome
     \/ ~GuardOK /\ Fail /\ UNCHANGED sigs
  /\ UNCHANGED <<opts, built, captured, asked, out>>

CheckTSDelay ==
  /\ pc = "guard"
  /\ \/ GuardOK  /\ sigs' = Append(sigs, built) /\ pc' = "signer" /\ UNCHANGED outcome
     \/ ~GuardOK /\ Fail /\ UNCHANGED sigs
  /\ UNCHANGED <<opts, built, captured, asked, out>>

-----------------------------------------------------------------------------
(* WriteContainer checks everything before its only Write call.            *)
DocumentsOK(docs) ==
  /\ \A i \in DOMAIN docs :
       docs[i].mime # NoMediaType /\ docs[i].name \notin ReservedName
  /\ \A i, j \in DOMAIN docs : docs[i].name = docs[j].name => i = j

ArchiveSize(docs, n) ==
  (2 + n) * MetaSize + Total([i \in 1..Len(docs) |-> Size[docs[i].data]])

Writable == DocumentsOK(opts.docs) /\ ArchiveSize(opts.docs, Len(sigs)) <= MaxZip

WriteContainer ==
  /\ pc = "signer" /\ Len(sigs) = Len(opts.signers)
  /\ \/ /\ Writable
        /\ out' = Written(ContainerEntries(opts.docs, sigs))
        /\ pc' = "done" /\ outcome' = "ok"
     \/ Writable  /\ out' \in {Truncated, Partial} /\ Fail
     \/ ~Writable /\ Fail /\ UNCHANGED out
  /\ UNCHANGED <<opts, built, captured, sigs, asked>>

(* The process is killed; within the write that leaves a part of the file, *)
(* or all of it without anyone being told.                                 *)
Interrupt ==
  /\ pc # "done"
  /\ pc' = "done" /\ outcome' = "killed"
  /\ \/ UNCHANGED out
     \/ /\ pc = "signer" /\ Len(sigs) = Len(opts.signers) /\ Writable
        /\ out' \in {Partial, Written(ContainerEntries(opts.docs, sigs))}
  /\ UNCHANGED <<opts, built, captured, sigs, asked>>

Work ==
  \/ OpenOutput \/ CheckOptions \/ SignDocument \/ TimeStamp
  \/ CheckTSDelay \/ WriteContainer

Next == Work \/ Interrupt

Init == \E o \in Order, file \in {Absent, Old} : InitFor(o, file)

(* Every request ends (the TSA client's HTTP client has a timeout), so the *)
(* program keeps running; nothing obliges the user to interrupt it.        *)
Spec == Init /\ [][Next]_vars /\ WF_vars(Work)

-----------------------------------------------------------------------------
(* Types: what each variable may hold at each step.                        *)
Steps      == {"output", "options", "signer", "stamp", "guard", "done"}
FileStates == {"absent", "old", "empty", "partial", "container"}
TypeOK ==
  /\ pc \in Steps /\ asked \in Nat
  /\ outcome \in {"running", "ok", "error", "killed"}
  /\ out.state \in FileStates
  /\ Len(sigs) <= Len(opts.signers)
  /\ pc = "done" <=> outcome # "running"
  /\ pc \in {"stamp", "guard"} => opts.profile = "TS" /\ Len(sigs) < Len(opts.signers)

(* A container at the -o path holds one finished signature per signer, in  *)
(* order; a TS signature in it carries a time-stamp over its own final     *)
(* SignatureValue (Id included), not older than the stored OCSP answer     *)
(* allows.  Whoever was told of success has such a container, and nobody   *)
(* who was told of failure has one.                                        *)
TimeStamped(sig) ==
  /\ Len(sig.usp.tsts) = 1 /\ sig.usp.ocsp = opts.ocsp
  /\ LET tst   == sig.usp.tsts[1]
         bound == IF opts.tsDelay > 0 THEN opts.tsDelay ELSE tst.bound
     IN  /\ tst.imprint = sig.sv
         /\ opts.ocsp.producedAt \in tst.gen .. (tst.gen + bound)

ContainerIsFinished ==
  /\ out.state = "container" =>
       /\ Len(sigs) = Len(opts.signers)
       /\ out.entries = ContainerEntries(opts.docs, sigs)
       /\ \A k \in DOMAIN sigs :
            /\ sigs[k].cert = opts.signers[k].cert /\ sigs[k].id = SignatureID(k - 1)
            /\ sigs[k].sv.id = SignatureValueID(k - 1)
            /\ opts.profile = "TS" => TimeStamped(sigs[k])
  /\ outcome = "ok"    => out.state = "container"
  /\ outcome = "error" => out.state # "container"

(* Time-stamps are paid for: none is asked for in the BES profile, none    *)
(* twice for one signature, and none for the next signer before the        *)
(* previous signature has passed the TSDelayTime guard.                    *)
OneStampPerSignature ==
  /\ opts.profile # "TS" => asked = 0
  /\ asked > 0 => OptionsOK
  /\ asked <= Len(sigs) + 1
  /\ opts.profile = "TS" /\ pc = "signer" => asked = Len(sigs)

(* Create always comes to an end, whatever fails on the way.               *)
Finishes == <>(pc = "done")
=============================================================================
