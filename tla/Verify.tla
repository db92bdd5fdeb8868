------------------------------- MODULE Verify -------------------------------
(***************************************************************************)
(* asic.Verify: the container is opened entry by entry, its manifest is    *)
(* read, and every signature document goes through one chain of checks     *)
(* that collects failures and stops early where a later check would have   *)
(* nothing to work on.                                                     *)
(***************************************************************************)
EXTENDS Asice

CONSTANTS
  Input,     (* the archives and options considered: pairs <<zip, opts>>   *)
  Trusted,   (* pairs <<c, t>>: VerifyChain accepts certificate c at t     *)
  MaxEntry,  (* maxEntryUncompressed                                       *)
  MaxTotal,  (* maxTotalUncompressed                                       *)
  MetaSize   (* size of an entry that is not a data file                   *)

(* A signature document as it is parsed: lists of any length, and numbers. *)
IsDocument(sig) ==
  /\ sig.refs \in Seq(Range(sig.refs)) /\ sig.sp.dofs \in Seq(Range(sig.sp.dofs))
  /\ sig.spRefs \in Seq([target : {r.target : r \in Range(sig.spRefs)},
                         dig    : {r.dig : r \in Range(sig.spRefs)}])
  /\ sig.usp.tsts \in Seq(Range(sig.usp.tsts))
  /\ \A t \in Range(sig.usp.tsts) : t.gen \in Int /\ t.bound \in Int
  /\ sig.usp.ocsp.thisUpdate \in Int /\ sig.usp.ocsp.producedAt \in Int

(* An archive's entries, by kind.                                          *)
IsEntry(e) ==
  /\ e.kind = "mimetype" => e.good \in BOOLEAN /\ e = MimetypeEntry(e.good)
  /\ e.kind = "manifest" =>
       /\ e.rows \in Seq(Range(e.rows))
       /\ \A r \in Range(e.rows) : r = Row(r.path, r.mime)
  /\ e.kind = "file" => e.name \in Name /\ e.data \in Content
  /\ e.kind = "signature" => e.key \in 0..99 /\ IsDocument(e.doc)

ASSUME VerifyAssumption ==
  /\ MaxEntry \in Nat /\ MaxTotal \in Nat
  /\ MetaSize \in 0..MaxEntry
  /\ \A in \in Input :
       /\ in[1] \in Seq(Range(in[1]))
       /\ \A e \in Range(in[1]) : IsEntry(e)
       /\ in[2].tsDelay \in Int /\ in[2].maxAge \in Int

VARIABLES
  zip,     (* the archive: its entries, in order                           *)
  opts,    (* VerifyOptions: [profile, tsDelay, maxAge], maxAge in force      *)
  pc,      (* the step to run next                                         *)
  pos,     (* the next entry to read                                       *)
  total,   (* totalUncompressed                                            *)
  ctr,     (* the container: files, sigDocs, manifest rows, media types    *)
  cerrs,   (* failures of the container                                    *)
  todo,    (* signature documents not yet verified                         *)
  cur,     (* the one being verified                                       *)
  errs,    (* its failures                                                 *)
  time,    (* its reported signing time                                    *)
  refIDs,  (* its file references: Id to URI                               *)
  report   (* Report: [ok, sigs]                                           *)

input   == <<zip, opts>>
opening == <<pos, total, ctr, cerrs>>
vars    == <<input, opening, pc, todo, cur, errs, time, refIDs, report>>

EmptyMap     == [x \in {} |-> x]
Put(f, k, v) == [x \in DOMAIN f \cup {k} |-> IF x = k THEN v ELSE f[x]]
NoKey        == -1

EmptyContainer ==
  [files |-> EmptyMap, sigDocs |-> EmptyMap, hasManifest |-> FALSE,
   rows |-> <<>>, media |-> EmptyMap]

InitFor(z, o) ==
  /\ zip = z /\ opts = o /\ pc = "open"
  /\ pos = 2 /\ total = MetaSize /\ ctr = EmptyContainer /\ cerrs = {}
  /\ todo = {} /\ cur = NoKey /\ errs = {} /\ time = NoTime
  /\ refIDs = EmptyMap /\ report = [ok |-> FALSE, sigs |-> <<>>]

-----------------------------------------------------------------------------
(* Opening the container.                                                  *)

Unreadable(e) == e.kind = "file" /\ Size[e.data] > MaxEntry

BytesRead(e) ==
  IF e.kind # "file" THEN MetaSize ELSE IF Unreadable(e) THEN 0 ELSE Size[e.data]

OpenMimetype ==
  /\ pc = "open"
  /\ IF zip # <<>> /\ zip[1].kind = "mimetype" /\ zip[1].good
     THEN pc' = "entries" /\ UNCHANGED cerrs
     ELSE pc' = "done"    /\ cerrs' = {"mimetype"}
  /\ UNCHANGED <<input, pos, total, ctr, todo, cur, errs, time, refIDs, report>>

Duplicate(e) ==
  \/ e.kind = "mimetype"
  \/ e.kind = "manifest"  /\ ctr.hasManifest
  \/ e.kind = "signature" /\ e.key \in DOMAIN ctr.sigDocs
  \/ e.kind = "file"      /\ e.name \in DOMAIN ctr.files

Admitted(e) ==
  e.kind \in {"manifest", "signature", "file"} /\ ~Unreadable(e) /\ ~Duplicate(e)

WithEntry(e) ==
  CASE e.kind = "manifest"  -> [ctr EXCEPT !.hasManifest = TRUE, !.rows = e.rows]
    [] e.kind = "signature" -> [ctr EXCEPT !.sigDocs = Put(@, e.key, e.doc)]
    [] e.kind = "file"      -> [ctr EXCEPT !.files = Put(@, e.name, e.data)]

(* Mutant: the loop breaks at the size limit without reporting it.         *)
ReadEntryBreaksSilently ==
  /\ pc = "entries" /\ pos <= Len(zip)
  /\ LET e == zip[pos] IN
     /\ total' = total + BytesRead(e)
     /\ IF total' > MaxTotal
        THEN pos' = Len(zip) + 1 /\ UNCHANGED <<ctr, cerrs>>
        ELSE /\ pos' = pos + 1
             /\ ctr' = IF Admitted(e) THEN WithEntry(e) ELSE ctr
             /\ cerrs' = IF Admitted(e) THEN cerrs ELSE cerrs \cup {"entry"}
  /\ UNCHANGED <<input, pc, todo, cur, errs, time, refIDs, report>>

(* The total is tested before the entry is looked at; past it the loop     *)
(* breaks and the remaining entries are never read.                        *)
ReadEntry ==
  /\ pc = "entries" /\ pos <= Len(zip)
  /\ LET e == zip[pos] IN
     /\ total' = total + BytesRead(e)
     /\ \/ /\ total' > MaxTotal
           /\ cerrs' = cerrs \cup {"total size"}
           /\ pos' = Len(zip) + 1 /\ UNCHANGED ctr
        \/ /\ total' <= MaxTotal /\ Admitted(e)
           /\ ctr' = WithEntry(e)
           /\ pos' = pos + 1 /\ UNCHANGED cerrs
        \/ /\ total' <= MaxTotal /\ ~Admitted(e)
           /\ cerrs' = cerrs \cup {"entry"}
           /\ pos' = pos + 1 /\ UNCHANGED ctr
  /\ UNCHANGED <<input, pc, todo, cur, errs, time, refIDs, report>>

StructureErrors ==
  {t \in {"manifest", "files", "signatures"} :
     \/ t = "manifest"   /\ ~ctr.hasManifest
     \/ t = "files"      /\ DOMAIN ctr.files = {}
     \/ t = "signatures" /\ DOMAIN ctr.sigDocs = {}}

CheckStructure ==
  /\ pc = "entries" /\ pos > Len(zip)
  /\ cerrs' = cerrs \cup StructureErrors
  /\ pc' = IF cerrs' = {} THEN "manifest" ELSE "done"
  /\ UNCHANGED <<input, pos, total, ctr, todo, cur, errs, time, refIDs, report>>

Complete(r)  == r.path # NoName /\ r.mime # NoMediaType
FileRow(r)   == Complete(r) /\ r.path \notin {"/", "META-INF/"}
FirstRow(rows, n) ==
  CHOOSE i \in DOMAIN rows :
    FileRow(rows[i]) /\ rows[i].path = n
      /\ \A j \in 1..(i - 1) : FileRow(rows[j]) => rows[j].path # n
ManifestMedia(rows) ==
  [n \in {rows[i].path : i \in {j \in DOMAIN rows : FileRow(rows[j])}} |->
     rows[FirstRow(rows, n)].mime]

(* One complete row per file, exactly one "/" row of the container's type, *)
(* none under META-INF.  A row for a file the archive does not hold is not *)
(* an error.                                                               *)
ManifestOK(rows, files) ==
  /\ \A i \in DOMAIN rows :
       /\ Complete(rows[i]) /\ rows[i].path # "META-INF/"
       /\ rows[i].path = "/" => rows[i].mime = RootMedia
       /\ FileRow(rows[i]) => FirstRow(rows, rows[i].path) = i
  /\ Cardinality({i \in DOMAIN rows : rows[i].path = "/"}) = 1
  /\ files \subseteq DOMAIN ManifestMedia(rows)

ParseManifest ==
  /\ pc = "manifest"
  /\ ctr' = [ctr EXCEPT !.media = ManifestMedia(ctr.rows)]
  /\ IF ManifestOK(ctr.rows, DOMAIN ctr.files)
     THEN pc' = "next" /\ todo' = DOMAIN ctr.sigDocs /\ UNCHANGED cerrs
     ELSE pc' = "done" /\ cerrs' = cerrs \cup {"manifest"} /\ UNCHANGED todo
  /\ UNCHANGED <<input, pos, total, cur, errs, time, refIDs, report>>

-----------------------------------------------------------------------------
(* The loop over the signature documents, in the order of their names:     *)
(* "signatures10.xml" sorts between "signatures1.xml" and                  *)
(* "signatures2.xml" (for keys below 100).                                 *)
LexRank(k) == IF k < 10 THEN 11 * k ELSE 11 * (k \div 10) + 1 + (k % 10)

(* Mutant: the document chosen stays among those to do.                    *)
NextSignatureAgain ==
  /\ pc = "next" /\ todo # {}
  /\ cur' \in todo /\ UNCHANGED todo
  /\ errs' = {} /\ time' = NoTime /\ refIDs' = EmptyMap
  /\ pc' = "shape"
  /\ UNCHANGED <<input, opening, report>>

NextSignature ==
  /\ pc = "next" /\ todo # {}
  /\ cur' = CHOOSE k \in todo : \A j \in todo : LexRank(k) <= LexRank(j)
  /\ todo' = todo \ {cur'}
  /\ errs' = {} /\ time' = NoTime /\ refIDs' = EmptyMap
  /\ pc' = "shape"
  /\ UNCHANGED <<input, opening, report>>

(* Mutant: a document that failed is tried again.                          *)
FinishSignatureRetries ==
  /\ pc = "finish"
  /\ IF errs # {} THEN todo' = todo \cup {cur} /\ UNCHANGED report
     ELSE /\ report' = [report EXCEPT !.sigs =
               Append(@, [key |-> cur, ok |-> TRUE, errs |-> errs, time |-> time])]
          /\ UNCHANGED todo
  /\ pc' = "next"
  /\ UNCHANGED <<input, opening, cur, errs, time, refIDs>>

FinishSignature ==
  /\ pc = "finish"
  /\ report' = [report EXCEPT !.sigs =
       Append(@, [key |-> cur, ok |-> errs = {}, errs |-> errs, time |-> time])]
  /\ pc' = "next"
  /\ UNCHANGED <<input, opening, todo, cur, errs, time, refIDs>>

Conclude ==
  /\ pc = "next" /\ todo = {}
  /\ report' = [report EXCEPT !.ok = \A i \in DOMAIN report.sigs : report.sigs[i].ok]
  /\ pc' = "done"
  /\ UNCHANGED <<input, opening, todo, cur, errs, time, refIDs>>

-----------------------------------------------------------------------------
(* The checks of one signature document.  Stop: a failure ends the         *)
(* document.  Record: a failure is noted and the next check runs.          *)
Sig   == ctr.sigDocs[cur]
Files == ctr.files

Record(ok, tag, next) ==
  /\ errs' = IF ok THEN errs ELSE errs \cup {tag}
  /\ pc' = next
StopUnless(ok, tag, next) == Record(ok, tag, IF ok THEN next ELSE "finish")

CheckShape ==
  /\ pc = "shape"
  /\ \/ Sig.shape = "broken" /\ Record(FALSE, "shape", "finish")
     \/ Sig.shape # "broken" /\ Record(Sig.shape = "ok", "shape", "cert")
  /\ UNCHANGED <<input, opening, todo, cur, time, refIDs, report>>

CheckKeyInfoCert ==
  /\ pc = "cert"
  /\ StopUnless(Sig.cert # NoCert, "cert", "object")
  /\ UNCHANGED <<input, opening, todo, cur, time, refIDs, report>>

CheckObject ==
  /\ pc = "object"
  /\ StopUnless(Sig.target = Sig.id /\ Sig.sp.id # NoId, "object", "time")
  /\ UNCHANGED <<input, opening, todo, cur, time, refIDs, report>>

CheckSigningTime ==
  /\ pc = "time"
  /\ StopUnless(Sig.sp.time # NoTime, "time", "chain")
  /\ time' = Sig.sp.time
  /\ UNCHANGED <<input, opening, todo, cur, refIDs, report>>

CheckChain ==
  /\ pc = "chain"
  /\ Record(<<Sig.cert, time>> \in Trusted, "chain", "value")
  /\ UNCHANGED <<input, opening, todo, cur, time, refIDs, report>>

(* Mutant: the key is checked, what it signed is not.                      *)
SignatureValueKeyOK(sig) == sig.sv.key = sig.cert
SignatureValueOK(sig) == sig.sv.key = sig.cert /\ sig.sv.over = SignedInfo(sig)

CheckSignatureValue ==
  /\ pc = "value"
  /\ Record(SignatureValueOK(Sig), "value", "references")
  /\ UNCHANGED <<input, opening, todo, cur, time, refIDs, report>>

(* The first reference with an Id decides what the Id stands for.          *)
FirstReference(refs, id) ==
  CHOOSE i \in DOMAIN refs :
    refs[i].id = id /\ \A j \in 1..(i - 1) : refs[j].id # id
ReferenceIDs(refs) ==
  [id \in {refs[i].id : i \in DOMAIN refs} \ {NoId} |->
     refs[FirstReference(refs, id)].uri]

ReferenceIdOK(refs, i) ==
  refs[i].id # NoId /\ \A j \in 1..(i - 1) : refs[j].id # refs[i].id

FileReferenceOK(refs, i, files) ==
  LET uri == refs[i].uri IN
  /\ uri # NoName /\ uri \notin HashName
  /\ \A j \in 1..(i - 1) : refs[j].uri # uri
  /\ uri \in DOMAIN files
  /\ refs[i].dig = files[uri]

SpReferenceOK(sig) ==
  /\ Len(sig.spRefs) = 1
  /\ sig.spRefs[1].target = sig.sp.id
  /\ sig.spRefs[1].dig = sig.sp

ReferencesOK(sig, files) ==
  /\ SpReferenceOK(sig)
  /\ Len(sig.refs) = Cardinality(DOMAIN files)
  /\ \A i \in DOMAIN sig.refs :
       ReferenceIdOK(sig.refs, i) /\ FileReferenceOK(sig.refs, i, files)

(* What checkReferences returns: a second SignedProperties reference       *)
(* clears the first one and a third is taken again.                        *)
ReferencesUsable(sig, files) ==
  Len(sig.spRefs) % 2 = 1 /\ Len(sig.refs) = Cardinality(DOMAIN files)

CheckReferences ==
  /\ pc = "references"
  /\ refIDs' = ReferenceIDs(Sig.refs)
  /\ Record(ReferencesOK(Sig, Files), "references",
            IF ReferencesUsable(Sig, Files) THEN "properties" ELSE "finish")
  /\ UNCHANGED <<input, opening, todo, cur, time, report>>

FormatOK(d, ids, media) ==
  /\ d.ref \in DOMAIN ids
  /\ d.mime # NoMediaType
  /\ ids[d.ref] \in DOMAIN media
  /\ Trim(d.mime) = media[ids[d.ref]]

(* Mutant: without the count of the files covered.                         *)
SignedPropertiesCounted(sig, ids, files, media) ==
  /\ ~sig.sp.policy /\ sig.sp.cert = sig.cert
  /\ Len(sig.sp.dofs) = Cardinality(DOMAIN files)
  /\ \A i \in DOMAIN sig.sp.dofs : FormatOK(sig.sp.dofs[i], ids, media)

SignedPropertiesOK(sig, ids, files, media) ==
  LET dofs == sig.sp.dofs IN
  /\ ~sig.sp.policy
  /\ sig.sp.cert = sig.cert
  /\ Len(dofs) = Cardinality(DOMAIN files)
  /\ \A i \in DOMAIN dofs : FormatOK(dofs[i], ids, media)
  /\ Cardinality({ids[dofs[i].ref] : i \in {j \in DOMAIN dofs : FormatOK(dofs[j], ids, media)}})
       = Cardinality(DOMAIN files)

CheckSignedProperties ==
  /\ pc = "properties"
  /\ Record(SignedPropertiesOK(Sig, refIDs, Files, ctr.media), "properties",
            IF opts.profile = "TS" THEN "usp" ELSE "finish")
  /\ UNCHANGED <<input, opening, todo, cur, time, refIDs, report>>

-----------------------------------------------------------------------------
(* The TS profile.  The last EncapsulatedTimeStamp is the token; another   *)
(* one before it is noticed only when its text is not empty.               *)
TokenOf(usp)  == IF usp.tsts = <<>> THEN NoToken ELSE usp.tsts[Len(usp.tsts)]
UspFound(usp) == usp.shape \notin {"absent", "broken"} /\ ~TokenOf(usp).empty
UspOK(usp)    ==
  /\ UspFound(usp) /\ usp.shape = "ok"
  /\ \A i \in 1..(Len(usp.tsts) - 1) : usp.tsts[i].empty

CheckUSPShape ==
  /\ pc = "usp"
  /\ Record(UspOK(Sig.usp), "usp", IF UspFound(Sig.usp) THEN "timestamp" ELSE "finish")
  /\ UNCHANGED <<input, opening, todo, cur, time, refIDs, report>>

(* Mutant: the token's signer is not looked for in the TSA pool.           *)
TimestampUntrusted(sig) == TokenOf(sig.usp).imprint = sig.sv

(* The imprint is over the ds:SignatureValue element, Id included.         *)
TimestampOK(sig) ==
  TokenOf(sig.usp).trusted /\ TokenOf(sig.usp).imprint = sig.sv

CheckTimestamp ==
  /\ pc = "timestamp"
  /\ StopUnless(TimestampOK(Sig), "timestamp", "ocsp")
  /\ UNCHANGED <<input, opening, todo, cur, time, refIDs, report>>

(* Mutant: the age of the status is not looked at.                         *)
OcspOKAnyAge(o, cert, maxAge) ==
  o.decodes /\ o.single /\ o.status = "good" /\ o.cert = cert /\ o.authentic

OcspOK(o, cert, maxAge) ==
  /\ o.decodes /\ o.single /\ o.status = "good" /\ o.cert = cert /\ o.authentic
  /\ o.producedAt - o.thisUpdate \in 0..maxAge

CheckOCSPResponse ==
  /\ pc = "ocsp"
  /\ StopUnless(OcspOK(Sig.usp.ocsp, Sig.cert, opts.maxAge), "ocsp", "delay")
  /\ UNCHANGED <<input, opening, todo, cur, time, refIDs, report>>

(* The TSDelayTime window; a bound of zero means the policy's bound.       *)
DelayBound(explicit, token) == IF explicit > 0 THEN explicit ELSE token.bound
(* Mutant: an OCSP answer older than the time-stamp passes.                *)
TsDelayUpper(producedAt, gen, bound) == producedAt - gen <= bound
TsDelayOK(producedAt, gen, bound) ==
  producedAt - gen >= 0 /\ producedAt - gen <= bound
DelayOK(usp, explicit) ==
  LET bound == DelayBound(explicit, TokenOf(usp)) IN
  bound # NoBound /\ TsDelayOK(usp.ocsp.producedAt, TokenOf(usp).gen, bound)

(* Mutant: the reported time is replaced before the window is checked.     *)
CheckDelayTimeFirst ==
  /\ pc = "delay"
  /\ StopUnless(DelayOK(Sig.usp, opts.tsDelay), "delay", "finish")
  /\ time' = TokenOf(Sig.usp).gen
  /\ UNCHANGED <<input, opening, todo, cur, refIDs, report>>

CheckDelay ==
  /\ pc = "delay"
  /\ LET ok == DelayOK(Sig.usp, opts.tsDelay) IN
     /\ StopUnless(ok, "delay", "finish")
     /\ time' = IF ok THEN TokenOf(Sig.usp).gen ELSE time
  /\ UNCHANGED <<input, opening, todo, cur, refIDs, report>>

-----------------------------------------------------------------------------
OpenContainer ==
  OpenMimetype \/ ReadEntry \/ CheckStructure \/ ParseManifest

VerifySignature ==
  \/ CheckShape \/ CheckKeyInfoCert \/ CheckObject \/ CheckSigningTime
  \/ CheckChain \/ CheckSignatureValue \/ CheckReferences
  \/ CheckSignedProperties
  \/ CheckUSPShape \/ CheckTimestamp \/ CheckOCSPResponse \/ CheckDelay

Next ==
  \/ OpenContainer \/ VerifySignature
  \/ NextSignature \/ FinishSignature \/ Conclude

Init == \E in \in Input : InitFor(in[1], in[2])

(* Verify is one goroutine that waits for nothing: it keeps running.       *)
Spec == Init /\ [][Next]_vars /\ WF_vars(Next)

-----------------------------------------------------------------------------
(* Verify keeps its promise: refinement of the abstract specification.     *)
Verdict ==
  CASE pc # "done"              -> "pending"
    [] pc = "done" /\ report.ok  -> "accepted"
    [] pc = "done" /\ ~report.ok -> "rejected"
Promise == INSTANCE Validity WITH verdict <- Verdict

(* The counting checks of openContainer, parseManifest, checkReferences    *)
(* and checkSignedProperties, taken together, reach the verdict that the   *)
(* one-to-one definition of a valid container gives, and reach it once: no *)
(* break or continue loses a failure.                                      *)
VerdictKept == Promise!Spec

(* A verdict is reached on every input: no loop hangs.                     *)
VerdictReached == <>(Verdict # "pending")

(* A signature document's own verdict is exactly its validity against the  *)
(* data files and the manifest, whatever the documents verified before it  *)
(* left behind.                                                            *)
SignatureVerdictExact ==
  \A i \in DOMAIN report.sigs :
    LET r == report.sigs[i] IN
    r.ok <=> Promise!ValidSignature(ctr.sigDocs[r.key], ctr.files,
                                    Restrict(ctr.media, DOMAIN ctr.files), opts)

(* Every signature document gets one report entry, and none is verified    *)
(* while the container is in doubt.                                        *)
ReportCoversDocuments ==
  /\ \A i, j \in DOMAIN report.sigs :
       report.sigs[i].key = report.sigs[j].key => i = j
  /\ report.sigs # <<>> => cerrs = {}
  /\ pc = "done" /\ cerrs = {} =>
       {report.sigs[i].key : i \in DOMAIN report.sigs}
         = {zip[i].key : i \in {j \in DOMAIN zip : zip[j].kind = "signature"}}

(* The reported signing time of a TS signature moves from the declared     *)
(* time to the time-stamp's only when nothing at all failed after it, and  *)
(* an accepted TS signature never reports the declared time in its place.  *)
ReportedTime ==
  \A i \in DOMAIN report.sigs :
    LET r   == report.sigs[i]
        sig == ctr.sigDocs[r.key]
    IN  /\ r.ok /\ opts.profile = "BES" => r.time = sig.sp.time
        /\ r.ok /\ opts.profile = "TS"  => r.time = TokenOf(sig.usp).gen
        /\ r.time \notin {NoTime, sig.sp.time} =>
             DelayOK(sig.usp, opts.tsDelay) /\ TimestampOK(sig)

(* Types: what each variable may hold at each step.                        *)
Tags ==
  {"shape", "cert", "object", "time", "chain", "value", "references",
   "properties", "usp", "timestamp", "ocsp", "delay"}
Steps ==
  {"open", "entries", "manifest", "next", "finish", "done"} \cup Tags
TypeOK ==
  /\ pc \in Steps
  /\ pos \in Nat \ {0} /\ total \in Nat
  /\ cerrs \subseteq {"mimetype", "total size", "entry", "manifest", "files", "signatures"}
  /\ errs \subseteq Tags
  /\ todo \subseteq DOMAIN ctr.sigDocs
  /\ pc \in Tags \cup {"finish"} => cur \in DOMAIN ctr.sigDocs \ todo
  /\ report.ok \in BOOLEAN
  /\ \A i \in DOMAIN report.sigs : report.sigs[i].key \in DOMAIN ctr.sigDocs \ todo

-----------------------------------------------------------------------------
(* What a comment of the code says, and the code does not do.              *)

(* verify.go:125 "one entry per signature file, in container order": the   *)
(* entry reported first is the one that comes first in the archive.        *)
ReportInContainerOrder ==
  \A i, j \in DOMAIN report.sigs, p, q \in DOMAIN zip :
    /\ i < j /\ zip[p].kind = "signature" /\ zip[q].kind = "signature"
    /\ zip[p].key = report.sigs[i].key /\ zip[q].key = report.sigs[j].key
    => p < q
=============================================================================
