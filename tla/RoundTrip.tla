----------------------------- MODULE RoundTrip ------------------------------
(***************************************************************************)
(* A container's life: "asice ocsp fetch" stores an OCSP answer, "asice    *)
(* create" makes the container with it, it is kept or sent somewhere       *)
(* (where its entries may be changed), and "asice verify" reads it.        *)
(* OcspFetch, Create and Verify are composed unchanged; what is new here   *)
(* is one clock for the commands, the clocks of the responder and of the   *)
(* time-stamping authority, and the transit.                               *)
(***************************************************************************)
EXTENDS Asice

CONSTANTS
  Journeys,     (* what is considered: [world, order, policy, changes],    *)
                (* the surroundings of a fetch or NoFetch, the             *)
                (* CreateOptions, the VerifyOptions and a bound on the     *)
                (* changes made in transit                                 *)
  SigningTimes, (* the signing times an edit may write                     *)
  Trusted, MaxEntry, MaxTotal, MetaSize, (* of Verify                      *)
  GenTime, PolicyBound, MaxZip,          (* of Create                      *)
  Certificate                            (* of OcspFetch                   *)

VARIABLES
  input, fpc, request, clock, deadline, log, stored, fetched, (* OcspFetch *)
  order, cpc, built, captured, sigs, asked, out, outcome, (* Create        *)
  zip, policy, vpc, pos, total, ctr, cerrs, todo, cur, errs, time, refIDs,
  report,                                                 (* Verify        *)
  phase, (* "fetch", "create", "transit" or "verify"                       *)
  limit, (* the bound on the changes                                       *)
  edits, (* changes made in transit                                        *)
  fresh  (* the stamps the authority gave in transit                       *)

(***************************************************************************)
(* The input of a fetch also says what surrounds it: how far the clocks of *)
(* the responder and of the authority are ahead of the earliest one, when  *)
(* the signer's certificate is revoked, what the file held before, and     *)
(* when the model's time ends.  Without a fetch, order has the answer, and *)
(* the times a stamp may carry and the other answers that responders gave  *)
(* are given.                                                              *)
(***************************************************************************)
NoFetch(gens, answers) == [fetch |-> FALSE, gens |-> gens, answers |-> answers]

(* A responder that does not lie: what it says of certificate n by time t  *)
(* was so at thisUpdate, and neither time is later than its clock.         *)
StatusAt(in, t) == IF in.revoked + in.responderAhead <= t THEN "revoked" ELSE "good"
Says(in, n, t) ==
  LET now == t + in.responderAhead
  IN  {Ocsp(StatusAt(in, x[1]), in.subject[n], x[1], x[2]) :
         x \in {y \in (0..now) \X (0..now) : y[1] <= y[2]}}
HonestAnswers(in, id, t) ==
  LET Reply(http, says) ==
        [kind |-> "reply", http |-> http,
         body |-> [parses |-> TRUE, status |-> 0, type |-> "basic", says |-> says]]
  IN  {Reply(400, NoOcsp)} \cup {Reply(200, o) : o \in Says(in, id.serial, t)}

F == INSTANCE OcspFetch
       WITH pc <- fpc, out <- stored, outcome <- fetched,
            Input <- {}, Answers <- HonestAnswers
C == INSTANCE Create WITH opts <- order, pc <- cpc, Order <- {j.order : j \in Journeys}
V == INSTANCE Verify WITH opts <- policy, pc <- vpc, Input <- {}

(* The answer on the disk is as honest: it was given before the model's    *)
(* time begins.                                                            *)
IsWorld(w) ==
  /\ F!IsInput(w) /\ w.subject \in [{c.serial : c \in Certificate} -> Cert \cup {NoCert}]
  /\ w.tsaAhead \in Nat /\ w.responderAhead \in Nat /\ w.revoked \in Int /\ w.last \in Int
  /\ w.old \in OcspType /\ w.old.producedAt <= w.responderAhead
  /\ w.old.status = "good" => StatusAt(w, w.old.thisUpdate) = "good"

(* As in Verify, of up to a hundred signatures.                            *)
IsJourney(j) ==
  /\ j.world.fetch \in BOOLEAN
  /\ IF j.world.fetch THEN IsWorld(j.world)
     ELSE j.world.gens \subseteq Int /\ j.world.answers \subseteq OcspType
  /\ j.order \in C!OrderType /\ Len(j.order.signers) <= 100
  /\ j.policy.tsDelay \in Int /\ j.policy.maxAge \in Int

ASSUME RoundTripAssumption ==
  /\ \A j \in Journeys : IsJourney(j)
  /\ SigningTimes \subseteq Int
  /\ MaxEntry \in Nat /\ MaxTotal \in Nat /\ MetaSize \in 0..MaxEntry /\ MaxZip \in Nat
  /\ GenTime \subseteq Nat /\ PolicyBound \subseteq Nat \cup {NoBound}
  /\ \A c \in Certificate : c.serial \in Nat

fetchVars  == <<input, fpc, request, clock, deadline, log, stored, fetched>>
createVars == <<order, cpc, built, captured, sigs, asked, out, outcome>>
verifyVars == <<zip, policy, vpc, pos, total, ctr, cerrs, todo, cur, errs, time,
                refIDs, report>>
vars       == <<fetchVars, createVars, verifyVars, phase, limit, edits, fresh>>

Init ==
  /\ \E j \in Journeys :
       /\ F!InitFor(j.world) /\ C!InitFor(j.order, C!Old) /\ V!InitFor(<<>>, j.policy)
       /\ limit = j.changes
       /\ phase = IF j.world.fetch THEN "fetch" ELSE "create"
  /\ edits = 0 /\ fresh = {}

Fetching ==
  /\ phase = "fetch" /\ F!Next
  /\ UNCHANGED <<createVars, verifyVars, phase, limit, edits, fresh>>

(* The commands follow each other whatever the first one's exit code: what *)
(* is at the path, be it from an earlier fetch, goes into the container.   *)
Stored ==
  CASE stored.state = "old"      -> input.old
    [] stored.state = "response" -> stored.body.says
    [] stored.state = "damaged"  -> [NoOcsp EXCEPT !.empty = FALSE]

HandOver ==
  /\ phase = "fetch" /\ fpc = "done"
  /\ order' = [order EXCEPT !.ocsp = Stored] /\ phase' = "create"
  /\ UNCHANGED <<fetchVars, cpc, built, captured, sigs, asked, out, outcome, verifyVars,
                 limit, edits, fresh>>

(* Time passes on the way to the authority, and in transit, where it only  *)
(* tells before a change.                                                  *)
Wait ==
  /\ \/ phase = "create" /\ cpc = "stamp"
     \/ phase = "transit" /\ edits < limit
  /\ input.fetch /\ clock < input.last /\ clock' = clock + 1
  /\ UNCHANGED <<input, fpc, request, deadline, log, stored, fetched, createVars,
                 verifyVars, phase, limit, edits, fresh>>

(* The authority stamps with its own clock.                                *)
StampTimes == IF input.fetch THEN {clock + input.tsaAhead} ELSE input.gens

Creating ==
  /\ phase = "create" /\ C!Next
  /\ cpc = "stamp" /\ cpc' = "guard" => captured'.gen \in StampTimes
  /\ UNCHANGED <<fetchVars, verifyVars, phase, limit, edits, fresh>>

(* Only a container that asice create reported as written is passed on.    *)
Ship ==
  /\ phase = "create" /\ outcome = "ok"
  /\ zip' = out.entries /\ phase' = "transit"
  /\ UNCHANGED <<fetchVars, createVars, policy, vpc, pos, total, ctr, cerrs, todo, cur, errs,
                 time, refIDs, report, limit, edits, fresh>>

-----------------------------------------------------------------------------
(* Changes made in transit, by anyone: none needs a signer's key, the      *)
(* authority's or the responder's.  None of them can make a signature      *)
(* value, and each leaves an archive the zip package reads.                *)
Change(z) ==
  /\ phase = "transit" /\ edits < limit
  /\ z # zip
  /\ zip' = z /\ edits' = edits + 1
  /\ UNCHANGED <<fetchVars, createVars, phase, limit, policy, vpc, pos, total, ctr, cerrs,
                 todo, cur, errs, time, refIDs, report>>
Become(z) == Change(z) /\ UNCHANGED fresh

OfKind(kind) == {i \in DOMAIN zip : zip[i].kind = kind}

ReplaceData  == \E i \in OfKind("file"), c \in Content :
                  Become([zip EXCEPT ![i].data = c])
Rename       == \E i \in OfKind("file"), n \in Name :
                  Become([zip EXCEPT ![i].name = n])
DropEntry    == \E i \in DOMAIN zip :
                  Become(SubSeq(zip, 1, i - 1) \o SubSeq(zip, i + 1, Len(zip)))
AddFile      == \E n \in Name, c \in Content : Become(Append(zip, FileEntry(n, c)))
RepeatEntry  == \E i \in DOMAIN zip : Become(Append(zip, zip[i]))
AddOther     == \E kind \in {"metainf", "subfolder"} : Become(Append(zip, OtherEntry(kind)))

EditRow      == \E i \in OfKind("manifest") : \E j \in DOMAIN zip[i].rows :
                  \E p \in Name \cup {"META-INF/", NoName}, m \in MediaType :
                    \/ Become([zip EXCEPT ![i].rows[j].path = p])
                    \/ Become([zip EXCEPT ![i].rows[j].mime = m])
AddRow       == \E i \in OfKind("manifest"), p \in Name, m \in MediaType :
                  Become([zip EXCEPT ![i].rows = Append(@, Row(p, m))])

(* The signature documents, field by field.                                *)
EditDocument(i, doc) == Become([zip EXCEPT ![i].doc = doc])

EditReference == \E i \in OfKind("signature") : \E j \in DOMAIN zip[i].doc.refs :
  \/ \E c \in Content : EditDocument(i, [zip[i].doc EXCEPT !.refs[j].dig = c])
  \/ \E n \in Name    : EditDocument(i, [zip[i].doc EXCEPT !.refs[j].uri = n])
  \/ \E h \in DOMAIN zip[i].doc.refs :
       EditDocument(i, [zip[i].doc EXCEPT !.refs[j].id = zip[i].doc.refs[h].id])

EditProperties == \E i \in OfKind("signature") :
  \/ \E t \in SigningTimes : EditDocument(i, [zip[i].doc EXCEPT !.sp.time = t])
  \/ \E j \in DOMAIN zip[i].doc.sp.dofs, m \in MediaType :
       EditDocument(i, [zip[i].doc EXCEPT !.sp.dofs[j].mime = m])
  \/ \E c \in Cert :
       EditDocument(i, [zip[i].doc EXCEPT !.sp.cert = c, !.cert = c])
  \/ EditDocument(i, [zip[i].doc EXCEPT !.spRefs[1].dig = zip[i].doc.sp])

(* The unsigned properties: taken away, another document's, a token or an  *)
(* answer that is forged, or another one of a responder.                   *)
OtherAnswers == IF input.fetch THEN UNION {Says(input, n, clock) : n \in DOMAIN input.subject}
                ELSE input.answers
Forged(cert, t) == [Ocsp("good", cert, t, t) EXCEPT !.authentic = FALSE]

EditUnsigned == \E i \in OfKind("signature") : zip[i].doc.usp.tsts # <<>> /\
  \/ EditDocument(i, [zip[i].doc EXCEPT !.usp = NoUsp])
  \/ \E h \in OfKind("signature") :
       EditDocument(i, [zip[i].doc EXCEPT !.usp = zip[h].doc.usp])
  \/ \E g \in StampTimes : EditDocument(i, [zip[i].doc EXCEPT !.usp.tsts[1].gen = g,
                                                          !.usp.tsts[1].trusted = FALSE])
  \/ \E o \in OtherAnswers \cup {Forged(zip[i].doc.cert, t) : t \in StampTimes} :
       EditDocument(i, [zip[i].doc EXCEPT !.usp.ocsp = o])

(* A new stamp over the signature value, and with it the answer there is   *)
(* or another one: the authority asks nobody who he is, so that anyone can *)
(* even make a TS signature out of a BES one.                              *)
Restamp ==
  \E i \in OfKind("signature"), g \in StampTimes, bound \in PolicyBound, trusted \in BOOLEAN :
    LET token == Token(zip[i].doc.sv, g, trusted, bound) IN
    /\ \E o \in OtherAnswers \cup {zip[i].doc.usp.ocsp} :
         Change([zip EXCEPT ![i].doc.usp = Usp(<<token>>, o)])
    /\ fresh' = fresh \cup {token}

(* One document takes the place of another.                                *)
MoveDocument == \E i, j \in OfKind("signature") : EditDocument(i, zip[j].doc)

Edit ==
  \/ ReplaceData \/ Rename \/ DropEntry \/ AddFile \/ RepeatEntry \/ AddOther
  \/ EditRow \/ AddRow
  \/ EditReference \/ EditProperties \/ EditUnsigned \/ Restamp \/ MoveDocument

Deliver ==
  /\ phase = "transit"
  /\ phase' = "verify"
  /\ UNCHANGED <<fetchVars, createVars, verifyVars, limit, edits, fresh>>

Verifying ==
  /\ phase = "verify" /\ V!Next
  /\ UNCHANGED <<fetchVars, createVars, phase, limit, edits, fresh>>

Next == Fetching \/ HandOver \/ Wait \/ Creating \/ Ship \/ Edit \/ Deliver \/ Verifying

(* Only safety is asked of the composition: Create and Verify state their  *)
(* own liveness.                                                           *)
Spec == Init /\ [][Next]_vars

-----------------------------------------------------------------------------
Signers      == {order.signers[k].cert : k \in DOMAIN order.signers}
OrderedFiles == {<<order.docs[i].name, order.docs[i].data, Trim(order.docs[i].mime)>> :
                   i \in DOMAIN order.docs}
ReadFiles    == {<<n, ctr.files[n], Trim(ctr.media[n])>> : n \in DOMAIN ctr.files}

(* A signature that asice verify accepts vouches for exactly the files,    *)
(* contents and media types its signer was given, under that signer's      *)
(* certificate and declared time, whatever happened to the container in    *)
(* between.                                                                *)
AcceptedIsWhatWasSigned ==
  \A i \in DOMAIN report.sigs :
    LET sig == ctr.sigDocs[report.sigs[i].key] IN
    report.sigs[i].ok =>
      /\ ReadFiles = OrderedFiles
      /\ sig.cert \in Signers
      /\ sig.sp.time = order.time

(* The time reported for an accepted TS signature is that of a stamp the   *)
(* authority gave for this very signature, when it was made or on the way, *)
(* and not later than the OCSP answer beside it.  A new stamp may make the *)
(* signature look younger than it is, but nothing makes it look older than *)
(* its own stamp.                                                          *)
ReportedTimeIsStamped ==
  \A i \in DOMAIN report.sigs :
    LET sig == ctr.sigDocs[report.sigs[i].key] IN
    report.sigs[i].ok /\ policy.profile = "TS" =>
      \E k \in DOMAIN sigs :
        /\ sigs[k].sv = sig.sv
        /\ \E t \in Range(sigs[k].usp.tsts) \cup fresh :
             t.trusted /\ t.imprint = sig.sv /\ report.sigs[i].time = t.gen
        /\ input.fetch =>
             \A t \in Range(sigs[k].usp.tsts) : t.gen <= report.sigs[i].time
        /\ report.sigs[i].time <= sig.usp.ocsp.producedAt

(* What a container that nobody touched needs to be accepted.  Create      *)
(* itself checks none of these, not even that the verifier accepts the     *)
(* certificates that signed its stamps; the TSDelayTime window is not      *)
(* among them because Create's guard has settled it.                       *)
Acceptable ==
  /\ \A i \in DOMAIN order.docs :
       /\ order.docs[i].name \notin HashName
       /\ ~order.docs[i].mime.padded
       /\ Size[order.docs[i].data] <= MaxEntry
  /\ C!ArchiveSize(order.docs, Len(order.signers)) <= MaxTotal
  /\ \A c \in Signers : <<c, order.time>> \in Trusted
  /\ policy.profile = "TS" =>
       /\ order.profile = "TS"
       /\ \A k \in DOMAIN sigs : sigs[k].usp.tsts[1].trusted
       /\ \A c \in Signers : V!OcspOK(order.ocsp, c, policy.maxAge)

(* Create and Verify agree: an untouched container is accepted exactly     *)
(* when it is acceptable, provided both are given the same --tsdelay.      *)
UntouchedVerdict ==
  vpc = "done" /\ edits = 0 /\ policy.tsDelay = order.tsDelay =>
    (report.ok <=> Acceptable)

(* A relying party who accepts a TS container knows that the certificate   *)
(* was not revoked for longer than OCSPMaxAge when the signature was       *)
(* stamped, save for what the two clocks differ by: however old the answer *)
(* on the disk was, whoever failed on the way, and whatever was changed in *)
(* transit.                                                                *)
AcceptedBeforeRevocation ==
  \A i \in DOMAIN report.sigs :
    report.sigs[i].ok /\ policy.profile = "TS" /\ input.fetch =>
      LET stampedAt == report.sigs[i].time - input.tsaAhead IN
      stampedAt + input.tsaAhead - input.responderAhead < input.revoked + policy.maxAge

(* README.md's order, fetch before create, meets the TSDelayTime guard     *)
(* only where the authority's clock is not ahead: the stamp is given later *)
(* than the answer and must not say so.  With clocks that agree, both must *)
(* fall into the same second.                                              *)
FetchedFirst ==
  out.state = "container" /\ order.profile = "TS" /\ input.fetch =>
    \A k \in DOMAIN sigs :
      sigs[k].usp.tsts[1].gen - order.ocsp.producedAt
        \in (input.tsaAhead - input.responderAhead)..0
=============================================================================
