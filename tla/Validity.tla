------------------------------ MODULE Validity ------------------------------
(***************************************************************************)
(* What asic.Verify promises, stated once and without its order of work:   *)
(* which containers are valid under which options, and that the verdict    *)
(* is the right one and stands.  Nothing here is shared with Verify, so    *)
(* that the two can disagree.                                              *)
(***************************************************************************)
EXTENDS Asice

CONSTANTS Trusted, MaxEntry, MaxTotal, MetaSize \* as in Verify

VARIABLES
  zip,    (* the archive                                                   *)
  opts,   (* VerifyOptions                                                 *)
  verdict (* "pending", "accepted" or "rejected"                           *)

-----------------------------------------------------------------------------
(* The archive: the magic entry, one manifest, at least one data file and  *)
(* one signature document, no name twice, nothing else, all within bounds. *)
Indices(z, kind) == {i \in 2..Len(z) : z[i].kind = kind}

EntrySize(e) == IF e.kind = "file" THEN Size[e.data] ELSE MetaSize
TotalSize(z) == Total([i \in 1..Len(z) |-> EntrySize(z[i])])

WholeArchive(z) ==
  /\ z # <<>> /\ z[1] = MimetypeEntry(TRUE)
  /\ 2..Len(z) = UNION {Indices(z, kind) : kind \in {"manifest", "file", "signature"}}
  /\ Cardinality(Indices(z, "manifest")) = 1
  /\ Indices(z, "file") # {} /\ Indices(z, "signature") # {}
  /\ \A i, j \in Indices(z, "file")      : z[i].name = z[j].name => i = j
  /\ \A i, j \in Indices(z, "signature") : z[i].key = z[j].key   => i = j
  /\ \A i \in Indices(z, "file") : Size[z[i].data] <= MaxEntry
  /\ TotalSize(z) <= MaxTotal

FileNames(z) == {z[i].name : i \in Indices(z, "file")}
FilesOf(z)   == [n \in FileNames(z) |->
                  z[CHOOSE i \in Indices(z, "file") : z[i].name = n].data]
RowsOf(z)    == z[CHOOSE i \in Indices(z, "manifest") : TRUE].rows

(* The manifest: complete rows, no path twice, the container's own row,    *)
(* nothing under META-INF/, a row for every data file.                     *)
ValidManifest(rows, names) ==
  /\ \A i \in DOMAIN rows :
       rows[i].path \notin {NoName, "META-INF/"} /\ rows[i].mime # NoMediaType
  /\ \A i, j \in DOMAIN rows : rows[i].path = rows[j].path => i = j
  /\ Row("/", RootMedia) \in Range(rows)
  /\ names \subseteq {rows[i].path : i \in DOMAIN rows}

MediaOf(rows, names) ==
  [n \in names |-> rows[CHOOSE i \in DOMAIN rows : rows[i].path = n].mime]

-----------------------------------------------------------------------------
(* The references are one to one with the data files, and the signed media *)
(* types are one to one with the references.                               *)
SignsEveryFile(sig, files, media) ==
  /\ \A i, j \in DOMAIN sig.refs : sig.refs[i].id = sig.refs[j].id => i = j
  /\ \A i \in DOMAIN sig.refs : sig.refs[i].id # NoId
  /\ DOMAIN files \cap HashName = {}
  /\ \E file \in Bijection(DOMAIN sig.refs, DOMAIN files) :
       /\ \A i \in DOMAIN sig.refs :
            sig.refs[i].uri = file[i] /\ sig.refs[i].dig = files[file[i]]
       /\ \E ref \in Bijection(DOMAIN sig.sp.dofs, DOMAIN sig.refs) :
            \A d \in DOMAIN sig.sp.dofs :
              /\ sig.sp.dofs[d].ref = sig.refs[ref[d]].id
              /\ sig.sp.dofs[d].mime # NoMediaType
              /\ Trim(sig.sp.dofs[d].mime) = media[file[ref[d]]]

ValidBES(sig, files, media) ==
  /\ sig.shape = "ok" /\ sig.cert # NoCert
  /\ sig.target = sig.id /\ sig.sp.id # NoId
  /\ sig.sp.time # NoTime /\ ~sig.sp.policy /\ sig.sp.cert = sig.cert
  /\ <<sig.cert, sig.sp.time>> \in Trusted
  /\ sig.spRefs = <<[target |-> sig.sp.id, dig |-> sig.sp]>>
  /\ sig.sv.key = sig.cert
  /\ sig.sv.over = [refs |-> sig.refs, spRefs |-> sig.spRefs]
  /\ SignsEveryFile(sig, files, media)

(* The time-stamp is over the signature value; the OCSP answer is fresh    *)
(* for its own production time and was produced within the bound after the *)
(* time-stamp.                                                             *)
ValidTS(sig, o) ==
  LET tsts == sig.usp.tsts
      tst  == tsts[Len(tsts)]
      ocsp == sig.usp.ocsp
  IN
  /\ sig.usp.shape = "ok"
  /\ tsts # <<>> /\ \A i \in DOMAIN tsts : tsts[i].empty <=> i # Len(tsts)
  /\ tst.trusted /\ tst.imprint = sig.sv
  /\ ocsp.decodes /\ ocsp.single /\ ocsp.authentic
  /\ ocsp.status = "good" /\ ocsp.cert = sig.cert
  /\ ocsp.thisUpdate <= ocsp.producedAt
  /\ ocsp.producedAt <= ocsp.thisUpdate + o.maxAge
  /\ tst.gen <= ocsp.producedAt
  /\ \/ o.tsDelay > 0 /\ ocsp.producedAt <= tst.gen + o.tsDelay
     \/ o.tsDelay <= 0 /\ tst.bound # NoBound /\ ocsp.producedAt <= tst.gen + tst.bound

ValidSignature(sig, files, media, o) ==
  ValidBES(sig, files, media) /\ (o.profile = "TS" => ValidTS(sig, o))

ValidContainer(z, o) ==
  /\ WholeArchive(z)
  /\ ValidManifest(RowsOf(z), FileNames(z))
  /\ LET files == FilesOf(z)
         media == MediaOf(RowsOf(z), FileNames(z))
     IN  \A i \in Indices(z, "signature") : ValidSignature(z[i].doc, files, media, o)

-----------------------------------------------------------------------------
Init == verdict = "pending"

Decide ==
  /\ verdict = "pending"
  /\ verdict' = IF ValidContainer(zip, opts) THEN "accepted" ELSE "rejected"
  /\ UNCHANGED <<zip, opts>>

Spec == Init /\ [][Decide]_<<zip, opts, verdict>>
=============================================================================
