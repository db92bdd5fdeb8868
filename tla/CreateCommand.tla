--------------------------- MODULE CreateCommand ----------------------------
(***************************************************************************)
(* "asice create" as a whole: the command line is checked, the files it    *)
(* names are read and parsed, asic.Create runs on what they hold, and the  *)
(* output is closed.  Create is used unchanged.  Its options are fixed     *)
(* from the beginning, as what the files hold; nothing looks at them       *)
(* before they are read.                                                   *)
(*                                                                         *)
(* A program may also call asic.Create with options of its own, several    *)
(* signers among them: that is the command from os.Create on.              *)
(***************************************************************************)
EXTENDS Create

CONSTANTS
  CommandLine, (* the command lines considered, with their files           *)
  Key,         (* key pairs of a type that parsePrivateKeyBlock knows      *)
  SignerKey    (* those NewStdSignerModule takes                           *)

NoKey == ""

(***************************************************************************)
(* What pem.Decode yields for a file: blocks in their order.  "key" stands *)
(* for the three types the parser knows; every other type is "other".  A   *)
(* certificate has the public half of its key, and a block that parses is  *)
(* what its type says.  A file without any block may be the DER encoding   *)
(* of a key.                                                               *)
(***************************************************************************)
Block ==
  [type : {"certificate", "key", "other"}, parses : BOOLEAN, cert : Cert \cup {NoCert},
   key : Key \cup {NoKey}]
BlockType ==
  {b \in Block : b.parses =>
     /\ b.type \in {"certificate", "key"} => b.key \in Key
     /\ b.type = "certificate" => b.cert \in Cert}
FileState == {"none", "unreadable", "read"}
FileType  == [state : FileState, blocks : Seq(BlockType), der : Key \cup {NoKey}]

(* A path has the base name and the media type its document gets.          *)
CommandLineType ==
  [output : BOOLEAN, cert : FileType, key : FileType, docs : Seq([readable : BOOLEAN, doc : Doc]),
   profile : {"BES", "TS", "other"}, ocsp : [state : FileState, body : OcspType],
   tst : BOOLEAN, tstSigners : FileType, chain : FileType, tsDelay : Int, time : Int,
   timeParses : BOOLEAN]

VARIABLES
  args,   (* the command line, or Library                                  *)
  step,   (* "inputs", "create", "refused" or "closed"                     *)
  exit,   (* the exit code, or Running                                     *)
  closed  (* "open", or whether closing the output "kept" or "lost" what   *)
          (* was written                                                   *)

commandVars == <<args, step, exit, closed>>

Library == [output |-> FALSE]
Running == -1

-----------------------------------------------------------------------------
(* Parsing the signer.                                                     *)
Decodes(b) == b.type = "key" /\ b.parses

NoBlock     == [type |-> "certificate", parses |-> FALSE, cert |-> NoCert, key |-> NoKey]
NothingRead == [bad |-> FALSE, cert |-> NoBlock, key |-> NoKey, keyBlocks |-> 0]

(* Mutant: a key block that does not decode is not counted.                *)
ScanDecoded(acc, b) ==
  IF b.type = "certificate"
  THEN [acc EXCEPT !.bad = @ \/ acc.cert # NoBlock \/ ~b.parses, !.cert = b]
  ELSE [acc EXCEPT !.keyBlocks = IF Decodes(b) THEN @ + 1 ELSE @,
                   !.bad       = @ \/ (Decodes(b) /\ acc.keyBlocks > 0),
                   !.key       = IF Decodes(b) THEN b.key ELSE @]

(* One block after another: every block that is no certificate counts as a *)
(* private key block.                                                      *)
Scan(acc, b) ==
  IF b.type = "certificate"
  THEN [acc EXCEPT !.bad = @ \/ acc.cert # NoBlock \/ ~b.parses, !.cert = b]
  ELSE [acc EXCEPT !.keyBlocks = @ + 1,
                   !.bad       = @ \/ acc.keyBlocks > 0,
                   !.key       = IF Decodes(b) THEN b.key ELSE @]

(* The loop over the blocks of the types it looks at.                      *)
ScanAll(blocks, types) ==
  LET read[i \in 0..Len(blocks)] ==
        IF i = 0 THEN NothingRead
        ELSE IF blocks[i].type \in types THEN Scan(read[i - 1], blocks[i])
        ELSE read[i - 1]
  IN  read[Len(blocks)]

SignerFor(read, key) ==
  IF ~read.bad /\ read.cert # NoBlock /\ key \in SignerKey /\ key = read.cert.key
  THEN read.cert.cert ELSE NoCert

ParseSigner(blocks) ==
  LET read == ScanAll(blocks, {"certificate", "key", "other"}) IN SignerFor(read, read.key)

ParsePrivateKey(file) ==
  IF file.blocks = <<>> THEN file.der
  ELSE IF Decodes(file.blocks[1]) THEN file.blocks[1].key ELSE NoKey

ParseSignerCertKey(blocks, keyFile) ==
  SignerFor(ScanAll(blocks, {"certificate"}), ParsePrivateKey(keyFile))

(* With --key, --cert is read for its certificate only.                    *)
SignerOf(a) ==
  CASE a.cert.state # "read" \/ a.key.state = "unreadable" -> NoCert
    [] a.cert.state = "read" /\ a.key.state = "none" -> ParseSigner(a.cert.blocks)
    [] a.cert.state = "read" /\ a.key.state = "read" ->
         ParseSignerCertKey(a.cert.blocks, a.key)

ParsePEMCertsOK(file) ==
  /\ file.state = "read"
  /\ \A i \in DOMAIN file.blocks :
       file.blocks[i].type = "certificate" /\ file.blocks[i].parses

(* The CreateOptions for a command line.                                   *)
OptionsOf(a) ==
  LET ts == a.profile = "TS" IN
  [docs |-> [i \in DOMAIN a.docs |-> a.docs[i].doc], signers |-> <<[cert |-> SignerOf(a)]>>,
   profile |-> a.profile, tsDelay |-> IF ts THEN a.tsDelay ELSE 0, time |-> a.time,
   ocsp |-> IF ts THEN a.ocsp.body ELSE NoOcsp,
   tsCerts |-> IF ts THEN Len(a.chain.blocks) ELSE 0, provider |-> ts, digest |-> TRUE]

ASSUME CommandAssumption ==
  /\ NoKey \notin Key /\ SignerKey \subseteq Key
  /\ \A a \in CommandLine : a \in CommandLineType /\ OptionsOf(a) \in Order

-----------------------------------------------------------------------------
(* A missing flag is a plain error like any other: only a --signing-time   *)
(* that does not parse ends in exit code 2.                                *)
FlagsOK(a) ==
  /\ a.output /\ a.cert.state # "none" /\ a.docs # <<>>
  /\ a.profile \in {"BES", "TS"}
  /\ a.profile = "TS" =>
       a.ocsp.state # "none" /\ a.tst /\ a.tstSigners.state # "none" /\ a.chain.state # "none"

FilesOK(a) ==
  /\ SignerOf(a) # NoCert
  /\ \A i \in DOMAIN a.docs : a.docs[i].readable
  /\ a.profile = "TS" =>
       /\ a.ocsp.state = "read"
       /\ ParsePEMCertsOK(a.tstSigners) /\ a.tstSigners.blocks # <<>>
       /\ ParsePEMCertsOK(a.chain) /\ Len(a.chain.blocks) = 2

(* The command goes on to os.Create, or ends with the output as it was.    *)
ReadInputs ==
  /\ step = "inputs" /\ outcome = "running"
  /\ \/ /\ args.timeParses /\ FlagsOK(args) /\ FilesOK(args)
        /\ step' = "create" /\ UNCHANGED <<exit, vars>>
     \/ /\ ~(args.timeParses /\ FlagsOK(args) /\ FilesOK(args))
        /\ step' = "refused" /\ Fail
        /\ exit' = IF args.timeParses THEN 1 ELSE 2
        /\ UNCHANGED <<opts, built, captured, sigs, asked, out>>
  /\ UNCHANGED <<args, closed>>

Creating == step = "create" /\ Work /\ UNCHANGED commandVars

Killed == Interrupt /\ UNCHANGED commandVars

(* The deferred Close: what it reports is dropped.                         *)
CloseOutput ==
  /\ step = "create" /\ args # Library /\ outcome \in {"ok", "error"}
  /\ step' = "closed"
  /\ exit' = IF outcome = "ok" THEN 0 ELSE 1
  /\ closed' \in IF out.state \in {"absent", "old"} THEN {"kept"} ELSE {"kept", "lost"}
  /\ UNCHANGED <<args, vars>>

CommandWork == ReadInputs \/ Creating \/ CloseOutput
CommandNext == CommandWork \/ Killed

CommandInit ==
  /\ exit = Running /\ closed = "open"
  /\ \E file \in {Absent, Old} :
       \/ \E a \in CommandLine : args = a /\ step = "inputs" /\ InitFor(OptionsOf(a), file)
       \/ \E o \in Order : args = Library /\ step = "create" /\ InitFor(o, file)

CommandSpec ==
  CommandInit /\ [][CommandNext]_<<vars, commandVars>> /\ WF_<<vars, commandVars>>(CommandWork)

-----------------------------------------------------------------------------
(* The files hold a signer as ParseSigner's comment defines it: exactly    *)
(* one certificate and exactly one private key block, in any order, that   *)
(* belong together, with a key that can sign.                              *)
OnlyOfType(blocks, i, type) ==
  \A j \in DOMAIN blocks : blocks[j].type = type <=> j = i
HoldsSigner(a, cert) ==
  \E i \in DOMAIN a.cert.blocks :
    LET b == a.cert.blocks[i] IN
    /\ OnlyOfType(a.cert.blocks, i, "certificate")
    /\ b.parses /\ b.cert = cert /\ b.key \in SignerKey
    /\ \/ /\ a.key.state = "none"
          /\ \E j \in DOMAIN a.cert.blocks :
               /\ OnlyOfType(a.cert.blocks, j, "key")
               /\ a.cert.blocks[j].parses /\ a.cert.blocks[j].key = b.key
       \/ /\ a.key.state = "read"
          /\ IF a.key.blocks = <<>> THEN a.key.der = b.key
             ELSE Decodes(a.key.blocks[1]) /\ a.key.blocks[1].key = b.key

HasOtherBlock(file) == \E i \in DOMAIN file.blocks : file.blocks[i].type = "other"

(* A container already at the -o path is safe from a command line that is  *)
(* incomplete or names a file that is missing or does not hold what it     *)
(* must: nothing is truncated and no time-stamp is asked for.  A signer    *)
(* file with one certificate and its own key is taken in whichever order   *)
(* they are, no file without them is, and that certificate is the one that *)
(* signs.  A block of a third type beside them is left open: ParseSigner   *)
(* takes it for a second key where its comment counts key blocks only.     *)
StartsExactlyWhenReady ==
  args # Library =>
    LET ready ==
          /\ args.timeParses /\ FlagsOK(args)
          /\ args.cert.state = "read" /\ args.key.state # "unreadable"
          /\ \E cert \in Cert : HoldsSigner(args, cert)
          /\ \A i \in DOMAIN args.docs : args.docs[i].readable
          /\ args.profile = "TS" =>
               /\ args.ocsp.state = "read"
               /\ Len(args.chain.blocks) = 2 /\ args.tstSigners.blocks # <<>>
               /\ \A f \in {args.chain, args.tstSigners} : ParsePEMCertsOK(f)
    IN  /\ ~ready => asked = 0 /\ out.state \in {"absent", "old"} /\ exit # 0
        /\ ready /\ (args.key.state = "read" \/ ~HasOtherBlock(args.cert)) => step # "refused"
        /\ step \in {"create", "closed"} => HoldsSigner(args, opts.signers[1].cert)

(* create.go:37 "returns a plain error on any failure": exit code 0 means  *)
(* that the container is there.                                            *)
ReportedIsOnDisk ==
  LET onDisk == IF closed = "lost" THEN Partial ELSE out
  IN  exit = 0 => onDisk.state = "container"
=============================================================================
