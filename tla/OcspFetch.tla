----------------------------- MODULE OcspFetch ------------------------------
(***************************************************************************)
(* "asice ocsp fetch": the certificate files are read, one OCSP request is *)
(* sent to the responder, a second time in another shape when the first is *)
(* answered with HTTP 400, and the answer is stored as it came.            *)
(*                                                                         *)
(* The responder, the network, the disk and whoever may kill the process   *)
(* are the environment.  Computing takes no time: the clock moves only     *)
(* while an exchange is under way.                                         *)
(***************************************************************************)
EXTENDS Integers, Sequences

CONSTANTS
  Input,           (* the command lines considered, with their files       *)
  Certificate,     (* the certificates in those files                      *)
  Answers(_, _, _) (* HTTP answers to an input's request, at a time        *)

(* A PEM file: not given, not readable, empty, not all certificates, or    *)
(* certificates in their order.                                            *)
FileType ==
  [state : {"none", "unreadable", "empty", "bad", "pem"}, certs : Seq(Certificate)]

(* A timeout that is not positive is none.                                 *)
IsInput(in) ==
  /\ in.cert \in FileType /\ in.issuer \in FileType /\ in.chain \in FileType
  /\ in.out \in BOOLEAN /\ in.url \in BOOLEAN /\ in.timeout \in Int

ASSUME OcspFetchAssumption == \A in \in Input : IsInput(in)

VARIABLES
  input,    (* the command line                                            *)
  pc,       (* the step to run next                                        *)
  request,  (* the CertID asked about                                      *)
  clock,    (* seconds since the command began                             *)
  deadline, (* when the exchange under way ends                            *)
  log,      (* the exchanges: [shape, id, answer]                          *)
  out,      (* the file at the --out path                                  *)
  outcome   (* "running", "ok", "usage", "error", "offline" (no answer),   *)
            (* "unwritten" (no file) or "killed"                           *)

vars == <<input, pc, request, clock, deadline, log, out, outcome>>

NoRequest == [name |-> "", key |-> "", serial |-> 0]
NoAnswer  == [kind |-> "none", http |-> 0, body |-> <<>>]
Unset     == -1

Old        == [state |-> "old", body |-> <<>>]
Damaged    == [state |-> "damaged", body |-> <<>>]
Response(b) == [state |-> "response", body |-> b]

InitFor(in) ==
  /\ input = in /\ pc = "inputs" /\ request = NoRequest
  /\ clock = 0 /\ deadline = Unset /\ log = <<>>
  /\ out = Old /\ outcome = "running"

End(o) == pc' = "done" /\ outcome' = o
Fail   == End("error")

-----------------------------------------------------------------------------
UsageOK == input.cert.state # "none" /\ input.out

(* One certificate in --cert; one in --issuer, unless that file is empty,  *)
(* which counts as not given; any number in --chain.                       *)
FilesOK ==
  /\ input.cert.state = "pem" /\ Len(input.cert.certs) = 1
  /\ \/ input.issuer.state \in {"none", "empty"}
     \/ input.issuer.state = "pem" /\ Len(input.issuer.certs) = 1
  /\ input.chain.state \in {"none", "empty", "pem"}

ReadInputs ==
  /\ pc = "inputs"
  /\ \/ ~UsageOK /\ End("usage")
     \/ UsageOK /\ ~FilesOK /\ Fail
     \/ UsageOK /\ FilesOK /\ pc' = "build" /\ UNCHANGED outcome
  /\ UNCHANGED <<input, request, clock, deadline, log, out>>

Signer == input.cert.certs[1]

Chain == IF input.chain.state = "pem" THEN input.chain.certs ELSE <<>>

(* issuerFromChain: the first one with the issuer's name, if there is one. *)
IssuerFromChain ==
  {Chain[i] : i \in {j \in DOMAIN Chain :
     /\ Chain[j].subject = Signer.issuer
     /\ \A h \in 1..(j - 1) : Chain[h].subject # Signer.issuer}}

Issuers ==
  IF input.issuer.state = "pem" THEN {input.issuer.certs[1]} ELSE IssuerFromChain

(* The serial is the signer's, name and key are the issuer's own.          *)
CertIDForSigner(signer, issuer) ==
  [name |-> issuer.subject, key |-> issuer.key, serial |-> signer.serial]

BuildRequest ==
  /\ pc = "build"
  /\ \/ \E issuer \in Issuers :
          /\ input.url \/ Signer.aia
          /\ request' = CertIDForSigner(Signer, issuer)
          /\ pc' = "send" /\ UNCHANGED outcome
     \/ (Issuers # {} => ~(input.url \/ Signer.aia)) /\ Fail /\ UNCHANGED request
  /\ UNCHANGED <<input, clock, deadline, log, out>>

-----------------------------------------------------------------------------
(* The canonical body first, then the same wrapped in one SEQUENCE.        *)
Shape(i) == IF i = 1 THEN "canonical" ELSE "wrapped"

Send ==
  /\ pc = "send"
  /\ \/ /\ log' = Append(log, [shape |-> Shape(Len(log) + 1), id |-> request,
                               answer |-> NoAnswer])
        /\ deadline' = IF input.timeout > 0 THEN clock + input.timeout ELSE Unset
        /\ pc' = "exchange" /\ UNCHANGED outcome
     \/ End("offline") /\ UNCHANGED <<log, deadline>>
  /\ UNCHANGED <<input, request, clock, out>>

(* Mutant: an HTTP client without a timeout.                               *)
NeverTimesOut == FALSE

TimesOut ==
  /\ pc = "exchange" /\ clock = deadline /\ End("offline")
  /\ UNCHANGED <<input, request, clock, deadline, log, out>>

Answer == log[Len(log)].answer

(* Mutants: an error answer of any kind is tried again in the other shape; *)
(* none is; the shapes are tried over and over.                            *)
TryAgainAfterAny == Answer.http # 200 /\ Len(log) < 2
TryAgainNever    == FALSE
TryAgainForever  == Answer.http = 400

(* Only a 400 to the first shape leads to the second.                      *)
TryAgain == Answer.http = 400 /\ Len(log) < 2

(* Errors of the exchange end the command at once, whatever the status.    *)
HandleAnswer ==
  /\ pc = "answer"
  /\ \/ Answer.kind = "reply" /\ TryAgain /\ pc' = "send" /\ UNCHANGED outcome
     \/ Answer.kind = "reply" /\ Answer.http = 200 /\ Answer.body.parses
          /\ pc' = "check" /\ UNCHANGED outcome
     \/ /\ Answer.kind = "reply" => ~TryAgain /\ (Answer.http = 200 => ~Answer.body.parses)
        /\ Fail
  /\ UNCHANGED <<input, request, clock, deadline, log, out>>

Successful(b) == b.status = 0 /\ b.type = "basic"

CheckResponse ==
  /\ pc = "check"
  /\ \/ Successful(Answer.body)  /\ pc' = "write" /\ UNCHANGED outcome
     \/ ~Successful(Answer.body) /\ Fail
  /\ UNCHANGED <<input, request, clock, deadline, log, out>>

(* os.WriteFile truncates and writes, and reports what goes wrong at       *)
(* opening, writing and closing.                                           *)
WriteFile ==
  /\ pc = "write"
  /\ \/ out' = Response(Answer.body) /\ End("ok")
     \/ out' \in {out, Damaged} /\ End("unwritten")
  /\ UNCHANGED <<input, request, clock, deadline, log>>

-----------------------------------------------------------------------------
(* The environment.                                                        *)
Deliver ==
  /\ pc = "exchange" /\ pc' = "answer"
  /\ \E a \in Answers(input, request, clock) : log' = [log EXCEPT ![Len(log)].answer = a]
  /\ UNCHANGED <<input, request, clock, deadline, out, outcome>>

ConnectionBreaks ==
  /\ pc = "exchange" /\ End("offline")
  /\ UNCHANGED <<input, request, clock, deadline, log, out>>

Tick ==
  /\ pc = "exchange" /\ clock < deadline /\ clock' = clock + 1
  /\ UNCHANGED <<input, pc, request, deadline, log, out, outcome>>

Kill ==
  /\ pc # "done" /\ End("killed")
  /\ \/ UNCHANGED out
     \/ pc = "write" /\ out' \in {Damaged, Response(Answer.body)}
  /\ UNCHANGED <<input, request, clock, deadline, log>>

Work ==
  \/ ReadInputs \/ BuildRequest \/ Send \/ TimesOut \/ HandleAnswer \/ CheckResponse
  \/ WriteFile \/ Tick
Next == Work \/ Deliver \/ ConnectionBreaks \/ Kill

Init == \E in \in Input : InitFor(in)

(* Time passes and the command runs; the responder need not answer.        *)
Spec == Init /\ [][Next]_vars /\ WF_vars(Work)

-----------------------------------------------------------------------------
(* Types: what each variable may hold at each step.                        *)
Steps    == {"inputs", "build", "send", "exchange", "answer", "check", "write", "done"}
Outcomes == {"running", "ok", "usage", "error", "offline", "unwritten", "killed"}
TypeOK ==
  /\ pc \in Steps /\ outcome \in Outcomes /\ (pc = "done" <=> outcome # "running")
  /\ clock \in Nat /\ deadline \in Nat \cup {Unset} /\ Len(log) \in 0..2
  /\ pc \in {"exchange", "answer", "check", "write"} => log # <<>>
  /\ out.state \in {"old", "damaged", "response"}

(* What is stored is the whole body of the last answer, a successful basic *)
(* response given with HTTP 200; an answer before it was a 400 to the      *)
(* canonical shape, asked about the same certificate; and that was the     *)
(* signer's serial under a certificate of the issuer's name, or the one    *)
(* given for it.  Whoever was told of success has such a file, and         *)
(* whoever was told of a failure before writing still has the old one.     *)
NamesSigner(id) ==
  /\ id.serial = Signer.serial
  /\ \/ input.issuer.state = "pem"
     \/ id.name = Signer.issuer
StoredIsServed ==
  /\ out.state = "response" =>
       /\ log # <<>> /\ out.body = Answer.body
       /\ Answer.kind = "reply" /\ Answer.http = 200
       /\ Answer.body.parses /\ Successful(Answer.body)
       /\ \A i \in 1..(Len(log) - 1) :
            /\ log[i].shape = "canonical" /\ log[i].id = log[Len(log)].id
            /\ log[i].answer.kind = "reply" /\ log[i].answer.http = 400
       /\ NamesSigner(log[Len(log)].id)
  /\ outcome = "ok" => out.state = "response"
  /\ outcome \in {"usage", "error", "offline"} => out = Old

(* Two requests at the most, each within its timeout when there is one:    *)
(* the bound on the command is twice --timeout.                            *)
WithinBudget ==
  /\ Len(log) <= 2
  /\ input.timeout > 0 => clock <= Len(log) * input.timeout

(* A responder that serves one of the shapes and answers the other with a  *)
(* 400 is served by: its answer is stored unless the exchange breaks, the  *)
(* disk fails or the command is killed.                                    *)
Serves(accepted) ==
  \A i \in DOMAIN log :
    LET a == log[i].answer IN
    /\ a.kind = "reply"
    /\ \/ /\ log[i].shape \in accepted
          /\ a.http = 200 /\ a.body.parses /\ Successful(a.body)
       \/ log[i].shape \notin accepted /\ a.http = 400
ServedIsStored ==
  outcome = "error" /\ log # <<>> =>
    \A accepted \in SUBSET {"canonical", "wrapped"} : accepted # {} => ~Serves(accepted)

(* With a timeout the command ends, whatever the responder does.           *)
Returns == input.timeout > 0 => <>(pc = "done")
=============================================================================
