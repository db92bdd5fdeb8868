-------------------------- MODULE OcspFetchProofs ---------------------------
(***************************************************************************)
(* Proofs about OcspFetch, for any command lines, files, timeouts and      *)
(* answers.                                                                *)
(***************************************************************************)
EXTENDS OcspFetch, TLAPS

AnyId     == {NoRequest} \cup {CertIDForSigner(s, i) : s \in Certificate, i \in Certificate}
AnyAnswer == {NoAnswer} \cup UNION {Answers(input, id, t) : id \in AnyId, t \in Nat}
AnyExchange ==
  [shape : {"canonical", "wrapped"}, id : AnyId, answer : AnyAnswer]

(* The inductive invariant: the exchanges are those of the shapes in their *)
(* order, all about the one CertID, each but the last answered with a 400; *)
(* and the clock stays within the deadlines they were given.               *)
IsRefusal(e) == e.answer.kind = "reply" /\ e.answer.http = 400

LogInv ==
  /\ log \in Seq(AnyExchange) /\ Len(log) <= 2 /\ request \in AnyId
  /\ \A i \in 1..Len(log) : log[i].shape = Shape(i) /\ log[i].id = request
  /\ Len(log) = 2 => IsRefusal(log[1])
  /\ pc \in {"inputs", "build"} => log = <<>>
  /\ pc = "send" /\ log # <<>> => Len(log) = 1 /\ IsRefusal(log[1])
  /\ pc \in {"exchange", "answer", "check", "write"} => log # <<>>
  /\ pc \in {"send", "exchange", "answer", "check", "write"} => NamesSigner(request)
  /\ pc \in {"check", "write"} =>
       Answer.kind = "reply" /\ Answer.http = 200 /\ Answer.body.parses
  /\ pc = "write" => Successful(Answer.body)
  /\ pc = "build" => FilesOK

OutInv ==
  /\ pc # "done" => out = Old
  /\ out.state \in {"old", "damaged", "response"}
  /\ pc \in Steps /\ outcome \in Outcomes /\ (pc = "done" <=> outcome # "running")

ClockInv ==
  /\ clock \in Nat /\ deadline \in Nat \cup {Unset}
  /\ input.timeout > 0 =>
       /\ clock <= Len(log) * input.timeout
       /\ pc = "exchange" => clock <= deadline /\ deadline <= Len(log) * input.timeout

IInv ==
  /\ IsInput(input)
  /\ LogInv /\ OutInv /\ ClockInv /\ StoredIsServed /\ ServedIsStored

-----------------------------------------------------------------------------
LEMMA SignerTyped ==
  ASSUME IsInput(input), FilesOK
  PROVE  /\ Signer \in Certificate
         /\ \A issuer \in Issuers :
              /\ issuer \in Certificate
              /\ NamesSigner(CertIDForSigner(Signer, issuer))
<1>1. Signer \in Certificate
  BY DEF IsInput, FileType, FilesOK, Signer
<1>2. \A i \in DOMAIN Chain : Chain[i] \in Certificate
  BY DEF IsInput, FileType, Chain
<1>3. input.issuer.state = "pem" => input.issuer.certs[1] \in Certificate
  BY DEF IsInput, FileType, FilesOK
<1>4. ASSUME NEW issuer \in Issuers
      PROVE  /\ issuer \in Certificate
             /\ input.issuer.state = "pem" \/ issuer.subject = Signer.issuer
  BY <1>2, <1>3, <1>4 DEF Issuers, IssuerFromChain
<1> QED
  BY <1>1, <1>4 DEF NamesSigner, CertIDForSigner

LEMMA LogLength ==
  ASSUME IInv
  PROVE  /\ log \in Seq(AnyExchange) /\ Len(log) \in 0..2 /\ DOMAIN log = 1..Len(log)
         /\ log # <<>> <=> Len(log) \in 1..2
<1>1. log \in Seq(AnyExchange) /\ Len(log) <= 2
  BY DEF IInv, LogInv
<1>2. Len(log) \in Nat /\ DOMAIN log = 1..Len(log)
  BY <1>1
<1>3. log = <<>> <=> Len(log) = 0
  BY <1>1
<1> QED
  BY <1>1, <1>2, <1>3

(* Steps that leave the exchanges and the file alone.                      *)
LEMMA SameExchanges ==
  ASSUME IInv, UNCHANGED <<input, request, log>>
  PROVE  /\ AnyExchange' = AnyExchange /\ IsInput(input)'
         /\ log' \in Seq(AnyExchange') /\ Len(log') <= 2 /\ request' \in AnyId'
         /\ \A i \in 1..Len(log') : log'[i].shape = Shape(i) /\ log'[i].id = request'
         /\ Len(log') = 2 => IsRefusal(log'[1])
         /\ NamesSigner(request)' <=> NamesSigner(request)
         /\ (log # <<>> => Answer' = Answer)
         /\ FilesOK' <=> FilesOK
BY DEF IInv, LogInv, AnyExchange, AnyAnswer, AnyId, IsInput, NamesSigner, Signer, Answer,
   FilesOK

(* An error answer is none that a responder gives who serves a shape.      *)
LEMMA NotServed ==
  ASSUME IInv, log # <<>>, NEW accepted \in SUBSET {"canonical", "wrapped"},
         accepted # {}, Serves(accepted)
  PROVE  /\ Answer.kind = "reply"
         /\ \/ Answer.http = 200 /\ Answer.body.parses /\ Successful(Answer.body)
            \/ TryAgain
<1>1. Len(log) \in 1..2 /\ DOMAIN log = 1..Len(log)
  BY LogLength
<1>2. CASE Len(log) = 1
  <2>1. log[1].shape = "canonical" /\ Answer = log[1].answer
    BY <1>1, <1>2 DEF IInv, LogInv, Shape, Answer
  <2> QED
    BY <1>1, <1>2, <2>1 DEF Serves, TryAgain
<1>3. CASE Len(log) = 2
  <2>1. /\ log[1].shape = "canonical" /\ IsRefusal(log[1])
        /\ log[2].shape = "wrapped" /\ Answer = log[2].answer
    BY <1>1, <1>3 DEF IInv, LogInv, Shape, Answer
  <2>2. "canonical" \notin accepted
    BY <1>1, <1>3, <2>1 DEF Serves, IsRefusal
  <2>3. "wrapped" \in accepted
    BY <2>2
  <2> QED
    BY <1>1, <1>3, <2>1, <2>3 DEF Serves
<1> QED
  BY <1>1, <1>2, <1>3

LEMMA FreshIInv ==
  ASSUME IsInput(input), InitFor(input)
  PROVE  IInv
BY DEF InitFor, IInv, IsInput, LogInv, AnyId, OutInv, ClockInv, StoredIsServed,
   ServedIsStored, Old, Unset, Steps, Outcomes

LEMMA InitIInv == Init => IInv
<1> SUFFICES ASSUME NEW in \in Input, InitFor(in)
             PROVE  IInv
  BY DEF Init
<1>1. input = in /\ IsInput(input)
  BY OcspFetchAssumption DEF InitFor
<1> QED
  BY <1>1, FreshIInv

LEMMA NextIInv == IInv /\ [Next]_vars => IInv'
<1> SUFFICES ASSUME IInv, [Next]_vars
             PROVE  IInv'
  OBVIOUS
<1> USE DEF IInv
<1>0. /\ log \in Seq(AnyExchange) /\ Len(log) \in 0..2 /\ DOMAIN log = 1..Len(log)
      /\ log # <<>> <=> Len(log) \in 1..2
  BY LogLength
<1>a. clock \in Nat /\ input.timeout \in Int
  BY DEF ClockInv, IsInput
<1>1. CASE UNCHANGED vars
  BY <1>1, SameExchanges DEF vars, LogInv, OutInv, ClockInv, StoredIsServed, ServedIsStored,
     Serves, NamesSigner, Signer, Answer
<1>2. CASE ReadInputs
  <2>1. UNCHANGED <<input, request, log>> /\ log = <<>>
    BY <1>2 DEF ReadInputs, LogInv
  <2> QED
    BY <1>2, <2>1, SameExchanges DEF ReadInputs, End, Fail, LogInv, OutInv, ClockInv,
       StoredIsServed, ServedIsStored, Steps, Outcomes, Old
<1>3. CASE BuildRequest
  <2>1. log = <<>> /\ log' = <<>> /\ out' = Old /\ input' = input /\ FilesOK
    BY <1>3 DEF BuildRequest, LogInv, OutInv
  <2>2. request' \in AnyId /\ (pc' = "send" => NamesSigner(request)')
    <3>1. CASE UNCHANGED request /\ pc' = "done"
      BY <3>1, <2>1 DEF LogInv, AnyId
    <3>2. CASE \E issuer \in Issuers : request' = CertIDForSigner(Signer, issuer)
      BY <3>2, <2>1, SignerTyped DEF AnyId, NamesSigner, Signer
    <3> QED
      BY <1>3, <3>1, <3>2 DEF BuildRequest, Fail, End
  <2>3. AnyId' = AnyId /\ IsInput(input)'
    BY <2>1 DEF AnyId, IsInput
  <2> QED
    BY <1>3, <2>1, <2>2, <2>3 DEF BuildRequest, Fail, End, LogInv, OutInv, ClockInv,
       StoredIsServed, ServedIsStored, Steps, Outcomes, Old
<1>4. CASE Send
  <2> DEFINE e == [shape |-> Shape(Len(log) + 1), id |-> request, answer |-> NoAnswer]
  <2>1. UNCHANGED <<input, request, clock, out>> /\ out = Old
    BY <1>4 DEF Send, OutInv
  <2>2. CASE log' = Append(log, e) /\ pc' = "exchange" /\ UNCHANGED outcome
    <3>1. Len(log) <= 1 /\ (Len(log) = 1 => IsRefusal(log[1]))
      BY <1>0, <1>4 DEF Send, LogInv
    <3>2. e \in AnyExchange
      BY DEF AnyExchange, AnyAnswer, Shape, LogInv
    <3>3. /\ log' \in Seq(AnyExchange) /\ Len(log') = Len(log) + 1
          /\ \A i \in 1..Len(log) : log'[i] = log[i]
          /\ log'[Len(log')] = e /\ log' # <<>>
      BY <1>0, <2>2, <3>2
    <3>4. AnyExchange' = AnyExchange /\ AnyId' = AnyId /\ IsInput(input)'
      BY <2>1 DEF AnyExchange, AnyAnswer, AnyId, IsInput
    <3>5. LogInv'
      <4>1. \A i \in 1..Len(log') : log'[i].shape = Shape(i) /\ log'[i].id = request'
        BY <1>0, <2>1, <3>3 DEF LogInv
      <4>2. NamesSigner(request)'
        BY <1>4, <2>1 DEF Send, LogInv, NamesSigner, Signer
      <4> QED
        BY <1>0, <2>1, <2>2, <3>1, <3>3, <3>4, <4>1, <4>2 DEF LogInv, IsRefusal
    <3>6. ClockInv'
      <4>1. deadline' = IF input.timeout > 0 THEN clock + input.timeout ELSE Unset
        BY <1>4, <2>2 DEF Send, End
      <4>2. CASE Len(log) = 0
        BY <1>a, <2>1, <2>2, <3>3, <4>1, <4>2 DEF ClockInv, Unset
      <4>3. CASE Len(log) = 1
        BY <1>a, <2>1, <2>2, <3>3, <4>1, <4>3 DEF ClockInv, Unset
      <4> QED
        BY <1>0, <3>1, <4>2, <4>3
    <3> QED
      BY <1>4, <2>1, <2>2, <3>4, <3>5, <3>6 DEF Send, OutInv, StoredIsServed, ServedIsStored,
         Steps, Outcomes, Old
  <2>3. CASE End("offline") /\ UNCHANGED <<log, deadline>>
    BY <1>4, <2>1, <2>3, SameExchanges DEF Send, End, LogInv, OutInv, ClockInv,
       StoredIsServed, ServedIsStored, Steps, Outcomes, Old
  <2> QED
    BY <1>4, <2>2, <2>3 DEF Send
<1>5. CASE TimesOut
  <2>1. UNCHANGED <<input, request, log>>
    BY <1>5 DEF TimesOut
  <2> QED
    BY <1>5, <2>1, SameExchanges DEF TimesOut, End, LogInv, OutInv, ClockInv,
       StoredIsServed, ServedIsStored, Steps, Outcomes, Old
<1>6. CASE HandleAnswer
  <2>1. UNCHANGED <<input, request, log, clock, deadline, out>> /\ out = Old
    BY <1>6 DEF HandleAnswer, OutInv
  <2>2. CASE Answer.kind = "reply" /\ TryAgain /\ pc' = "send" /\ UNCHANGED outcome
    <3>1. Len(log) = 1 /\ IsRefusal(log[1])
      BY <1>0, <1>6, <2>2 DEF HandleAnswer, LogInv, TryAgain, Answer, IsRefusal
    <3> QED
      BY <1>6, <2>1, <2>2, <3>1, SameExchanges DEF HandleAnswer, LogInv, OutInv, ClockInv,
         StoredIsServed, ServedIsStored, Steps, Outcomes, Old, IsRefusal
  <2>3. CASE /\ Answer.kind = "reply" /\ Answer.http = 200 /\ Answer.body.parses
             /\ pc' = "check" /\ UNCHANGED outcome
    BY <1>6, <2>1, <2>3, SameExchanges DEF HandleAnswer, LogInv, OutInv, ClockInv,
       StoredIsServed, ServedIsStored, Steps, Outcomes, Old
  <2>4. CASE /\ Answer.kind = "reply" => ~TryAgain /\ (Answer.http = 200 => ~Answer.body.parses)
             /\ Fail
    <3>1. ServedIsStored'
      <4>1. \A accepted \in SUBSET {"canonical", "wrapped"} : accepted # {} => ~Serves(accepted)
        BY <1>6, <2>4, NotServed DEF HandleAnswer, LogInv
      <4> QED
        BY <2>1, <4>1 DEF ServedIsStored, Serves, Successful
    <3> QED
      BY <1>6, <2>1, <2>4, <3>1, SameExchanges DEF HandleAnswer, Fail, End, LogInv, OutInv,
         ClockInv, StoredIsServed, Steps, Outcomes, Old
  <2> QED
    BY <1>6, <2>2, <2>3, <2>4 DEF HandleAnswer
<1>7. CASE CheckResponse
  <2>1. UNCHANGED <<input, request, log, clock, deadline, out>> /\ out = Old
    BY <1>7 DEF CheckResponse, OutInv
  <2>2. CASE Successful(Answer.body) /\ pc' = "write" /\ UNCHANGED outcome
    BY <1>7, <2>1, <2>2, SameExchanges DEF CheckResponse, LogInv, OutInv, ClockInv,
       StoredIsServed, ServedIsStored, Steps, Outcomes, Old, Successful
  <2>3. CASE ~Successful(Answer.body) /\ Fail
    <3>1. ServedIsStored'
      <4>1. \A accepted \in SUBSET {"canonical", "wrapped"} : accepted # {} => ~Serves(accepted)
        BY <1>7, <2>3, NotServed DEF CheckResponse, LogInv, TryAgain
      <4> QED
        BY <2>1, <4>1 DEF ServedIsStored, Serves, Successful
    <3> QED
      BY <1>7, <2>1, <2>3, <3>1, SameExchanges DEF CheckResponse, Fail, End, LogInv, OutInv,
         ClockInv, StoredIsServed, Steps, Outcomes, Old
  <2> QED
    BY <1>7, <2>2, <2>3 DEF CheckResponse
<1>8. ASSUME pc = "write", UNCHANGED <<input, request, log, clock, deadline>>,
             pc' = "done", outcome' \in {"ok", "unwritten", "killed"},
             \/ out' = Response(Answer.body)
             \/ out' \in {out, Damaged} /\ outcome' # "ok"
      PROVE  IInv'
  <2>1. out' = Response(Answer.body) => StoredIsServed'
    <3>1. /\ log # <<>> /\ Answer.kind = "reply" /\ Answer.http = 200
          /\ Answer.body.parses /\ Successful(Answer.body) /\ NamesSigner(request)
      BY <1>8 DEF LogInv
    <3>2. \A i \in 1..(Len(log) - 1) :
            /\ log[i].shape = "canonical" /\ log[i].id = log[Len(log)].id
            /\ log[i].answer.kind = "reply" /\ log[i].answer.http = 400
      BY <1>0, <3>1 DEF LogInv, Shape, IsRefusal
    <3>3. log[Len(log)].id = request
      BY <1>0, <3>1 DEF LogInv
    <3>4. Answer' = Answer /\ NamesSigner(request)' = NamesSigner(request)
      BY <1>8 DEF Answer, NamesSigner, Signer
    <3> QED
      BY <1>8, <3>1, <3>2, <3>3, <3>4 DEF StoredIsServed, Response, Successful, NamesSigner,
         Signer
  <2>2. out' \in {out, Damaged} => StoredIsServed'
    BY <1>8 DEF StoredIsServed, OutInv, Old, Damaged, Response
  <2> QED
    BY <1>8, <2>1, <2>2, SameExchanges DEF LogInv, OutInv, ClockInv, ServedIsStored, Steps,
       Outcomes, Old, Damaged, Response
<1>9. CASE WriteFile
  BY <1>8, <1>9 DEF WriteFile, End
<1>10. CASE Tick
  <2>1. UNCHANGED <<input, request, log>>
    BY <1>10 DEF Tick
  <2>2. ClockInv'
    <3>1. Len(log) * input.timeout \in Int
      BY <1>0, <1>a
    <3> QED
      BY <1>0, <1>10, <1>a, <2>1, <3>1 DEF Tick, ClockInv, Unset
  <2> QED
    BY <1>10, <2>1, <2>2, SameExchanges DEF Tick, LogInv, OutInv, StoredIsServed,
       ServedIsStored, Steps, Outcomes, Old
<1>11. CASE Deliver
  <2>1. UNCHANGED <<input, request, clock, deadline, out, outcome>> /\ out = Old
    BY <1>11 DEF Deliver, OutInv
  <2>2. PICK a \in Answers(input, request, clock) : log' = [log EXCEPT ![Len(log)].answer = a]
    BY <1>11 DEF Deliver
  <2>3. Len(log) \in 1..2
    BY <1>0, <1>11 DEF Deliver, LogInv
  <2>4. a \in AnyAnswer
    BY <1>a, <2>2 DEF AnyAnswer, LogInv
  <2>5. [log[Len(log)] EXCEPT !.answer = a] \in AnyExchange
    <3>1. log[Len(log)] \in AnyExchange
      BY <1>0, <2>3
    <3> QED
      BY <2>4, <3>1 DEF AnyExchange
  <2>6. log' \in Seq(AnyExchange) /\ Len(log') = Len(log) /\ log' # <<>>
    BY <1>0, <2>2, <2>3, <2>5
  <2>7. /\ \A i \in 1..(Len(log) - 1) : log'[i] = log[i]
        /\ log'[Len(log)] = [log[Len(log)] EXCEPT !.answer = a]
    BY <1>0, <2>2, <2>3
  <2>8. \A i \in 1..Len(log') : log'[i].shape = Shape(i) /\ log'[i].id = request'
    <3>1. [log[Len(log)] EXCEPT !.answer = a].shape = log[Len(log)].shape
      BY <1>0, <2>3 DEF AnyExchange
    <3>2. [log[Len(log)] EXCEPT !.answer = a].id = log[Len(log)].id
      BY <1>0, <2>3 DEF AnyExchange
    <3>3. \A i \in 1..Len(log) : log[i].shape = Shape(i) /\ log[i].id = request
      BY DEF LogInv
    <3>4. log'[Len(log)].shape = Shape(Len(log)) /\ log'[Len(log)].id = request
      BY <2>3, <2>7, <3>1, <3>2, <3>3
    <3>5. \A i \in 1..Len(log') : i = Len(log) \/ i \in 1..(Len(log) - 1)
      BY <2>3, <2>6
    <3> QED
      BY <2>1, <2>3, <2>6, <2>7, <3>3, <3>4, <3>5 DEF Shape
  <2>9. AnyExchange' = AnyExchange /\ AnyId' = AnyId /\ IsInput(input)'
    BY <2>1 DEF AnyExchange, AnyAnswer, AnyId, IsInput
  <2>10. LogInv'
    <3>1. NamesSigner(request)'
      BY <1>11, <2>1 DEF Deliver, LogInv, NamesSigner, Signer
    <3> QED
      BY <1>11, <2>1, <2>3, <2>6, <2>7, <2>8, <2>9, <3>1 DEF Deliver, LogInv, IsRefusal
  <2> QED
    BY <1>11, <2>1, <2>6, <2>9, <2>10 DEF Deliver, OutInv, ClockInv, StoredIsServed,
       ServedIsStored, Steps, Outcomes, Old
<1>12. CASE ConnectionBreaks
  <2>1. UNCHANGED <<input, request, log>>
    BY <1>12 DEF ConnectionBreaks
  <2> QED
    BY <1>12, <2>1, SameExchanges DEF ConnectionBreaks, End, LogInv, OutInv, ClockInv,
       StoredIsServed, ServedIsStored, Steps, Outcomes, Old
<1>13. CASE Kill
  <2>1. CASE pc = "write"
    BY <1>8, <1>13, <2>1 DEF Kill, End
  <2>2. CASE pc # "write"
    BY <1>13, <2>2, SameExchanges DEF Kill, End, LogInv, OutInv, ClockInv,
       StoredIsServed, ServedIsStored, Steps, Outcomes, Old
  <2> QED
    BY <2>1, <2>2
<1> QED
  BY <1>1, <1>2, <1>3, <1>4, <1>5, <1>6, <1>7, <1>9, <1>10, <1>11, <1>12, <1>13
     DEF Next, Work

LEMMA Invariance == Spec => []IInv
<1>1. Init => IInv
  BY InitIInv
<1>2. IInv /\ [Next]_vars => IInv'
  BY NextIInv
<1> QED
  BY <1>1, <1>2, PTL DEF Spec

-----------------------------------------------------------------------------
(* The command keeps its own bookkeeping within its types.                 *)
THEOREM TypeCorrect == Spec => []TypeOK
<1>1. IInv => TypeOK
  BY LogLength DEF IInv, LogInv, OutInv, ClockInv, TypeOK
<1> QED
  BY <1>1, Invariance, PTL

(* The --out file of a fetch is the previous one or the responder's last   *)
(* answer, whole and successful, to a request about this signer; only a    *)
(* failing disk or a kill in the write leaves anything else.               *)
THEOREM Stored == Spec => []StoredIsServed
<1>1. IInv => StoredIsServed
  BY DEF IInv
<1> QED
  BY <1>1, Invariance, PTL

(* Two requests at the most, and twice the timeout.                        *)
THEOREM Budget == Spec => []WithinBudget
<1>1. IInv => WithinBudget
  BY LogLength DEF IInv, LogInv, ClockInv, WithinBudget
<1> QED
  BY <1>1, Invariance, PTL

(* No answer of a responder that serves either shape is refused.           *)
THEOREM Served == Spec => []ServedIsStored
<1>1. IInv => ServedIsStored
  BY DEF IInv
<1> QED
  BY <1>1, Invariance, PTL
=============================================================================
