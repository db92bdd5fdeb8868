-------------------------- MODULE TsaClientProofs ---------------------------
(***************************************************************************)
(* Proofs about TsaClient, for any configuration, number of retries,       *)
(* timeouts and bounds, any authority and any network.                     *)
(***************************************************************************)
EXTENDS TsaClient, TLAPS

(* What n attempts with the pauses after them may take.                    *)
Spent(n) == n * (Timeout + RetryWait)

LEMMA SpentGrows ==
  ASSUME NEW m \in Nat
  PROVE  /\ Spent(m) \in Nat
         /\ Spent(m + 1) = Spent(m) + Timeout + RetryWait
         /\ \A n \in Nat : m <= n => Spent(m) <= Spent(n)
<1>1. Timeout + RetryWait \in Nat
  BY TsaClientAssumption
<1> DEFINE P == Timeout + RetryWait
<1> HIDE DEF P
<1>2. P \in Nat
  BY <1>1 DEF P
<1>3. m * P \in Nat
  BY <1>2
<1>4. (m + 1) * P = m * P + P
  BY <1>2
<1>5. ASSUME NEW n \in Nat, m <= n PROVE m * P <= n * P
  <2> DEFINE d == n - m
  <2>1. d \in Nat /\ n = m + d
    BY <1>5
  <2> HIDE DEF d
  <2>2. (m + d) * P = m * P + d * P /\ d * P \in Nat
    BY <1>2, <2>1
  <2> QED
    BY <1>3, <2>1, <2>2
<1> QED
  BY <1>1, <1>3, <1>4, <1>5, TsaClientAssumption DEF Spent, P

-----------------------------------------------------------------------------
(* The inductive invariant.  The clock and the requests are bounded by the *)
(* attempts made so far; ...                                               *)
BudgetInv ==
  /\ sent <= attempt + 1
  /\ pc \in {"begin", "send"} => sent <= attempt /\ clock <= Spent(attempt)
  /\ pc \in {"exchange", "answer", "parse", "validate"} =>
       clock <= deadline /\ deadline <= Spent(attempt) + Timeout
  /\ pc = "wait" => attempt < call.retry /\ deadline <= Spent(attempt + 1)
  /\ WithinBudget

(* ... the nonce is the caller's or one never used before; ...             *)
NonceInv ==
  pc \notin {"begin", "done"} =>
    nonce # NoNonce /\ (call.nonce = NoNonce => nonce \in RandomNonce)

(* ... what was stamped before the call does not have such a nonce; ...    *)
IssuedInv ==
  \A s \in issued :
    s.at \in Int /\ s.at <= clock /\ (s.at < 0 => s.info.nonce \notin RandomNonce)

(* ... what is parsed and validated came over the network.                 *)
AnswerInv ==
  /\ answer.kind = "reply" => pc \in {"answer", "parse", "validate", "done"} /\ Genuine(answer.body)
  /\ pc \in {"parse", "validate"} => answer.kind = "reply"
  /\ pc = "validate" => Reply.outcome = "ok" /\ Reply.status = 0 /\ Reply.token # <<>>

(* A token that was returned passed the checks.                            *)
Checked(t) ==
  /\ t.info.version = 1 /\ t.info.imprint = call.data
  /\ CheckSignedData(call.pool, t)
ResultInv == result.outcome = "ok" => Checked(result.token[1])

IInv ==
  /\ call \in Call /\ TypeOK
  /\ BudgetInv /\ NonceInv /\ IssuedInv /\ AnswerInv /\ ResultInv
  /\ StampedForThisCall /\ HonestStampKept

-----------------------------------------------------------------------------
(* A signature that verifies under a certificate of the pool and can be    *)
(* made is over what the authority stamped under that certificate.         *)
LEMMA SignedIsStamped ==
  ASSUME call \in Call, NEW t, CanBeMade(t), CheckSignedData(call.pool, t)
  PROVE  \E s \in issued : s.info = t.info /\ \E i \in DOMAIN call.pool : call.pool[i] = s.cert
<1>1. PICK i \in DOMAIN call.pool :
        CheckSignedAttributes(t.attrs, t.info, call.pool[i]) /\ CheckSignature(t, call.pool[i])
  BY DEF CheckSignedData
<1>2. call.pool[i] \in Authority
  <2>1. call.pool \in Seq(Authority)
    BY TsaClientAssumption
  <2> QED
    BY <2>1
<1>3. t.sig = [key |-> call.pool[i].key, over |-> AttributeSet(t.attrs)]
  BY <1>1 DEF CheckSignature
<1>4. t.sig.key = call.pool[i].key /\ t.sig.over = AttributeSet(t.attrs)
  BY <1>3
<1>5. PICK s \in issued : t.sig = TSToken(s.info, s.cert).sig
  BY <1>2, <1>4 DEF CanBeMade
<1>6. t.sig.over = AttributeSet(SignedAttributes(s.info, s.cert))
  BY <1>5 DEF TSToken
<1> DEFINE u == SignedAttributes(s.info, s.cert)
<1>7. [t.attrs EXCEPT !.types = Types(t.attrs)] = [u EXCEPT !.types = Types(u)]
  BY <1>4, <1>6 DEF AttributeSet
<1>8. DOMAIN t.attrs = DOMAIN u /\ "digest" \in DOMAIN u /\ "cert" \in DOMAIN u
  <2>1. DOMAIN [t.attrs EXCEPT !.types = Types(t.attrs)] = DOMAIN t.attrs
    OBVIOUS
  <2>2. DOMAIN [u EXCEPT !.types = Types(u)] = DOMAIN u
    OBVIOUS
  <2>3. "digest" \in DOMAIN u /\ "cert" \in DOMAIN u
    BY DEF SignedAttributes
  <2> QED
    BY <1>7, <2>1, <2>2, <2>3
<1>9. t.attrs.digest = u.digest /\ t.attrs.cert = u.cert
  <2> HIDE DEF u
  <2>1. /\ [t.attrs EXCEPT !.types = Types(t.attrs)].digest = t.attrs.digest
        /\ [t.attrs EXCEPT !.types = Types(t.attrs)].cert = t.attrs.cert
    BY <1>8
  <2>2. /\ [u EXCEPT !.types = Types(u)].digest = u.digest
        /\ [u EXCEPT !.types = Types(u)].cert = u.cert
    BY <1>8
  <2> QED
    BY <1>7, <2>1, <2>2
<1>10. u.digest = s.info /\ u.cert = s.cert
  BY DEF SignedAttributes
<1> QED
  BY <1>1, <1>9, <1>10 DEF CheckSignedAttributes

(* An unchanged token in any of the shapes is parsed.                      *)
LEMMA GrantedParses ==
  ASSUME NEW t, NEW b \in GrantedBodies(t)
  PROVE  ParseTimeStampResp(b) = Parsed(0, <<t>>)
<1> USE DEF Body, StatusInfo, ContentInfo, Explicit0, Implicit16, OuterSequence, Element, NoStatus
<1> DEFINE Second(e) == FinishTimeStampResp(0, <<e>>)
<1>f. ASSUME NEW e, e.token = <<t>> PROVE Second(e) = Parsed(0, <<t>>)
  BY <1>f DEF FinishTimeStampResp
<1>g. Second(ContentInfo(t)) = Parsed(0, <<t>>)
  BY <1>f
<1>1. CASE b = Body(StatusInfo(0), <<>>, <<ContentInfo(t)>>)
  <2>1. Flat(b) /\ b.lead.status = 0 /\ b.rest = <<ContentInfo(t)>>
    BY <1>1 DEF Flat, IsStatus
  <2>2. ~OneOuter(b) /\ ~Canonical(b) /\ ~Wrapped(b)
    BY <2>1 DEF OneOuter, Canonical, Wrapped
  <2> HIDE DEF ContentInfo
  <2> QED
    BY <1>g, <2>1, <2>2 DEF ParseTimeStampResp
<1>2. CASE b = Body(OuterSequence, <<StatusInfo(0), ContentInfo(t)>>, <<>>)
  <2>1. ~Flat(b) /\ OneOuter(b) /\ ~Canonical(b) /\ Wrapped(b)
    BY <1>2 DEF Flat, OneOuter, Canonical, Wrapped, IsStatus, IsSequence
  <2>2. b.children[1].status = 0 /\ Tail(b.children) = <<ContentInfo(t)>> /\ b.children # <<>>
    BY <1>2
  <2> HIDE DEF ContentInfo
  <2> QED
    BY <1>g, <2>1, <2>2 DEF ParseTimeStampResp
<1>3. ASSUME NEW e, b = Body(OuterSequence, <<Explicit0(StatusInfo(0)), e>>, <<>>),
             e.token = <<t>>, IsTokenChild(e)
      PROVE  ParseTimeStampResp(b) = Parsed(0, <<t>>)
  <2>1. ~Flat(b) /\ Canonical(b)
    BY <1>3 DEF Flat, OneOuter, Canonical, IsStatus, IsSequence
  <2>2. /\ b.children[1].status = 0 /\ Tail(b.children) = <<e>>
        /\ \A i \in 2..Len(b.children) : b.children[i] = e
    BY <1>3
  <2> QED
    BY <1>f, <1>3, <2>1, <2>2 DEF ParseTimeStampResp
<1>4. CASE b = Body(OuterSequence, <<Explicit0(StatusInfo(0)), Implicit16(t)>>, <<>>)
  BY <1>3, <1>4 DEF IsTokenChild
<1>5. CASE b = Body(OuterSequence, <<Explicit0(StatusInfo(0)), ContentInfo(t)>>, <<>>)
  BY <1>3, <1>5 DEF IsTokenChild
<1> QED
  BY <1>1, <1>2, <1>4, <1>5 DEF GrantedBodies

(* The attributes an authority signs are of the types wanted, each once.   *)
LEMMA StampedAttributes ==
  ASSUME NEW info, NEW cert
  PROVE  CheckSignedAttributes(SignedAttributes(info, cert), info, cert)
<1> DEFINE attrs == SignedAttributes(info, cert)
<1>1. /\ attrs.types = <<"contentType", "signingTime", "messageDigest", "signingCertV2">>
      /\ attrs.digest = info /\ attrs.time = info.gen /\ attrs.cert = cert
  BY DEF SignedAttributes
<1> HIDE DEF attrs
<1>2. DOMAIN attrs.types = 1..4
  BY <1>1
<1>3. Types(attrs) = {"contentType", "signingTime", "messageDigest", "signingCertV2"}
  BY <1>1, <1>2 DEF Types
<1>4. \A i, j \in DOMAIN attrs.types : attrs.types[i] = attrs.types[j] => i = j
  BY <1>1, <1>2
<1> QED
  BY <1>1, <1>3, <1>4 DEF CheckSignedAttributes, KnownAttribute, attrs

(* The checks take a good stamp that arrives while it is waited for.       *)
LEMMA GoodIsTaken ==
  ASSUME call \in Call, clock \in Nat, deadline \in Nat, clock <= deadline,
         NEW s, s.at \in Int, s.at <= clock, GoodStamp(s)
  PROVE  LET t == TSToken(s.info, s.cert)
         IN  /\ CheckTokenBody(call.pool, t, call.data, nonce, clock, MaxAge, MaxSkew)
             /\ PolicyOK(t)
<1> DEFINE t == TSToken(s.info, s.cert)
<1>1. /\ t.info = s.info /\ t.cms /\ t.signer = s.cert.ski /\ s.cert \in t.certs
      /\ t.attrs = SignedAttributes(s.info, s.cert)
      /\ t.sig = [key |-> s.cert.key, over |-> AttributeSet(t.attrs)]
  BY DEF TSToken
<1> HIDE DEF t
<1>2. CheckGenTime(clock, t.info, MaxAge, MaxSkew)
  <2>1. s.info.gen \in Int /\ s.info.acc \in Int
    BY DEF GoodStamp
  <2>2. /\ s.at >= deadline - Timeout
        /\ s.info.gen - s.at + s.info.acc <= MaxSkew
        /\ Timeout + s.info.acc - (s.info.gen - s.at) <= MaxAge
    BY DEF GoodStamp
  <2>3. /\ clock - s.info.gen + s.info.acc <= MaxAge
        /\ s.info.gen <= clock + (MaxSkew - s.info.acc)
    <3>1. ASSUME NEW gen \in Int, NEW acc \in Int, NEW at \in Int, at <= clock,
                 at >= deadline - Timeout, gen - at + acc <= MaxSkew,
                 Timeout + acc - (gen - at) <= MaxAge
          PROVE  clock - gen + acc <= MaxAge /\ gen <= clock + (MaxSkew - acc)
      BY <3>1, TsaClientAssumption
    <3> QED
      BY <2>1, <2>2, <3>1
  <2> QED
    BY <1>1, <2>3 DEF CheckGenTime
<1>3. CheckSignedData(call.pool, t)
  <2>1. PICK i \in DOMAIN call.pool :
          call.pool[i] = s.cert /\ \A j \in 1..(i - 1) : call.pool[j].ski # s.cert.ski
    BY DEF GoodStamp
  <2>2. FindSignerCert(call.pool, t.signer, i) /\ call.pool[i] \in t.certs
    BY <1>1, <2>1 DEF FindSignerCert
  <2>3. CheckSignedAttributes(t.attrs, t.info, call.pool[i]) /\ CheckSignature(t, call.pool[i])
    BY <1>1, <2>1, StampedAttributes DEF CheckSignature
  <2> QED
    BY <1>1, <2>2, <2>3 DEF CheckSignedData
<1>4. /\ t.info.version = 1 /\ t.info.imprint = call.data /\ t.info.nonce = nonce
      /\ PolicyOK(t)
  BY <1>1 DEF GoodStamp, PolicyOK
<1> QED
  BY <1>2, <1>3, <1>4 DEF CheckTokenBody, t

(* What a checked token says was stamped for this call.                    *)
LEMMA CheckedIsStamped ==
  ASSUME call \in Call, IssuedInv, nonce # NoNonce, call.nonce = NoNonce => nonce \in RandomNonce,
         NEW t, CanBeMade(t), PolicyOK(t),
         CheckTokenBody(call.pool, t, call.data, nonce, clock, MaxAge, MaxSkew)
  PROVE  \E s \in issued :
           /\ s.info = t.info /\ \E i \in DOMAIN call.pool : call.pool[i] = s.cert
           /\ t.info.version = 1 /\ t.info.imprint = call.data /\ t.info.nonce = nonce
           /\ call.policy # AnyPolicy => t.info.policy = call.policy
           /\ call.nonce = NoNonce => s.at >= 0
<1>1. PICK s \in issued :
        s.info = t.info /\ \E i \in DOMAIN call.pool : call.pool[i] = s.cert
  BY SignedIsStamped DEF CheckTokenBody
<1>2. /\ t.info.version = 1 /\ t.info.imprint = call.data /\ t.info.nonce = nonce
      /\ call.policy # AnyPolicy => t.info.policy = call.policy
  BY DEF CheckTokenBody, PolicyOK
<1>3. call.nonce = NoNonce => s.at >= 0
  BY <1>1, <1>2 DEF IssuedInv
<1> QED
  BY <1>1, <1>2, <1>3

-----------------------------------------------------------------------------
LEMMA Numbers ==
  ASSUME IInv
  PROVE  /\ Timeout \in Nat /\ RetryWait \in Nat
         /\ attempt \in Nat /\ call.retry \in Nat /\ attempt <= call.retry
         /\ sent \in Nat /\ clock \in Nat /\ deadline \in Nat
         /\ Spent(attempt) \in Nat /\ Spent(call.retry) \in Nat
         /\ Spent(attempt + 1) = Spent(attempt) + Timeout + RetryWait
         /\ Spent(attempt) <= Spent(call.retry)
         /\ attempt < call.retry => Spent(attempt + 1) <= Spent(call.retry)
         /\ WithinBudget <=>
              sent <= call.retry + 1 /\ clock <= Spent(call.retry) + Timeout
<1>1. attempt \in Nat /\ call.retry \in Nat /\ attempt <= call.retry /\ sent \in Nat
      /\ clock \in Nat /\ deadline \in Nat
  BY TsaClientAssumption DEF IInv, TypeOK
<1>2. attempt < call.retry => Spent(attempt + 1) <= Spent(call.retry)
  <2>1. attempt + 1 \in Nat
    BY <1>1
  <2> QED
    BY <1>1, <2>1, SpentGrows
<1> QED
  BY <1>1, <1>2, SpentGrows, TsaClientAssumption DEF WithinBudget, Spent

(* What is genuine stays so as the authority stamps more.                  *)
LEMMA GenuineStays ==
  ASSUME issued \subseteq issued', NEW b, Genuine(b)
  PROVE  Genuine(b)'
BY DEF Genuine, CanBeMade

(* A step that ends the call without a token.                              *)
LEMMA Stops ==
  ASSUME IInv, NEW o \in {"error", "panic"}, Return(o, <<>>),
         UNCHANGED <<call, attempt, clock, deadline, cancelled, sent, issued, stamped, answer>>,
         HonestStampKept'
  PROVE  IInv'
<1> USE DEF IInv
<1>1. TypeOK' /\ NonceInv' /\ ResultInv' /\ StampedForThisCall'
  BY DEF Return, TypeOK, Steps, NonceInv, ResultInv, StampedForThisCall
<1>2. BudgetInv'
  BY Numbers DEF Return, BudgetInv, WithinBudget
<1>3. IssuedInv'
  BY DEF IssuedInv
<1>4. AnswerInv'
  BY GenuineStays DEF Return, AnswerInv
<1> QED
  BY <1>1, <1>2, <1>3, <1>4

(* The end of an attempt: a pause or the end of the call.                  *)
LEMMA AttemptEnds ==
  ASSUME IInv, pc \in {"send", "exchange", "answer"},
         \/ pc' = "wait" /\ attempt < call.retry /\ deadline' = clock + RetryWait /\ result' = result
         \/ pc' = "done" /\ result' = [outcome |-> "error", token |-> <<>>] /\ deadline' = deadline,
         UNCHANGED <<call, nonce, attempt, clock, cancelled, sent, issued, stamped>>,
         answer'.kind # "reply"
  PROVE  IInv'
<1> USE DEF IInv
<1>1. result.outcome # "ok"
  BY DEF TypeOK
<1>2. /\ clock + RetryWait \in Nat
      /\ clock + RetryWait <= Spent(attempt + 1)
  BY Numbers DEF BudgetInv
<1>3. \/ pc' = "wait" /\ attempt < call.retry /\ deadline' = clock + RetryWait /\ result' = result
      \/ pc' = "done" /\ result' = [outcome |-> "error", token |-> <<>>] /\ deadline' = deadline
  OBVIOUS
<1>4. TypeOK'
  <2>1. /\ attempt' \in 0..call'.retry /\ cancelled' \in BOOLEAN
        /\ clock' \in Nat /\ sent' \in Nat /\ stamped' \in 0..sent'
    BY DEF TypeOK
  <2>2. CASE pc' = "wait" /\ deadline' = clock + RetryWait /\ result' = result
    <3>1. deadline' \in Nat /\ clock' <= deadline'
      BY <1>2, <2>2, Numbers
    <3>2. result.outcome = "none" /\ result.token = <<>>
      BY <1>1 DEF TypeOK
    <3> QED
      BY <2>1, <2>2, <3>1, <3>2 DEF TypeOK, Steps
  <2>3. CASE pc' = "done" /\ result' = [outcome |-> "error", token |-> <<>>] /\ deadline' = deadline
    <3>1. deadline' \in Nat
      BY <2>3, Numbers
    <3>2. result'.outcome = "error" /\ result'.token = <<>>
      BY <2>3
    <3> QED
      BY <2>1, <2>3, <3>1, <3>2 DEF TypeOK, Steps
  <2> QED
    BY <1>3, <2>2, <2>3
<1>5. BudgetInv'
  BY <1>2, <1>3, Numbers DEF BudgetInv, WithinBudget
<1>6. NonceInv' /\ IssuedInv' /\ AnswerInv' /\ HonestStampKept'
  BY <1>3 DEF NonceInv, IssuedInv, AnswerInv, HonestStampKept
<1>7. ResultInv' /\ StampedForThisCall'
  BY <1>1, <1>3 DEF ResultInv, StampedForThisCall
<1> QED
  BY <1>4, <1>5, <1>6, <1>7

LEMMA RetryKeeps ==
  ASSUME IInv, RetryOrFail, pc \in {"send", "exchange", "answer"},
         UNCHANGED <<call, nonce, attempt, clock, cancelled, sent, issued, stamped>>,
         answer'.kind # "reply"
  PROVE  IInv'
<1>1. \/ pc' = "wait" /\ attempt < call.retry /\ deadline' = clock + RetryWait /\ result' = result
      \/ pc' = "done" /\ result' = [outcome |-> "error", token |-> <<>>] /\ deadline' = deadline
  BY DEF RetryOrFail, Fail, Return
<1> QED
  BY <1>1, AttemptEnds

LEMMA InitIInv == Init => IInv
<1> SUFFICES ASSUME Init PROVE IInv
  OBVIOUS
<1> USE DEF Init, NoAnswer
<1>1. call.retry \in Nat
  BY TsaClientAssumption
<1>2. TypeOK
  <2>1. attempt \in 0..call.retry /\ stamped \in 0..sent /\ sent \in Nat
    BY <1>1
  <2>2. result.outcome = "none" /\ result.token = <<>>
    OBVIOUS
  <2> QED
    BY <2>1, <2>2 DEF TypeOK, Steps
<1>3. Spent(0) \in Nat /\ Spent(call.retry) \in Nat
  BY <1>1, SpentGrows
<1>4. BudgetInv
  <2>1. call.retry * (Timeout + RetryWait) \in Nat
    BY <1>3 DEF Spent
  <2>2. WithinBudget
    BY <1>1, <2>1, TsaClientAssumption DEF WithinBudget
  <2> QED
    BY <1>3, <2>2 DEF BudgetInv
<1>5. IssuedInv
  BY TsaClientAssumption DEF IssuedInv
<1> QED
  BY <1>2, <1>4, <1>5 DEF IInv, NonceInv, AnswerInv, ResultInv, StampedForThisCall, HonestStampKept

-----------------------------------------------------------------------------
(* One case for each action.                                               *)
LEMMA NextIInv == IInv /\ [Next]_vars => IInv'
<1> SUFFICES ASSUME IInv, [Next]_vars
             PROVE  IInv'
  OBVIOUS
<1> USE DEF IInv
<1>s. CASE UNCHANGED vars
  <2>1. UNCHANGED <<call, pc, nonce, attempt, clock, deadline, cancelled, sent, issued,
                    stamped, answer, result>>
    BY <1>s DEF vars, clientVars
  <2>2. AnswerInv'
    BY <2>1, GenuineStays DEF AnswerInv, Reply
  <2>3. ResultInv'
    BY <2>1 DEF ResultInv, Checked
  <2> QED
    BY <2>1, <2>2, <2>3 DEF TypeOK, Steps, BudgetInv, WithinBudget, NonceInv, IssuedInv,
       StampedForThisCall, HonestStampKept, GoodStamp
<1>1. CASE Begin
  <2>1. answer.kind # "reply"
    BY <1>1 DEF Begin, AnswerInv
  <2>2. CASE Fail
    <3>1. HonestStampKept'
      BY <1>1, <2>1 DEF Begin, HonestStampKept
    <3> QED
      BY <1>1, <2>2, <3>1, Stops DEF Begin, Fail
  <2>3. CASE /\ CallOK /\ pc' = "send" /\ UNCHANGED result
             /\ nonce' \in (IF call.nonce = NoNonce THEN RandomNonce ELSE {call.nonce})
    <3>1. NonceInv'
      BY <1>1, <2>3, TsaClientAssumption DEF Begin, NonceInv
    <3>2. result.outcome # "ok"
      BY <1>1 DEF Begin, TypeOK
    <3> QED
      BY <1>1, <2>1, <2>3, <3>1, <3>2 DEF Begin, TypeOK, Steps, BudgetInv, WithinBudget,
         IssuedInv, AnswerInv, ResultInv, StampedForThisCall, HonestStampKept
  <2> QED
    BY <1>1, <2>2, <2>3 DEF Begin
<1>2. CASE Send
  <2>1. CASE RetryOrFail /\ UNCHANGED sent
    BY <1>2, <2>1, RetryKeeps DEF Send, NoAnswer
  <2>2. CASE /\ ~cancelled /\ sent' = sent + 1 /\ deadline' = clock + Timeout
             /\ pc' = "exchange" /\ UNCHANGED result
    <3>1. TypeOK'
      <4>1. stamped \in 0..sent' /\ sent' \in Nat
        BY <2>2, Numbers DEF TypeOK
      <4>2. deadline' \in Nat /\ clock <= deadline'
        BY <2>2, Numbers
      <4>3. /\ UNCHANGED <<call, attempt, clock, cancelled, stamped>>
            /\ result.outcome = "none" /\ result.token = <<>>
        BY <1>2 DEF Send, TypeOK
      <4>4. attempt \in 0..call.retry /\ cancelled \in BOOLEAN /\ clock \in Nat
        BY DEF TypeOK
      <4> HIDE DEF IInv
      <4> QED
        BY <2>2, <4>1, <4>2, <4>3, <4>4 DEF TypeOK, Steps
    <3>2. BudgetInv'
      BY <1>2, <2>2, Numbers DEF Send, BudgetInv, WithinBudget
    <3>3. result.outcome # "ok"
      BY <1>2 DEF Send, TypeOK
    <3> QED
      BY <1>2, <2>2, <3>1, <3>2, <3>3 DEF Send, NoAnswer, NonceInv, IssuedInv, AnswerInv,
         ResultInv, StampedForThisCall, HonestStampKept
  <2>3. CASE Fail /\ UNCHANGED <<sent, deadline>>
    <3>1. pc' = "done" /\ result' = [outcome |-> "error", token |-> <<>>] /\ deadline' = deadline
      BY <2>3 DEF Fail, Return
    <3> QED
      BY <1>2, <2>3, <3>1, AttemptEnds DEF Send, NoAnswer
  <2> QED
    BY <1>2, <2>1, <2>2, <2>3 DEF Send
<1>3. CASE TimesOut
  BY <1>3, RetryKeeps DEF TimesOut, AnswerInv
<1>4. CASE ConnectionBreaks
  BY <1>4, RetryKeeps DEF ConnectionBreaks, AnswerInv
<1>5. CASE HandleAnswer
  <2>1. CASE answer.kind = "reply" /\ pc' = "parse" /\ UNCHANGED <<deadline, result>>
    <3>1. result.outcome # "ok"
      BY <1>5 DEF HandleAnswer, TypeOK
    <3>2. AnswerInv'
      BY <1>5, <2>1, GenuineStays DEF HandleAnswer, AnswerInv
    <3> QED
      BY <1>5, <2>1, <3>1, <3>2 DEF HandleAnswer, TypeOK, Steps, BudgetInv, WithinBudget,
         NonceInv, IssuedInv, ResultInv, StampedForThisCall, HonestStampKept
  <2>2. CASE answer.kind \in Retryable /\ RetryOrFail
    BY <1>5, <2>2, RetryKeeps DEF HandleAnswer, Retryable
  <2>3. CASE answer.kind \in Refused /\ Fail /\ UNCHANGED deadline
    <3>1. HonestStampKept'
      BY <1>5, <2>3 DEF HandleAnswer, Refused, HonestStampKept
    <3> QED
      BY <1>5, <2>3, <3>1, Stops DEF HandleAnswer, Fail
  <2> QED
    BY <1>5, <2>1, <2>2, <2>3 DEF HandleAnswer
<1>6. CASE Wait
  <2>1. answer.kind # "reply"
    BY <1>6 DEF Wait, AnswerInv
  <2>2. CASE cancelled /\ Fail /\ UNCHANGED attempt
    <3>1. HonestStampKept'
      BY <1>6, <2>1 DEF Wait, HonestStampKept
    <3> QED
      BY <1>6, <2>2, <3>1, Stops DEF Wait, Fail
  <2>3. CASE clock = deadline /\ pc' = "send" /\ attempt' = attempt + 1 /\ UNCHANGED result
    <3>1. TypeOK'
      BY <1>6, <2>3, Numbers DEF Wait, TypeOK, Steps, BudgetInv
    <3>2. BudgetInv'
      BY <1>6, <2>3, Numbers DEF Wait, BudgetInv, WithinBudget
    <3>3. result.outcome # "ok"
      BY <1>6 DEF Wait, TypeOK
    <3> QED
      BY <1>6, <2>1, <2>3, <3>1, <3>2, <3>3 DEF Wait, NonceInv, IssuedInv, AnswerInv,
         ResultInv, StampedForThisCall, HonestStampKept
  <2> QED
    BY <1>6, <2>2, <2>3 DEF Wait
<1>7. CASE Parse
  <2>1. UNCHANGED <<call, nonce, attempt, clock, deadline, cancelled, sent, issued, stamped, answer>>
    BY <1>7 DEF Parse
  <2>2. CASE /\ Reply.outcome = "ok" /\ Reply.status = 0 /\ Reply.token # <<>>
             /\ pc' = "validate" /\ UNCHANGED result
    <3>1. result.outcome # "ok"
      BY <1>7 DEF Parse, TypeOK
    <3>2. AnswerInv'
      BY <1>7, <2>1, <2>2, GenuineStays DEF Parse, AnswerInv, Reply
    <3> QED
      BY <1>7, <2>1, <2>2, <3>1, <3>2 DEF Parse, TypeOK, Steps, BudgetInv, WithinBudget,
         NonceInv, IssuedInv, ResultInv, StampedForThisCall, HonestStampKept
  <2>3. CASE /\ ~(Reply.outcome = "ok" /\ Reply.status = 0 /\ Reply.token # <<>>)
             /\ \E o \in {"error", "panic"} : Return(o, <<>>)
    <3>1. ASSUME NEW s, answer.body \in GrantedBodies(TSToken(s.info, s.cert))
          PROVE  FALSE
      <4>1. Reply = Parsed(0, <<TSToken(s.info, s.cert)>>)
        BY <3>1, GrantedParses DEF Reply
      <4> QED
        BY <2>3, <4>1 DEF Parsed
    <3>2. HonestStampKept'
      BY <2>1, <3>1 DEF HonestStampKept, GrantedBodies
    <3> QED
      BY <2>1, <2>3, <3>2, Stops
  <2> QED
    BY <1>7, <2>2, <2>3 DEF Parse, Fail
<1>8. CASE Validate
  <2> DEFINE t == Reply.token[1]
  <2> DEFINE good == CheckTokenBody(call.pool, t, call.data, nonce, clock, MaxAge, MaxSkew)
  <2>1. UNCHANGED <<call, nonce, attempt, clock, deadline, cancelled, sent, issued, stamped, answer>>
    BY <1>8 DEF Validate
  <2>2. ASSUME NEW s \in issued, GoodStamp(s), answer.body \in GrantedBodies(TSToken(s.info, s.cert))
        PROVE  good /\ PolicyOK(t)
    <3>1. Reply = Parsed(0, <<TSToken(s.info, s.cert)>>)
      BY <2>2, GrantedParses DEF Reply
    <3>2. t = TSToken(s.info, s.cert)
      BY <3>1 DEF Parsed
    <3>3. s.at \in Int /\ s.at <= clock /\ clock <= deadline /\ clock \in Nat /\ deadline \in Nat
      BY <1>8, Numbers DEF Validate, IssuedInv, BudgetInv
    <3> HIDE DEF t
    <3> QED
      BY <2>2, <3>2, <3>3, GoodIsTaken
  <2>3. CASE ~(good /\ PolicyOK(t)) /\ Fail
    <3>1. HonestStampKept'
      BY <2>1, <2>2, <2>3 DEF HonestStampKept, GoodStamp, GrantedBodies
    <3> QED
      BY <2>1, <2>3, <3>1, Stops DEF Fail
  <2>4. CASE good /\ PolicyOK(t) /\ Return("ok", <<t>>)
    <3>1. CanBeMade(t)
      BY <1>8 DEF Validate, AnswerInv, Genuine, Reply
    <3>2. result' = [outcome |-> "ok", token |-> <<t>>] /\ pc' = "done"
      BY <2>4 DEF Return
    <3>3. StampedForThisCall'
      <4>1. nonce # NoNonce /\ (call.nonce = NoNonce => nonce \in RandomNonce)
        BY <1>8 DEF Validate, NonceInv
      <4> HIDE DEF t
      <4>2. PICK s \in issued :
               /\ s.info = t.info /\ \E i \in DOMAIN call.pool : call.pool[i] = s.cert
               /\ t.info.version = 1 /\ t.info.imprint = call.data /\ t.info.nonce = nonce
               /\ call.policy # AnyPolicy => t.info.policy = call.policy
               /\ call.nonce = NoNonce => s.at >= 0
        BY <2>4, <3>1, <4>1, CheckedIsStamped
      <4> QED
        BY <2>1, <3>2, <4>2 DEF StampedForThisCall
    <3>4. ResultInv'
      BY <2>1, <2>4, <3>2 DEF ResultInv, Checked, CheckTokenBody
    <3>5. TypeOK' /\ BudgetInv'
      BY <1>8, <2>1, <3>2 DEF Validate, TypeOK, Steps, BudgetInv, WithinBudget
    <3>6. AnswerInv'
      BY <1>8, <2>1, <3>2, GenuineStays DEF Validate, AnswerInv
    <3>7. NonceInv' /\ IssuedInv' /\ HonestStampKept'
      BY <2>1, <3>2 DEF NonceInv, IssuedInv, HonestStampKept
    <3> QED
      BY <2>1, <3>3, <3>4, <3>5, <3>6, <3>7
  <2> QED
    BY <1>8, <2>3, <2>4 DEF Validate
<1>9. CASE Stamp
  <2>1. UNCHANGED <<clientVars, clock, cancelled, answer>> /\ pc \in {"exchange", "wait"}
    BY <1>9 DEF Stamp
  <2>2. UNCHANGED <<call, pc, nonce, attempt, deadline, sent, result>>
    BY <2>1 DEF clientVars
  <2>3. IssuedInv'
    <3>1. PICK s \in Stamping(call, nonce, clock) :
            issued' = issued \cup {[info |-> s.info, cert |-> s.cert, at |-> clock]}
      BY <1>9 DEF Stamp
    <3> QED
      BY <2>1, <3>1, Numbers DEF IssuedInv
  <2>4. TypeOK'
    BY <1>9, <2>1, <2>2, Numbers DEF Stamp, TypeOK, Steps
  <2>5. result.outcome # "ok" /\ answer.kind # "reply"
    BY <2>1 DEF TypeOK, AnswerInv
  <2> QED
    BY <2>1, <2>2, <2>3, <2>4, <2>5 DEF BudgetInv, WithinBudget, NonceInv, AnswerInv, ResultInv,
       StampedForThisCall, HonestStampKept
<1>10. CASE Deliver
  <2>1. UNCHANGED <<call, nonce, attempt, deadline, sent, result, clock, cancelled, issued, stamped>>
        /\ pc = "exchange" /\ pc' = "answer"
    BY <1>10 DEF Deliver
  <2>2. answer'.kind = "reply" => Genuine(answer'.body)
    BY <1>10 DEF Deliver, Retryable, Refused
  <2>3. AnswerInv'
    BY <2>1, <2>2 DEF AnswerInv, Genuine, CanBeMade
  <2>4. result.outcome # "ok"
    BY <2>1 DEF TypeOK
  <2> QED
    BY <2>1, <2>3, <2>4 DEF TypeOK, Steps, BudgetInv, WithinBudget, NonceInv, IssuedInv, ResultInv,
       StampedForThisCall, HonestStampKept
<1>11. CASE Cancel
  <2>1. UNCHANGED <<call, pc, nonce, attempt, clock, deadline, sent, issued, stamped, answer, result>>
        /\ cancelled' \in BOOLEAN /\ pc # "done"
    BY <1>11 DEF Cancel, clientVars
  <2>2. AnswerInv'
    BY <2>1, GenuineStays DEF AnswerInv, Reply
  <2>3. result.outcome # "ok"
    BY <2>1 DEF TypeOK
  <2> QED
    BY <2>1, <2>2, <2>3 DEF TypeOK, Steps, BudgetInv, WithinBudget, NonceInv, IssuedInv,
       ResultInv, StampedForThisCall, HonestStampKept
<1>12. CASE Tick
  <2>1. UNCHANGED <<call, pc, nonce, attempt, deadline, cancelled, sent, issued, stamped, answer,
                    result>>
        /\ pc \in {"exchange", "wait"} /\ clock < deadline /\ clock' = clock + 1
    BY <1>12 DEF Tick, clientVars
  <2>2. TypeOK'
    BY <2>1, Numbers DEF TypeOK, Steps
  <2>3. BudgetInv'
    <3>1. clock + 1 <= deadline
      BY <2>1, Numbers
    <3>2. clock + 1 <= Spent(call.retry) + Timeout
      BY <2>1, <3>1, Numbers DEF BudgetInv
    <3>3. WithinBudget'
      BY <2>1, <3>2, Numbers DEF BudgetInv, WithinBudget, Spent
    <3> QED
      BY <2>1, <3>1, <3>3 DEF BudgetInv
  <2>4. IssuedInv'
    BY <2>1, Numbers DEF IssuedInv
  <2>5. result.outcome # "ok" /\ answer.kind # "reply"
    BY <2>1 DEF TypeOK, AnswerInv
  <2> QED
    BY <2>1, <2>2, <2>3, <2>4, <2>5 DEF NonceInv, AnswerInv, ResultInv, StampedForThisCall,
       HonestStampKept
<1> QED
  BY <1>s, <1>1, <1>2, <1>3, <1>4, <1>5, <1>6, <1>7, <1>8, <1>9, <1>10, <1>11, <1>12
  DEF Next, Work

LEMMA Invariance == Spec => []IInv
BY InitIInv, NextIInv, PTL DEF Spec

-----------------------------------------------------------------------------
(* Client.Create's bookkeeping stays within its types.                     *)
THEOREM TypeCorrect == Spec => []TypeOK
<1>1. IInv => TypeOK
  BY DEF IInv
<1> QED
  BY <1>1, Invariance, PTL

(* No more than Retry further requests leave, and the call is over within  *)
(* the timeouts and pauses they add up to.                                 *)
THEOREM Budget == Spec => []WithinBudget
<1>1. IInv => WithinBudget
  BY DEF IInv, BudgetInv
<1> QED
  BY <1>1, Invariance, PTL

(* A token that Create returns was stamped for this call.                  *)
THEOREM Stamped == Spec => []StampedForThisCall
<1>1. IInv => StampedForThisCall
  BY DEF IInv
<1> QED
  BY <1>1, Invariance, PTL

(* The token of an honest authority that answers in time is not refused.   *)
THEOREM Kept == Spec => []HonestStampKept
<1>1. IInv => HonestStampKept
  BY DEF IInv
<1> QED
  BY <1>1, Invariance, PTL

(* The certificate a SignerInfo identifies is the first one of the pool.   *)
LEMMA OneSigner ==
  ASSUME NEW pool \in Seq(Authority), NEW signer, NEW i \in DOMAIN pool, NEW j \in DOMAIN pool,
         FindSignerCert(pool, signer, i), FindSignerCert(pool, signer, j)
  PROVE  i = j
<1>1. i \in Nat /\ j \in Nat /\ i >= 1 /\ j >= 1
  OBVIOUS
<1>2. ~(i < j) /\ ~(j < i)
  BY <1>1 DEF FindSignerCert
<1> QED
  BY <1>1, <1>2

(* A token that Create returned passes Validator.Check exactly when its    *)
(* certificate may time-stamp at its genTime.                              *)
THEOREM StoredChecks == Spec => []StoredStampChecks
<1>1. IInv => StoredStampChecks
  <2> SUFFICES ASSUME IInv, result.outcome = "ok", NEW i \in DOMAIN call.pool,
                      FindSignerCert(call.pool, result.token[1].signer, i)
               PROVE  Check(call.pool, result.token[1], call.data)
                        <=> VerifyChain(call.pool[i], result.token[1].info.gen)
    BY DEF StoredStampChecks
  <2> DEFINE t == result.token[1]
  <2>1. Checked(t)
    BY DEF IInv, ResultInv
  <2>2. call.pool \in Seq(Authority)
    BY TsaClientAssumption DEF IInv
  <2> HIDE DEF t
  <2>3. (\E j \in DOMAIN call.pool :
           FindSignerCert(call.pool, t.signer, j) /\ VerifyChain(call.pool[j], t.info.gen))
          <=> VerifyChain(call.pool[i], t.info.gen)
    BY <2>2, OneSigner DEF t
  <2> QED
    BY <2>1, <2>3 DEF Check, Checked, t
<1> QED
  BY <1>1, Invariance, PTL

(* Nothing more is sent once the caller's context is done.                 *)
THEOREM Cancellation == Spec => CancelStops
<1>1. [Next]_vars => [cancelled => sent' = sent]_vars
  BY DEF Next, Work, Begin, Send, TimesOut, HandleAnswer, Wait, Parse, Validate, Stamp, Deliver,
     ConnectionBreaks, Cancel, Tick, vars, clientVars
<1> QED
  BY <1>1, PTL DEF Spec, CancelStops
=============================================================================
