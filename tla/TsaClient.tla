------------------------------ MODULE TsaClient -----------------------------
(***************************************************************************)
(* tsa.Client.Create: one time-stamp request, sent again after a transport *)
(* error or a 5xx answer, and the checks of the token that comes back.     *)
(*                                                                         *)
(* The time-stamping authority, the network and the caller's context are   *)
(* the environment.  The authority stamps a request at any time after it   *)
(* was sent, by its own clock and not always as asked; the network loses   *)
(* and delays answers and delivers any token that can be put together      *)
(* without the authority's key.  Computing takes no time: the clock moves  *)
(* only while the client waits.                                            *)
(***************************************************************************)
EXTENDS TimeStampToken

CONSTANTS
  Call,        (* the configurations and arguments considered              *)
  RandomNonce, (* the nonces drawn: none was in a request before           *)
  Timeout,     (* the HTTP client's bound on one exchange                  *)
  RetryWait,   (* the pause before a further attempt                       *)
  MaxAge,      (* how old a fresh token may be                             *)
  MaxSkew,     (* how far its time may be ahead                            *)
  Authority,   (* the authority's certificates                             *)
  OldStamp,    (* what it stamped before the call                          *)
  Stamping(_, _, _), (* what it may make of a call's request with a nonce, *)
               (* at a time: [info, cert]                                  *)
  Made(_),     (* tokens put together from a stamped one                   *)
  Bodies(_)    (* bodies of answers made with a token                      *)

ASSUME TsaClientAssumption ==
  /\ Timeout \in Nat /\ RetryWait \in Nat /\ MaxAge \in Nat /\ MaxSkew \in Nat
  /\ \A c \in Call : c.retry \in Nat /\ c.pool \in Seq(Authority)
  /\ \A s \in OldStamp : s.at \in Int /\ s.at < 0 /\ s.info.nonce \notin RandomNonce
  /\ NoNonce \notin RandomNonce

VARIABLES
  call,      (* [data, nonce, url, modules, pool, policy, retry]           *)
  pc,        (* the step to run next                                       *)
  nonce,     (* the nonce of the request, in every attempt the same        *)
  attempt,   (* attempts made before this one                              *)
  clock,     (* seconds since the call began                               *)
  deadline,  (* when the exchange or the pause under way ends              *)
  cancelled, (* the caller's context is done                               *)
  sent,      (* requests that left                                         *)
  issued,    (* what the authority has stamped: [info, cert, at]           *)
  stamped,   (* requests it has handled                                    *)
  answer,    (* the last HTTP answer                                       *)
  result     (* [outcome, token]                                           *)

clientVars == <<call, pc, nonce, attempt, deadline, sent, result>>
vars == <<clientVars, clock, cancelled, issued, stamped, answer>>

NoBody   == Body(OtherElement, <<>>, <<>>)
NoAnswer == [kind |-> "none", body |-> NoBody]

Init ==
  /\ call \in Call /\ pc = "begin" /\ nonce = NoNonce /\ attempt = 0
  /\ clock = 0 /\ deadline = 0 /\ cancelled = FALSE
  /\ sent = 0 /\ issued = OldStamp /\ stamped = 0 /\ answer = NoAnswer
  /\ result = [outcome |-> "none", token |-> <<>>]

Return(outcome, token) ==
  pc' = "done" /\ result' = [outcome |-> outcome, token |-> token]
Fail == Return("error", <<>>)

-----------------------------------------------------------------------------
CallOK == call.url /\ call.pool # <<>> /\ call.modules /\ call.data # 0

(* A nonce is drawn when the caller gives none; the source may fail.       *)
Begin ==
  /\ pc = "begin"
  /\ \/ /\ CallOK /\ pc' = "send" /\ UNCHANGED result
        /\ nonce' \in (IF call.nonce = NoNonce THEN RandomNonce ELSE {call.nonce})
     \/ (CallOK => call.nonce = NoNonce) /\ Fail /\ UNCHANGED nonce
  /\ UNCHANGED <<call, attempt, clock, deadline, cancelled, sent, issued, stamped, answer>>

(* Mutant: one attempt too many.                                           *)
RetryOnceMore ==
  IF attempt <= call.retry
    THEN pc' = "wait" /\ deadline' = clock + RetryWait /\ UNCHANGED result
    ELSE Fail /\ UNCHANGED deadline

(* After a retryable error of do: pause, unless the attempts are used up.  *)
RetryOrFail ==
  IF attempt < call.retry
    THEN pc' = "wait" /\ deadline' = clock + RetryWait /\ UNCHANGED result
    ELSE Fail /\ UNCHANGED deadline

(* Mutant: the request is built without the caller's context.              *)
SendWithoutContext ==
  /\ pc = "send"
  /\ \/ /\ sent' = sent + 1 /\ deadline' = clock + Timeout
        /\ pc' = "exchange" /\ UNCHANGED result
     \/ RetryOrFail /\ UNCHANGED sent
     \/ attempt = 0 /\ Fail /\ UNCHANGED <<sent, deadline>>
  /\ answer' = NoAnswer
  /\ UNCHANGED <<call, nonce, attempt, clock, cancelled, issued, stamped>>

(* The transport sends nothing once the context is done; it may fail to    *)
(* connect in any case.  A URL no request can be built for is no matter of *)
(* the transport, and is not tried again.                                  *)
Send ==
  /\ pc = "send"
  /\ \/ /\ ~cancelled /\ sent' = sent + 1 /\ deadline' = clock + Timeout
        /\ pc' = "exchange" /\ UNCHANGED result
     \/ RetryOrFail /\ UNCHANGED sent
     \/ attempt = 0 /\ Fail /\ UNCHANGED <<sent, deadline>>
  /\ answer' = NoAnswer
  /\ UNCHANGED <<call, nonce, attempt, clock, cancelled, issued, stamped>>

(* Mutant: an HTTP client without a timeout.                               *)
StopsOnCancelOnly ==
  /\ pc = "exchange" /\ cancelled
  /\ RetryOrFail
  /\ UNCHANGED <<call, nonce, attempt, clock, cancelled, sent, issued, stamped, answer>>

(* The timeout and a context that is done both end the exchange.           *)
TimesOut ==
  /\ pc = "exchange" /\ (clock = deadline \/ cancelled)
  /\ RetryOrFail
  /\ UNCHANGED <<call, nonce, attempt, clock, cancelled, sent, issued, stamped, answer>>

(* do: what the answer's status, content type, length and body come to.    *)
Retryable == {"serverError", "bodyError"}
Refused   == {"otherStatus", "contentType", "oversize"}
HandleAnswer ==
  /\ pc = "answer"
  /\ \/ answer.kind = "reply" /\ pc' = "parse" /\ UNCHANGED <<deadline, result>>
     \/ answer.kind \in Retryable /\ RetryOrFail
     \/ answer.kind \in Refused /\ Fail /\ UNCHANGED deadline
  /\ UNCHANGED <<call, nonce, attempt, clock, cancelled, sent, issued, stamped, answer>>

(* When the pause is over and the context done in the same instant, either *)
(* case of the select may be taken.                                        *)
Wait ==
  /\ pc = "wait"
  /\ \/ cancelled /\ Fail /\ UNCHANGED attempt
     \/ clock = deadline /\ pc' = "send" /\ attempt' = attempt + 1 /\ UNCHANGED result
  /\ UNCHANGED <<call, nonce, clock, deadline, cancelled, sent, issued, stamped, answer>>

Reply == ParseTimeStampResp(answer.body)

Parse ==
  /\ pc = "parse"
  /\ \/ /\ Reply.outcome = "ok" /\ Reply.status = 0 /\ Reply.token # <<>>
        /\ pc' = "validate" /\ UNCHANGED result
     \/ /\ Reply.outcome = "ok" => Reply.status # 0 \/ Reply.token = <<>>
        /\ Reply.outcome # "panic" /\ Fail
     \/ Reply.outcome = "panic" /\ Return("panic", <<>>)
  /\ UNCHANGED <<call, nonce, attempt, clock, deadline, cancelled, sent, issued, stamped, answer>>

PolicyOK(t) == call.policy # AnyPolicy => t.info.policy = call.policy

Validate ==
  /\ pc = "validate"
  /\ LET t == Reply.token[1]
         good == CheckTokenBody(call.pool, t, call.data, nonce, clock, MaxAge, MaxSkew)
     IN  \/ good /\ PolicyOK(t) /\ Return("ok", <<t>>)
         \/ ~(good /\ PolicyOK(t)) /\ Fail
  /\ UNCHANGED <<call, nonce, attempt, clock, deadline, cancelled, sent, issued, stamped, answer>>

-----------------------------------------------------------------------------
(* The environment.                                                        *)
Stamp ==
  /\ pc \in {"exchange", "wait"} /\ stamped < sent
  /\ stamped' = stamped + 1
  /\ \E s \in Stamping(call, nonce, clock) :
       issued' = issued \cup {[info |-> s.info, cert |-> s.cert, at |-> clock]}
  /\ UNCHANGED <<clientVars, clock, cancelled, answer>>

(* A signature by one of the authority's keys is one the authority made.   *)
CanBeMade(t) ==
  \/ \A c \in Authority : t.sig.key # c.key
  \/ \E s \in issued : t.sig = TSToken(s.info, s.cert).sig

(* What a body holds as a token is one that can be made.                   *)
Genuine(b) ==
  LET r == ParseTimeStampResp(b)
  IN  r.outcome = "ok" /\ r.token # <<>> => CanBeMade(r.token[1])

Deliver ==
  /\ pc = "exchange" /\ pc' = "answer"
  /\ \/ \E kind \in Retryable \cup Refused : answer' = [kind |-> kind, body |-> NoBody]
     \/ \E t \in UNION {Made(TSToken(s.info, s.cert)) : s \in issued} :
          \E b \in Bodies(t) : Genuine(b) /\ answer' = [kind |-> "reply", body |-> b]
  /\ UNCHANGED <<call, nonce, attempt, deadline, sent, result, clock, cancelled, issued, stamped>>

ConnectionBreaks ==
  /\ pc = "exchange" /\ RetryOrFail
  /\ UNCHANGED <<call, nonce, attempt, clock, cancelled, sent, issued, stamped, answer>>

Cancel ==
  /\ pc # "done" /\ ~cancelled /\ cancelled' = TRUE
  /\ UNCHANGED <<clientVars, clock, issued, stamped, answer>>

(* Nobody waits beyond a deadline, nor once the context is done.           *)
Tick ==
  /\ pc \in {"exchange", "wait"} /\ clock < deadline /\ ~cancelled
  /\ clock' = clock + 1
  /\ UNCHANGED <<clientVars, cancelled, issued, stamped, answer>>

Work == Begin \/ Send \/ TimesOut \/ HandleAnswer \/ Wait \/ Parse \/ Validate \/ Tick
Next == Work \/ Stamp \/ Deliver \/ ConnectionBreaks \/ Cancel

(* Time passes and the client runs; neither the authority nor the network  *)
(* is obliged to answer.                                                   *)
Spec == Init /\ [][Next]_vars /\ WF_vars(Work)

-----------------------------------------------------------------------------
(* Types: what each variable may hold at each step.                        *)
Steps == {"begin", "send", "exchange", "answer", "wait", "parse", "validate", "done"}
TypeOK ==
  /\ pc \in Steps /\ attempt \in 0..call.retry /\ cancelled \in BOOLEAN
  /\ clock \in Nat /\ deadline \in Nat /\ sent \in Nat /\ stamped \in 0..sent
  /\ pc = "done" <=> result.outcome # "none"
  /\ result.outcome \in {"none", "ok", "error", "panic"}
  /\ result.outcome = "ok" <=> result.token # <<>>
  /\ pc \in {"exchange", "wait"} => clock <= deadline

(* A token that Create returns says what the authority stamped, under a    *)
(* certificate of the pool, for this request: its data, its nonce, and the *)
(* policy required.  When the nonce was drawn the stamp was made during    *)
(* this call, whatever older tokens for the same data there are.           *)
StampedForThisCall ==
  result.outcome = "ok" =>
    LET info == result.token[1].info
    IN  \E s \in issued :
          /\ s.info = info /\ \E i \in DOMAIN call.pool : call.pool[i] = s.cert
          /\ info.version = 1 /\ info.imprint = call.data /\ info.nonce = nonce
          /\ call.policy # AnyPolicy => info.policy = call.policy
          /\ call.nonce = NoNonce => s.at >= 0

(* No stamp is thrown away: an authority whose clock is as good as the     *)
(* bounds ask for, and whose answer arrives unchanged in any of the three  *)
(* shapes before the timeout, has its token accepted, provided that the    *)
(* pool tells its certificate from the others.                             *)
GrantedBodies(t) ==
  {Body(StatusInfo(0), <<>>, <<ContentInfo(t)>>),
   Body(OuterSequence, <<StatusInfo(0), ContentInfo(t)>>, <<>>),
   Body(OuterSequence, <<Explicit0(StatusInfo(0)), Implicit16(t)>>, <<>>),
   Body(OuterSequence, <<Explicit0(StatusInfo(0)), ContentInfo(t)>>, <<>>)}
GoodStamp(s) ==
  LET ahead == s.info.gen - s.at
  IN  /\ s.at >= deadline - Timeout /\ {s.info.gen, s.info.acc} \subseteq Int
      /\ ahead + s.info.acc <= MaxSkew /\ Timeout + s.info.acc - ahead <= MaxAge
      /\ s.info.version = 1 /\ s.info.imprint = call.data /\ s.info.nonce = nonce
      /\ call.policy # AnyPolicy => s.info.policy = call.policy
      /\ \E i \in DOMAIN call.pool :
           call.pool[i] = s.cert /\ \A j \in 1..(i - 1) : call.pool[j].ski # s.cert.ski
HonestStampKept ==
  pc = "done" /\ answer.kind = "reply" =>
    \A s \in issued :
      GoodStamp(s) /\ answer.body \in GrantedBodies(TSToken(s.info, s.cert))
        => result.outcome = "ok"

(* The two lists of checks agree: a token that Create returned passes      *)
(* Validator.Check when the container is verified, at whatever time, if    *)
(* and only if its certificate may time-stamp at its genTime.              *)
StoredStampChecks ==
  result.outcome = "ok" =>
    LET t == result.token[1]
    IN  \A i \in DOMAIN call.pool :
          FindSignerCert(call.pool, t.signer, i) =>
            (Check(call.pool, t, call.data) <=> VerifyChain(call.pool[i], t.info.gen))

(* The configuration bounds the call: no more than Retry further requests  *)
(* leave, and it is over within the timeouts and pauses they add up to.    *)
WithinBudget ==
  /\ sent <= call.retry + 1
  /\ clock <= call.retry * (Timeout + RetryWait) + Timeout

(* Nothing more is sent once the caller's context is done.                 *)
CancelStops == [][cancelled => sent' = sent]_vars

(* Create returns, whatever the authority and the network do.              *)
Returns == <>(pc = "done")

(* "Unrecognizable shapes fail with an unmarshal error" (tsa/types.go).    *)
ShapesFailWithError == result.outcome # "panic"
=============================================================================
