---------------------------- MODULE MCTsaClient -----------------------------
(* An authority with two certificates and an outsider; stamps with every   *)
(* clock error around the bounds and with each field wrong; tokens changed *)
(* in one field and signed again as far as that is possible.               *)
EXTENDS TsaClient

CONSTANTS N0, N1, N2  \* nonces: of an old request, drawn, of nobody

A == Certificate(1, "kA", -9, 9, TRUE)
B == Certificate(2, "kB", -9, 0, TRUE)   \* expires as the call begins
C == Certificate(1, "kA", -9, 9, FALSE)  \* as A, but not for time-stamping
X == Certificate(1, "kX", -9, 9, TRUE)   \* the outsider's, passing for A

MCAuthority == {A, B, C}

MCRandomNonce == {N1}

Base == [data |-> 1, nonce |-> NoNonce, url |-> TRUE, modules |-> TRUE,
         pool |-> <<A>>, policy |-> AnyPolicy, retry |-> 0]
MCCall ==
  {Base,
   [Base EXCEPT !.retry = 1], [Base EXCEPT !.pool = <<B, A>>],
   [Base EXCEPT !.pool = <<C, A>>], [Base EXCEPT !.policy = "p"],
   [Base EXCEPT !.nonce = N0],
   [Base EXCEPT !.data = 0], [Base EXCEPT !.url = FALSE],
   [Base EXCEPT !.pool = <<>>], [Base EXCEPT !.modules = FALSE]}

MCOldStamp ==
  {[info |-> TSTInfo(1, N0, -1, 0, "p"), cert |-> A, at |-> -1]}

(* One field of a TSTInfo changed.                                         *)
OtherInfo(info) ==
  UNION {{[info EXCEPT !.version = 2]},
         {[info EXCEPT !.imprint = d] : d \in {1, 2}},
         {[info EXCEPT !.nonce = n] : n \in {NoNonce, N1, N2}},
         {[info EXCEPT !.gen = info.gen + 1], [info EXCEPT !.acc = 0]},
         {[info EXCEPT !.policy = "q"]}}

Exact(d, n, at) == TSTInfo(d, n, at, 0, "p")
MCStamping(c, n, at) ==
  LET asked == Exact(c.data, n, at)
  IN  {[info |-> asked, cert |-> A]} \cup
      (IF c.retry > 0 THEN {[info |-> [asked EXCEPT !.gen = at - 1], cert |-> A]}
       ELSE {[info |-> [asked EXCEPT !.gen = at + ahead, !.acc = acc], cert |-> A] :
               ahead \in {-2, -1, 0, 2}, acc \in {0, 1}}
            \cup {[info |-> i, cert |-> A] : i \in OtherInfo(asked)}
            \cup {[info |-> asked, cert |-> x] : x \in {B, C}})

(* What can be made of one stamped token.                                  *)
Resigned(t, i) ==
  LET attrs == [t.attrs EXCEPT !.digest = i, !.time = i.gen]
  IN  {[t EXCEPT !.info = i], [t EXCEPT !.info = i, !.attrs = attrs],
       [t EXCEPT !.info = i, !.attrs = attrs,
                 !.sig = [key |-> X.key, over |-> AttributeSet(attrs)]]}
Variants(t) ==
  UNION {{t, TSToken(t.info, X), [TSToken(t.info, X) EXCEPT !.certs = {A, X}],
          [t EXCEPT !.cms = FALSE], [t EXCEPT !.certs = {}], [t EXCEPT !.signer = 2],
          [t EXCEPT !.attrs.types = Tail(@)], [t EXCEPT !.attrs.types = @ \o <<"unknown">>],
          [t EXCEPT !.attrs.types = @ \o <<"signingTime">>]},
         UNION {Resigned(t, i) : i \in OtherInfo(t.info)}}

(* All that can be made of an ordinary token, and of others themselves.    *)
Ordinary(t) ==
  t = TSToken(t.info, A) /\ t.info.acc = 0 /\ t.info.version = 1 /\ t.info.policy = "p"
MCMade(t) == IF Ordinary(t) THEN Variants(t) ELSE {t}

(* Every shape around a token as it was stamped, one around the others.    *)
Shapes(t) ==
  GrantedBodies(t) \cup
  {Body(StatusInfo(2), <<>>, <<>>), Body(StatusInfo(0), <<>>, <<>>),
   Body(StatusInfo(1), <<>>, <<ContentInfo(t)>>),
   Body(StatusInfo(0), <<>>, <<ContentInfo(t), OtherElement>>),
   Body(StatusInfo(0), <<>>, <<OtherElement>>),
   Body(OuterSequence, <<Explicit0(StatusInfo(2))>>, <<>>),
   Body(OuterSequence, <<Explicit0(OtherElement), Implicit16(t)>>, <<>>),
   Body(OuterSequence, <<Explicit0(StatusInfo(0)), OtherElement>>, <<>>),
   Body(OuterSequence, <<StatusInfo(2)>>, <<>>),
   Body(OuterSequence, <<ContentInfo(t), StatusInfo(0)>>, <<>>),
   Body(OuterSequence, <<StatusInfo(0), ContentInfo(t), StatusInfo(0)>>, <<>>),
   Body(OuterSequence, <<OtherElement>>, <<>>), Body(OuterSequence, <<>>, <<>>),
   Body(ContentInfo(t), <<OtherElement, OtherElement>>, <<>>),
   Body(ContentInfo(t), <<OtherElement, OtherElement>>, <<StatusInfo(0)>>), NoBody}

MCBodies(t) ==
  IF Ordinary(t) /\ t.info.nonce = N1
    THEN Shapes(t) ELSE {Body(StatusInfo(0), <<>>, <<ContentInfo(t)>>)}
=============================================================================
