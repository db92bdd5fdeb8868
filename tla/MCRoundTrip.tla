---------------------------- MODULE MCRoundTrip -----------------------------
(* Small instances of RoundTrip.                                           *)
EXTENDS RoundTrip

MCSize == [c \in {"x", "y", "big"} |-> CASE c = "x" -> 1 [] c = "y" -> 4 [] c = "big" -> 9]
MCTrusted == {<<"C", 1>>, <<"D", 1>>}
MCPolicyBound == {NoBound, 1}

T == [type |-> "t", padded |-> FALSE]
U == [type |-> "u", padded |-> FALSE]
Document(n, m, d) == [name |-> n, mime |-> m, data |-> d]
A == Document("a", T, "x")
B == Document("b", U, "y")

Order(docs, certs, profile, delay, ocsp) ==
  [docs |-> docs, signers |-> [i \in DOMAIN certs |-> [cert |-> certs[i]]],
   profile |-> profile, tsDelay |-> delay, time |-> 1, ocsp |-> ocsp,
   tsCerts |-> 2, provider |-> TRUE, digest |-> TRUE]
Policy(profile, delay) == [profile |-> profile, tsDelay |-> delay, maxAge |-> 1]

Good == Ocsp("good", "C", 3, 3)

-----------------------------------------------------------------------------
(* Containers changed in transit: once where stamps of two times and one   *)
(* more answer, too young for the first stamps, are to be had, and twice.  *)
(* The BES policy accepts whatever the TS policy does.                     *)
Younger == Ocsp("good", "C", 4, 4)
Changed(changes, gens, answers, o, p) ==
  [world |-> NoFetch(gens, answers), order |-> o, policy |-> Policy(p, 0), changes |-> changes]
TwoFiles   == Order(<<A, B>>, <<"C">>, "TS", 0, Good)
TwoSigners == Order(<<A>>, <<"C", "C">>, "TS", 0, Good)
Unstamped  == Order(<<A>>, <<"C">>, "BES", 0, NoOcsp)
Edited ==
  {Changed(1, {2, 3}, {Younger}, o, "TS") : o \in {TwoFiles, TwoSigners}}
  \cup {Changed(2, {3}, {}, TwoFiles, "BES"), Changed(2, {3}, {}, TwoSigners, "TS"),
         Changed(2, {2, 3}, {Younger}, Unstamped, "TS")}

-----------------------------------------------------------------------------
(* Containers nobody touches, over everything Create accepts.              *)
Docs ==
  {<<A>>, <<A, B>>, <<B, A>>, <<Document("#c", T, "x")>>,
   <<A, Document("b", [T EXCEPT !.padded = TRUE], "x")>>,
   <<Document("a", T, "big")>>}
Responses ==
  {Ocsp("good", "C", this, at) : this \in {1, 3, 4}, at \in {2, 3, 4}}
  \cup {Ocsp("revoked", "C", 3, 3), Ocsp("good", "D", 3, 3),
        [Good EXCEPT !.single = FALSE], [Good EXCEPT !.authentic = FALSE]}
UntouchedOrders ==
  {Order(d, c, p, 0, Good) : d \in Docs, p \in {"BES", "TS"},
                             c \in {<<"C">>, <<"C", "D">>, <<"E">>, <<"C", "C", "C">>}}
  \cup {Order(<<A>>, <<"C">>, "TS", t, o) : t \in {0, 1, 2}, o \in Responses}
UntouchedPolicies == {Policy(p, t) : p \in {"BES", "TS"}, t \in {0, 1, 2}}
Untouched ==
  {[world |-> NoFetch({2, 3}, {}), order |-> o, policy |-> p, changes |-> 0] :
     o \in UntouchedOrders, p \in UntouchedPolicies}

-----------------------------------------------------------------------------
(* Containers made with a fetched answer, or with one fetched at time 1 or *)
(* before and left on the disk by a fetch that failed; some of the latter  *)
(* are changed later, when the certificate may have been revoked.          *)
Signer == [subject |-> "s", issuer |-> "i", key |-> "kS", serial |-> 1, aia |-> TRUE]
Issuer == [subject |-> "i", issuer |-> "r", key |-> "kI", serial |-> 2, aia |-> FALSE]
MCCertificate == {Signer, Issuer}
Pem(certs) == [state |-> "pem", certs |-> certs]
World(tsa, responder, revoked, old) ==
  [fetch |-> TRUE, cert |-> Pem(<<Signer>>), issuer |-> Pem(<<Issuer>>), chain |-> Pem(<<>>),
   out |-> TRUE, url |-> TRUE, timeout |-> 1,
   subject |-> [n \in {1, 2} |-> IF n = 1 THEN "C" ELSE NoCert],
   tsaAhead |-> tsa, responderAhead |-> responder, revoked |-> revoked, old |-> old, last |-> 2]
Worlds ==
  {World(ahead[1], ahead[2], revoked, old) :
     ahead \in {<<0, 0>>, <<1, 0>>, <<0, 1>>, <<0, 2>>},
     revoked \in {0, 1, 9}, old \in {NoOcsp, Ocsp("good", "C", 0, 0)}}
Honest(w) == w.old = NoOcsp \/ StatusAt(w, 0) = "good"
Fetched ==
  {[world |-> w, order |-> Order(<<A>>, <<"C">>, "TS", x[1], NoOcsp),
    policy |-> [Policy("TS", x[1]) EXCEPT !.maxAge = x[2]], changes |-> 0] :
     w \in {y \in Worlds : Honest(y)}, x \in {<<0, 1>>, <<2, 0>>}}
ChangedLater ==
  {[j EXCEPT !.world.out = FALSE, !.changes = 1] :
     j \in {i \in Fetched : i.world.tsaAhead = 0 /\ i.world.responderAhead \in {0, 1} /\
              i.world.revoked = 1 /\ i.world.old # NoOcsp /\ i.policy.maxAge = 0}}

MCJourneys == Edited \cup Untouched \cup Fetched \cup ChangedLater
=============================================================================
