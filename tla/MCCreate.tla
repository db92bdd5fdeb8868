------------------------------ MODULE MCCreate ------------------------------
(* A small instance of CreateCommand: every kind of option that Create     *)
(* refuses, orders of up to three signers and two documents that it        *)
(* serves, and command lines with every kind of file.                      *)
EXTENDS CreateCommand

MCSize == [c \in {"x", "big"} |-> IF c = "x" THEN 1 ELSE 9]

MCPolicyBound == {NoBound, 0, 1}

T   == [type |-> "t", padded |-> FALSE]
Document(n, m, d) == [name |-> n, mime |-> m, data |-> d]
A == Document("a", T, "x")
B == Document("b", T, "x")

Signed(certs) == [i \in DOMAIN certs |-> [cert |-> certs[i]]]

Good ==
  [docs |-> <<A, B>>, signers |-> Signed(<<"C", "D">>), profile |-> "TS", tsDelay |-> 0,
   time |-> 1, ocsp |-> Ocsp("good", "C", 3, 3), tsCerts |-> 2, provider |-> TRUE,
   digest |-> TRUE]

Documents ==
  {<<>>, <<A>>, <<A, A>>, <<Document("mimetype", T, "x")>>,
   <<A, Document("b", NoMediaType, "x")>>, <<Document("a", T, "big")>>}

LibraryOrder ==
  {[Good EXCEPT !.docs = d, !.profile = p] : d \in Documents \cup {<<A, B>>}, p \in {"BES", "TS"}}
  \cup {[Good EXCEPT !.signers = Signed(s), !.profile = p, !.tsDelay = t] :
          s \in {<<>>, <<"C">>, <<"C", NoCert>>, <<NoCert, "C">>, <<"C", "D", "C">>},
          p \in {"BES", "TS", "other"}, t \in {0, 1}}
  \cup {[Good EXCEPT !.ocsp = o, !.tsDelay = t] :
          o \in {NoOcsp, [NoOcsp EXCEPT !.empty = FALSE]}
                  \cup {Ocsp("good", "C", 3, at) : at \in 1..5},
          t \in {-1, 0, 1, 2}}
  \cup {[Good EXCEPT !.time = NoTime], [Good EXCEPT !.tsCerts = 1],
        [Good EXCEPT !.provider = FALSE], [Good EXCEPT !.digest = FALSE],
        [Good EXCEPT !.digest = FALSE, !.profile = "BES"]}

-----------------------------------------------------------------------------
Certificate(c, k) == [type |-> "certificate", parses |-> TRUE, cert |-> c, key |-> k]
BadCertificate    == NoBlock
PrivateKey(k)     == [type |-> "key", parses |-> TRUE, cert |-> NoCert, key |-> k]
BadKey            == [type |-> "key", parses |-> FALSE, cert |-> NoCert, key |-> NoKey]
Parameters        == [type |-> "other", parses |-> FALSE, cert |-> NoCert, key |-> NoKey]

Pem(blocks) == [state |-> "read", blocks |-> blocks, der |-> NoKey]
Der(k)      == [state |-> "read", blocks |-> <<>>, der |-> k]
NotGiven    == [state |-> "none", blocks |-> <<>>, der |-> NoKey]
Unreadable  == [state |-> "unreadable", blocks |-> <<>>, der |-> NoKey]

(* Two certificates of one key, as after a renewal, one of another, and    *)
(* one of a key that the signer module does not take.                      *)
SignerBlocks ==
  {Certificate("C", "k"), Certificate("D", "k"), Certificate("C", "l"), Certificate("C", "e"),
   BadCertificate, PrivateKey("k"), PrivateKey("e"), BadKey, Parameters}
SignerFiles ==
  {Pem(<<>>)} \cup {Pem(<<b>>) : b \in SignerBlocks}
    \cup {Pem(<<b, c>>) : b, c \in SignerBlocks}
    \cup {Pem(<<b, c, d>>) : b, c, d \in SignerBlocks}
KeyFiles ==
  {Unreadable, Pem(<<>>), Der("k"), Der("e"), Pem(<<PrivateKey("k")>>), Pem(<<PrivateKey("l")>>),
   Pem(<<BadKey, PrivateKey("k")>>), Pem(<<PrivateKey("k"), BadKey>>), Pem(<<Parameters>>)}
CertFiles == {NotGiven, Unreadable, Pem(<<>>), Pem(<<PrivateKey("k")>>)}
               \cup {Pem([i \in 1..n |-> Certificate("C", "k")]) : n \in 1..3}

Path(d) == [readable |-> TRUE, doc |-> d]
Line ==
  [output |-> TRUE, cert |-> Pem(<<PrivateKey("k"), Certificate("C", "k")>>), key |-> NotGiven,
   docs |-> <<Path(A)>>, profile |-> "TS",
   ocsp |-> [state |-> "read", body |-> Ocsp("good", "C", 3, 3)], tst |-> TRUE,
   tstSigners |-> Pem(<<Certificate("D", "l")>>),
   chain |-> Pem([i \in 1..2 |-> Certificate("D", "l")]), tsDelay |-> 0, time |-> 1,
   timeParses |-> TRUE]

MCCommandLine ==
  {[Line EXCEPT !.cert = f, !.profile = "BES"] : f \in SignerFiles \cup {NotGiven, Unreadable}}
  \cup {[Line EXCEPT !.cert = f, !.key = k] :
          f \in {Pem(<<b>>) : b \in SignerBlocks}
                  \cup {Pem(<<Certificate("C", "k"), b>>) : b \in SignerBlocks},
          k \in KeyFiles}
  \cup {[Line EXCEPT !.docs = d, !.profile = p] :
          p \in {"BES", "TS"},
          d \in {<<>>, <<Path(A), Path(B)>>, <<Path(A), Path(A)>>,
                 <<Path(A), [Path(B) EXCEPT !.readable = FALSE]>>}}
  \cup {[Line EXCEPT !.chain = f, !.profile = p] : f \in CertFiles, p \in {"BES", "TS"}}
  \cup {[Line EXCEPT !.tstSigners = f] : f \in CertFiles}
  \cup {[Line EXCEPT !.ocsp = [state |-> s, body |-> NoOcsp], !.profile = p] :
          s \in FileState, p \in {"BES", "TS", "other"}}
  \cup {[Line EXCEPT !.output = FALSE], [Line EXCEPT !.tst = FALSE],
        [Line EXCEPT !.time = NoTime], [Line EXCEPT !.timeParses = FALSE],
        [Line EXCEPT !.tsDelay = 1]}

MCOrder == LibraryOrder \cup {OptionsOf(a) : a \in MCCommandLine}
=============================================================================
