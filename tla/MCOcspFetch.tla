---------------------------- MODULE MCOcspFetch -----------------------------
(* Every state of the three files, a chain with two certificates of the    *)
(* issuer's name, timeouts of two seconds and of none, and every class of  *)
(* answer to either shape.                                                 *)
EXTENDS OcspFetch

Cert(subject, issuer, key, serial, aia) ==
  [subject |-> subject, issuer |-> issuer, key |-> key, serial |-> serial, aia |-> aia]
S == Cert("s", "i", "kS", 1, TRUE)
N == Cert("s", "i", "kS", 2, FALSE)   \* no AIA entry
I == Cert("i", "r", "kI", 3, FALSE)
J == Cert("i", "r", "kJ", 4, FALSE)   \* the issuer's name, another key
X == Cert("x", "r", "kX", 5, FALSE)

MCCertificate == {S, N, I, J, X}

None       == [state |-> "none", certs |-> <<>>]
File(certs) == [state |-> "pem", certs |-> certs]
Broken     == {[state |-> s, certs |-> <<>>] : s \in {"unreadable", "empty", "bad"}}
None1      == {None} \cup Broken

MCInput ==
  [cert : None1 \cup {File(<<>>), File(<<S>>), File(<<N>>), File(<<S, I>>)},
   issuer : None1 \cup {File(<<>>), File(<<J>>), File(<<X>>), File(<<I, J>>)},
   chain : None1 \cup {File(<<X, I, J>>), File(<<J, I>>), File(<<X>>)},
   out : BOOLEAN, url : BOOLEAN, timeout : {-1, 0, 2}]

Body(parses, status, type, says) ==
  [parses |-> parses, status |-> status, type |-> type, says |-> says]
Says(id, status) == [id |-> id, status |-> status]
Reply(http, body) == [kind |-> "reply", http |-> http, body |-> body]

Bodies(id) ==
  {Body(FALSE, 0, "basic", Says(id, "good")), Body(TRUE, 1, "none", Says(id, "good")),
   Body(TRUE, 6, "basic", Says(id, "good")), Body(TRUE, 0, "none", Says(id, "good")),
   Body(TRUE, 0, "other", Says(id, "good")),
   Body(TRUE, 0, "basic", Says([id EXCEPT !.serial = 9], "good"))}
  \cup {Body(TRUE, 0, "basic", Says(id, s)) : s \in {"good", "revoked", "unknown"}}

MCAnswers(in, id, t) ==
  {[kind |-> k, http |-> h, body |-> <<>>] : k \in {"bodyError", "oversize"}, h \in {200, 400}}
  \cup {Reply(h, Body(TRUE, 0, "basic", Says(id, "good"))) : h \in {400, 500}}
  \cup {Reply(200, b) : b \in Bodies(id)}
=============================================================================
