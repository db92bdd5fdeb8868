---------------------------- MODULE MCOcspCheck -----------------------------
(* Two issuers of one name, two responders of one name and an outsider.    *)
EXTENDS OcspCheck

(* I issued R; J has the name of I and issued S, which has the name of R;  *)
(* X is nobody's.                                                          *)
MCCert == {"I", "J", "R", "S", "X"}

MCSubject == [c \in MCCert |->
               CASE c \in {"I", "J"} -> "i" [] c \in {"R", "S"} -> "r" [] OTHER -> "x"]
MCIssuer  == [c \in MCCert |-> "i"]
MCKey     == [c \in MCCert |-> "k" \o c]
Signs     == {<<"R", "I">>, <<"S", "J">>}
From(r, i) == [c \in MCCert |-> CASE c = "R" -> r [] c = "I" -> i [] OTHER -> 1]
Until(r, i) == [c \in MCCert |-> CASE c = "R" -> r [] c = "I" -> i [] OTHER -> 2]

UpTo2(S) == {<<>>} \cup {<<a>> : a \in S} \cup {<<a, b>> : a \in S, b \in S}

GoodId == [hash |-> TRUE, name |-> "i", key |-> "kI", serial |-> 1]

(* Any way to find a responder: configured and embedded certificates in    *)
(* any order, no issuer, one or two, any of their keys.                    *)
Searches ==
  [subject : {MCSubject}, issuer : {MCIssuer}, key : {MCKey}, signed : {Signs},
   ocspSigning : {MCCert}, anyUse : {{}}, notBefore : {From(1, 1)}, notAfter : {Until(2, 2)},
   configured : UpTo2({"R", "S", "X", "I"}), intermediates : {<<>>, <<"I">>, <<"X">>},
   roots : {<<>>, <<"J", "I">>}, signer : {[issuer |-> "i", aki |-> "kI", serial |-> 1]},
   at : {1}, maxAge : {1},
   response : [decodes : {TRUE}, singles : {1}, good : {TRUE}, id : {GoodId},
               responder : {"r", "i"}, embedded : UpTo2({"R", "S", "I", "bad"}),
               algorithm : {TRUE}, by : {"kR", "kS", "kI"}, thisUpdate : {1}, producedAt : {1}]]

(* Any CertID, ... *)
Ids ==
  [subject : {MCSubject}, issuer : {MCIssuer}, key : {MCKey}, signed : {Signs},
   ocspSigning : {MCCert}, anyUse : {{}}, notBefore : {From(1, 1)}, notAfter : {Until(2, 2)},
   configured : {<<"R">>}, intermediates : {<<>>, <<"I">>, <<"J", "I">>}, roots : {<<>>},
   signer : [issuer : {"i"}, aki : {"none", "ski", "kI"}, serial : {1}], at : {1}, maxAge : {1},
   response : [decodes : {TRUE}, singles : {1}, good : {TRUE},
               id : [hash : BOOLEAN, name : {"i", "r"}, key : {"kI", "kJ", "ski"}, serial : {1, 2}],
               responder : {"r"}, embedded : {<<>>}, algorithm : {TRUE}, by : {"kR"},
               thisUpdate : {1}, producedAt : {1}]]

(* ... any window, issuing and use of the embedded responder, ... *)
Windows ==
  [subject : {MCSubject}, issuer : {MCIssuer, [MCIssuer EXCEPT !["R"] = "r"]}, key : {MCKey},
   signed : {{}, {<<"R", "I">>}}, ocspSigning : SUBSET {"R", "I"},
   anyUse : SUBSET {"R", "I"},
   notBefore : {From(1, 1), From(2, 1), From(1, 2)},
   notAfter : {Until(2, 2), Until(3, 2), Until(2, 3)},
   configured : {<<>>}, intermediates : {<<"I">>}, roots : {<<>>},
   signer : {[issuer |-> "i", aki |-> "kI", serial |-> 1]}, at : 0..4, maxAge : {1},
   response : [decodes : {TRUE}, singles : {1}, good : {TRUE}, id : {GoodId},
               responder : {"r"}, embedded : {<<"R">>}, algorithm : {TRUE}, by : {"kR"},
               thisUpdate : {1}, producedAt : {1}]]

(* ... and any form and time of the response.                              *)
Forms ==
  [subject : {MCSubject}, issuer : {MCIssuer}, key : {MCKey}, signed : {Signs},
   ocspSigning : {MCCert}, anyUse : {{}}, notBefore : {From(1, 1)}, notAfter : {Until(2, 2)},
   configured : {<<>>, <<"R">>}, intermediates : {<<"I">>}, roots : {<<>>},
   signer : {[issuer |-> "i", aki |-> "kI", serial |-> 1]}, at : {1}, maxAge : {1},
   response : [decodes : BOOLEAN, singles : 0..2, good : BOOLEAN, id : {GoodId},
               responder : {"r"}, embedded : {<<"R">>}, algorithm : BOOLEAN, by : {"kR"},
               thisUpdate : 1..3, producedAt : 1..4]]

MCQuery == Searches \cup Ids \cup Windows \cup Forms
=============================================================================
