---------------------------- MODULE MCCertChain -----------------------------
(* Three certificates of two names, in every relation to each other, with  *)
(* a chain limit they can exceed; and a signing time at, before or after   *)
(* the ends of a window.                                                   *)
EXTENDS CertChain

Base ==
  [subject |-> [c \in Cert |-> "s"], issuer |-> [c \in Cert |-> "s"], signed |-> {},
   notBefore |-> [c \in Cert |-> 1], notAfter |-> [c \in Cert |-> 2],
   commitment |-> Cert, sha1 |-> {}, roots |-> <<"R">>, intermediates |-> <<>>,
   leaf |-> "L", at |-> 1]

Pools ==
  {<<<<"R">>, <<"I">>>>, <<<<"R">>, <<>>>>, <<<<"R", "I">>, <<>>>>,
   <<<<"L">>, <<"I">>>>, <<<<"R">>, <<"I", "R">>>>}

(* Any two certificates may name and sign each other.                      *)
AnyIssuer ==
  {[Base EXCEPT !.subject = [c \in Cert |-> IF c = "L" THEN "s" ELSE s[c]],
                !.issuer = [c \in Cert |-> IF c = "R" THEN s["R"] ELSE i[c]],
                !.signed = e, !.roots = p[1], !.intermediates = p[2]] :
     s \in [{"I", "R"} -> Subject], i \in [{"L", "I"} -> Subject],
     e \in SUBSET ({"L", "I"} \X {"L", "I", "R"}), p \in Pools}

Line == {<<"L", "I">>, <<"I", "R">>}
AnyWindow ==
  {[Base EXCEPT !.signed = Line, !.intermediates = <<"I">>,
                !.notBefore = from, !.notAfter = to, !.at = at] :
     from \in [Cert -> {1, 2}], to \in [Cert -> {2, 3}], at \in 0..4}
AnyLeaf ==
  {[Base EXCEPT !.signed = Line, !.intermediates = <<"I">>, !.commitment = k, !.sha1 = h] :
     k \in SUBSET Cert, h \in SUBSET Cert}

MCPki == AnyIssuer \cup AnyWindow \cup AnyLeaf
=============================================================================
