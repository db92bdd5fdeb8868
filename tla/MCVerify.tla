------------------------------ MODULE MCVerify ------------------------------
(* Small instances of Verify.                                              *)
EXTENDS Verify

MCName    == {"a", "b", "c", "#d"}
MCHash    == {"#d"}
MCContent == {"x", "y", "big"}
MCSize    == [c \in MCContent |-> CASE c = "x" -> 1 [] c = "y" -> 2 [] c = "big" -> 9]
MCCert    == {"C", "D"}
MCTrusted == {<<"C", 1>>, <<"D", 2>>}

T == [type |-> "t", padded |-> FALSE]
U == [type |-> "u", padded |-> FALSE]
Padded(m) == [m EXCEPT !.padded = TRUE]

A == [name |-> "a", mime |-> T, data |-> "x"]
B == [name |-> "b", mime |-> U, data |-> "y"]
C3 == [name |-> "c", mime |-> T, data |-> "x"]

BES          == [profile |-> "BES", tsDelay |-> 0, maxAge |-> 1]
TS(delay)    == [profile |-> "TS", tsDelay |-> delay, maxAge |-> 1]

(* A document whose signer signed whatever its SignedInfo says.            *)
Resign(sig) ==
  LET refs == [sig EXCEPT !.spRefs = <<[target |-> sig.sp.id, dig |-> sig.sp]>>]
  IN  [refs EXCEPT !.sv = SignatureValue(SignatureValueID(0), sig.cert, SignedInfo(refs))]

Holding(docs, sig) == ContainerEntries(docs, <<sig>>)
UpTo(S, n)  == UNION {[1..m -> S] : m \in 0..n}

-----------------------------------------------------------------------------
(* One signature document against the files of a good container.           *)
Two   == <<A, B>>
Three == <<A, B, C3>>
Base(docs) == SignBES(0, "C", docs, 1)

Id(i) == ReferenceID(0, i)

MCData(n) == IF n = "b" THEN "y" ELSE "x"

(* Any references with the signed properties of two files, ...             *)
AnyReference ==
  [id : {Id(0), Id(1), NoId}, uri : {"a", "b", "#d", NoName}, dig : {"x", "y"}]
ReferenceAxis ==
  {Resign([Base(Two) EXCEPT !.refs = refs]) : refs \in UpTo(AnyReference, 2)}

(* ... any signed properties with some permutation of good references, ... *)
GoodReferences ==
  {Base(Two).refs, <<Base(Two).refs[2], Base(Two).refs[1]>>,
   <<[Base(Two).refs[1] EXCEPT !.uri = "b", !.dig = "y"],
     [Base(Two).refs[2] EXCEPT !.uri = "a", !.dig = "x"]>>}
AnyFormat ==
  [ref : {Id(0), Id(1), Id(2), NoId}, mime : {T, Padded(T), U, NoMediaType}]
FormatAxis ==
  {Resign([Base(Two) EXCEPT !.refs = refs, !.sp.dofs = dofs]) :
     refs \in GoodReferences, dofs \in UpTo(AnyFormat, 2)}

(* ... any way to count to three and still miss a file, ...                *)
CountingAxis ==
  {Resign([Base(Three) EXCEPT !.refs = [i \in 1..3 |->
       [id |-> Id(ids[i]), uri |-> uris[i], dig |-> MCData(uris[i])]]]) :
     ids \in [1..3 -> 0..2], uris \in [1..3 -> {"a", "b", "c"}]}
  \cup
  {Resign([Base(Three) EXCEPT !.sp.dofs = [i \in 1..3 |->
       [ref |-> Id(ids[i]), mime |-> IF ids[i] = 1 THEN U ELSE T]]]) :
     ids \in [1..3 -> 0..2]}

(* ... and any two defects of the other fields.                            *)
Defects(sig) ==
  {sig, Resign(sig)}
  \cup {[sig EXCEPT !.shape = s]  : s \in {"extra", "broken"}}
  \cup {[sig EXCEPT !.target = i] : i \in {NoId, SignatureID(1)}}
  \cup {[sig EXCEPT !.cert = c]   : c \in {NoCert, "D"}}
  \cup {[sig EXCEPT !.sp.cert = c] : c \in {NoCert, "D"}}
  \cup {[sig EXCEPT !.sp.time = t] : t \in {NoTime, 2}}
  \cup {[sig EXCEPT !.sp.id = NoId], [sig EXCEPT !.sp.policy = TRUE],
        [sig EXCEPT !.sv.key = "D"]}
  \cup {[sig EXCEPT !.spRefs = s] :
          s \in {<<>>, sig.spRefs \o sig.spRefs, sig.spRefs \o sig.spRefs \o sig.spRefs}}
DefectAxis == UNION {Defects(s) : s \in Defects(Base(Two))}

(* The TS profile: the window over times, and the shape of what is stored. *)
Stamped(tsts, ocsp) == [Base(Two) EXCEPT !.usp = Usp(tsts, ocsp)]
Stamp(gen, bound) == Token(Base(Two).sv, gen, TRUE, bound)
GoodOcsp == Ocsp("good", "C", 3, 3)
WindowAxis ==
  {Stamped(<<Stamp(3, bound)>>, Ocsp("good", "C", this, produced)) :
     bound \in {NoBound, 0, 1, 2}, this \in 1..5, produced \in 2..6}
StoredTokens ==
  {<<>>} \cup UpTo({NoToken, Stamp(3, 1), [Stamp(2, 1) EXCEPT !.trusted = FALSE],
                    [Stamp(3, 1) EXCEPT !.imprint.id = NoId]}, 2)
StoredOcsp ==
  {GoodOcsp, NoOcsp, Ocsp("revoked", "C", 3, 3), Ocsp("good", "D", 3, 3),
   [GoodOcsp EXCEPT !.single = FALSE], [GoodOcsp EXCEPT !.authentic = FALSE]}
StoredAxis ==
  {[Stamped(tsts, ocsp) EXCEPT !.usp.shape = shape] :
     tsts \in StoredTokens, ocsp \in StoredOcsp, shape \in {"ok", "extra", "broken", "absent"}}
MixedAxis ==
  {[d EXCEPT !.usp = Usp(tsts, GoodOcsp)] :
     d \in Defects(Base(Two)), tsts \in {<<>>, <<Stamp(3, 1)>>}}

SignatureInput ==
  {<<Holding(Two, s), BES>> : s \in ReferenceAxis \cup FormatAxis \cup DefectAxis}
  \cup {<<Holding(Three, s), BES>> : s \in CountingAxis}
  \cup {<<Holding(Two, s), TS(delay)>> : s \in WindowAxis, delay \in {-1, 0, 1, 2}}
  \cup {<<Holding(Two, s), TS(0)>> : s \in StoredAxis \cup MixedAxis}

-----------------------------------------------------------------------------
(* Any short archive around two data files and three signature documents.  *)
One  == <<A>>
Rows == ManifestRows(One)
Good(k) == SignatureEntry(k, SignBES(k, "C", One, 1))

AnyEntry ==
  {MimetypeEntry(TRUE), ManifestEntry(Rows), FileEntry("a", "x"),
   FileEntry("b", "y"), FileEntry("c", "big"), Good(0), Good(2),
   SignatureEntry(10, SignBES(10, "D", One, 1)), OtherEntry("metainf")}
ArchiveAxis == {<<MimetypeEntry(TRUE)>> \o z : z \in UpTo(AnyEntry, 4)}

(* Its entries in any order, with a signature for every kind of rank.      *)
Orders5 == {p \in [1..5 -> 1..5] : \A i, j \in 1..5 : p[i] = p[j] => i = j}
OrderAxis ==
  LET z == <<ManifestEntry(Rows), FileEntry("a", "x"), Good(2), Good(10), Good(0)>>
  IN  {<<MimetypeEntry(TRUE)>> \o [i \in 1..5 |-> z[p[i]]] : p \in Orders5}

(* Any manifest of up to three rows.                                       *)
AnyRow ==
  {Row("/", RootMedia), Row("/", T), Row("a", T), Row("a", Padded(T)), Row("b", U),
   Row("a", NoMediaType), Row(NoName, T), Row("META-INF/", T)}
ManifestAxis ==
  {<<MimetypeEntry(TRUE), ManifestEntry(rows), FileEntry("a", "x"), Good(0)>> :
     rows \in UpTo(AnyRow, 3)}

(* Archives at the size bounds, and ones without the magic entry.          *)
BoundAxis ==
  {ContainerEntries(docs, [k \in 1..signers |-> SignBES(k - 1, "C", docs, 1)]) :
     docs \in {[i \in 1..n |-> [name |-> <<"a", "b", "c">>[i], mime |-> T, data |-> d[i]]] :
                 n \in 1..3, d \in [1..3 -> {"x", "y"}]},
     signers \in 1..2}
MagicAxis == {<<>>} \cup {<<MimetypeEntry(FALSE)>> \o z : z \in {<<>>, Holding(One, Base(One))}}
               \cup {Tail(Holding(One, Base(One)))}

ContainerInput ==
  {<<z, BES>> : z \in ArchiveAxis \cup OrderAxis \cup ManifestAxis
                        \cup BoundAxis \cup MagicAxis}

MCInput == SignatureInput \cup ContainerInput

-----------------------------------------------------------------------------
(* For the disagreement with a comment: what create writes for two, for    *)
(* ten and for eleven signers.                                             *)
OrderInput ==
  {<<ContainerEntries(One, [k \in 1..n |-> SignBES(k - 1, "C", One, 1)]), BES>> : n \in {2, 10, 11}}
=============================================================================
