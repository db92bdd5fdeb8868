# A TLA+ model of go-asice

go-asice creates and verifies ASiC-E containers: ZIP archives that hold data
files, a manifest, and XAdES signature documents, in the plain BES profile or in
the TS profile, where a time-stamp and a stored OCSP answer are added to each
signature. This directory holds TLA+ modules for the program's own logic, TLC
configurations that check them on small instances, and proofs that TLAPS checks
for every value of the constants.

    tlc -config MCCreate.cfg MCCreate     # one run
    tlapm CreateProofs.tla                # the proofs of one module

## 1. Inventory of the system

| Component | Source | State it keeps | Operations | Modules |
|---|---|---|---|---|
| Signature documents, container layout | `src/xades/`, `src/asic/signature.go`, `ts.go`, `container.go`, `zipwriter.go` | none, values only | `SignBES`, `SignTS`, `manifestXML`, `writeContainerZIP` | `Asice` |
| Container creation | `src/asic/create.go`, `ts.go`, `container.go`, `zipwriter.go`, `src/cmd/asice/create.go` | blocks of the signer file read so far, documents rendered so far, the token captured, the output file | `runCreateCmd`, `ParseSigner`, `Create`, `SignTS`, `checkCreateTSDelay`, `WriteContainer` | `Create`, `CreateCommand` |
| Container verification | `src/asic/verify.go`, `verify_signature.go` | files, signature documents, media types, failures, reported time | `Verify`, `openContainer`, `parseManifest`, `verifySignature` and its checks | `Verify`, `Validity` |
| Check of a stored OCSP response | `src/asic/verify_signature.go`, `src/asic/crypto/std.go` | the responder certificate found so far | `checkOCSPResponse`, `ocspResponder`, `issuerCertificate`, `VerifyResponderCertificate` | `OcspCheck`, `OcspTrust` |
| Signer certificate chain | `src/asic/crypto/std.go` | the chain so far | `VerifyChain` | `CertChain`, `TrustPath` |
| Time-stamp client | `src/tsa/client.go` | attempt, deadline, context, nonce | `Client.Create`, `submit`, `do` | `TsaClient` |
| Time-stamp answers and tokens | `src/tsa/types.go`, `parse.go`, `validator.go`, `crypto/std.go` | none | `ParseTimeStampResp`, `checkTokenBody`, `Validator.Check` | `TimeStampToken` (part) |
| OCSP client | `src/ocsp/ocsp.go`, `src/cmd/asice/ocsp.go` | the shape of request tried, the file at `--out` | `runOCSPFetchCmd`, `Fetch` with its 400 fallback | `OcspFetch` |
| Command line | `src/cmd/asice/` | exit code | flags, printing, exit codes | `CreateCommand`, `OcspFetch` (create and fetch) |
| Test support | `src/testutil/`, `src/tsa/testserver.go`, `src/test/` | – | – | not modelled |

**How they interact.** `asice ocsp fetch` asks a responder for the status of the
signer's certificate and stores its answer as it came. `asice create` reads its
input files, opens the output file and calls `asic.Create`. This renders one
signature document per signer; in the TS profile it calls the time-stamp client
once per document, over HTTP, in the middle of the rendering, and a callback
(`captureTimeStamp`) hands the token to the guard that compares it with the
stored OCSP answer. `WriteContainer` then emits the whole archive in one write.
`asice verify` reads the archive, verifies each signature document in one loop
against the data files and the manifest, and calls the certificate chain module,
the token validator and the check of the stored OCSP response for each. The
commands share only files: the OCSP answer and the container.

**What is hard.** There is no concurrency inside the program: it is one
goroutine. What is hard is (a) the environment – an authority or a responder
that does not answer, answers late, or answers something else; a disk that
fails or a kill in the middle; a container changed between the programs; (b)
verification by *counting*: the code compares numbers of references, files and
media types where validity is a one-to-one relation between them; (c) loops that
continue after a failure, with state cleared and set again; (d) closed and
one-sided time windows, checked in two programs under three clocks; (e) searches
that take the first fit and never go back – the issuer in a chain, the responder
of an OCSP answer; (f) a file left over from an earlier command. `PROJECT.json`
lists each as a hazard at its line, with the properties that would catch it.

**What makes each component correct.**

* Creation: incomplete inputs touch nothing; whatever fails later, a container at the
  output path is complete, and each time-stamp in it is over the signature value
  it sits beside; it ends.
* Verification: the verdict is the validity of the container, a definition
  written without the program's order of work; the reported signing time is the
  time-stamp's only if everything passed.
* Stored OCSP response: only what a trusted responder signed for this signer is
  accepted; where names tell certificates apart, all of that is.
* OCSP client: what is stored is the last answer, a successful one about the
  signer; at most two requests; a responder that serves either shape is served by.
* The commands together: what verifies is what was signed; what was created
  verifies unless a stated condition fails; the time reported is a stamp's, and a
  later stamp can only make a signature look younger; what is accepted was stamped
  before the certificate had been revoked for long.
* Chain: an accepted certificate has a path to an anchor; where issuers are
  unambiguous, a certificate with a path is accepted; the walk ends.
* Time-stamp client: the token returned was stamped for this call; a good stamp
  is not thrown away; the call keeps to its budget and obeys its context.

## 2. Modules and their correspondence to the code

Definitions that stand for code are in `PROJECT.json` under "map", with the
lines they stand for. Definitions called "Mutant" in a comment are small faults
of the code; each property is broken by at least one of them.

**`Asice`** – the data. Cryptography is symbolic: the digest of a value is the
value, a signature value is a record of the key and of what was signed, a key is
named by its certificate. A field that is absent, unreadable or in excess is a
value of that field (`NoCert`, `shape = "broken"`). Identifiers derive from the
position of the document as in `xades/ids.go`, because the time-stamp covers the
`Id` of `ds:SignatureValue`. Media types carry a `padded` mark because the
reader trims the one in the signature only.

**`Create`** – `pc` walks through `OpenOutput` (`os.Create` truncates before
anything is checked), `CheckOptions`, then per signer `SignDocument`,
`TimeStamp`, `CheckTSDelay`, and finally `WriteContainer`. A token that
`TimeStamp` yields is `trusted` or not: the client checks it against the
`--tst-signers` of `create` and looks at neither window nor usage of the
certificate that signed it (`tsa/client.go:184-224`), while `verify` does and has
a list of its own (`tsa/crypto/std.go:99-125`), so that `Create` cannot know what
`Verify` will say of it. Each step may fail as the code's may; `Interrupt` kills the process at any point, in the write
too. `out` is the file at the `-o` path, an earlier file there included.

**`CreateCommand`** – the command around it: `ReadInputs` is everything before
`os.Create` (flags, `ParseSigner` block by block over the PEM blocks,
`ParseSignerCertKey`, `ParsePEMCerts`, `DocsFromPaths`; `SignerKey` are the keys
that `NewStdSignerModule` takes, fewer than the parser does), `Creating` is a step of
`Create`, `CloseOutput` is the deferred `Close` and the exit code. A call of
`asic.Create` by another program, with several signers, is the command from
`os.Create` on (`args = Library`).

**`Verify`** – one action per entry of the archive and one per check of a
signature document. A check that returns early is `StopUnless`; one that records
and goes on is `Record`. `ReferencesUsable` is the odd case where a second
SignedProperties reference clears the first and a third is taken again.

**`Validity`** – the abstract specification of `Verify`: `ValidContainer` says
with bijections what `Verify` decides with counters, and `Decide` reaches that
verdict in one step. `Verify!VerdictKept` states that `Verify` implements it: no
step reaches another verdict, or takes one back; that one is reached is
`VerdictReached`. The two modules share only the data of `Asice`.

**`OcspTrust`**, **`OcspCheck`** – the promise about a stored OCSP response
(`Attested`: about this signer, fresh, signed by a configured responder or by one
the signer's issuer vouches for, without an extended key usage that forbids it) and `checkOCSPResponse` with its searches
certificate by certificate: the CertID in the canonical and in the reference
implementation's convention, the configured list, the embedded list, the first
issuer in intermediates and roots. A certificate that lists the OCSPSigning usage
(`ocspSigning`) and one without any usage (`anyUse`), which `crypto/x509` takes as
well, are told apart. To `Verify` the outcome is the field
`authentic` of a response.

**`OcspFetch`** – `ReadInputs`, `BuildRequest` (issuer given, or first of its
name in the chain), `Send`, `TimesOut`, `HandleAnswer`, `CheckResponse` and
`WriteFile` are the command; `Deliver`, `ConnectionBreaks`, `Tick` and `Kill` are
the environment. `log` holds the exchanges.

**`RoundTrip`** – `OcspFetch`, `Create` and `Verify` as instances, unchanged, with
a hand-over of the stored file (from this fetch, or from an earlier one when it
failed), one clock, the responder's and the authority's clocks as offsets, a
responder that does not lie but may serve old answers, and a transit. In transit
somebody without a signer's, the authority's or the responder's key changes the
archive: files are replaced, renamed, added, entries dropped and repeated, manifest
rows changed and added, references, signed properties and media types changed
field by field, a signature document moved to another's place (`Edit`). The
unsigned properties are taken away or exchanged for another document's, the token
is altered, the OCSP answer replaced by a forged one or by another that a responder
gives (`EditUnsigned`); and the authority, which asks nobody who he is, stamps the
signature value anew (`Restamp`, remembered in `fresh`), which also makes a TS
signature of a BES one. Each change leaves an archive that the zip package reads;
time may pass before one.

**`TrustPath`**, **`CertChain`** – the abstract chain verifier (accepts only where
a path exists) and `VerifyChain` edge by edge: leaf checks, validity window,
anchor test, first fitting issuer of the pool.

**`TimeStampToken`** – answer shapes, token checks and signature checks as
operators; among the answers is the empty SEQUENCE that the parser panics on.

**`TsaClient`** – `Create`, `submit` and `do` with a clock: `Send`, `TimesOut`,
`HandleAnswer`, `Wait`, `Parse`, `Validate` are the client; `Stamp` (the
authority, which may be wrong), `Deliver` and `ConnectionBreaks` (the network)
and `Cancel` (the caller's context) are the environment. The network may deliver
any body, but a token in it with a signature by one of the authority's keys has one
that the authority made (`Genuine`). Computing takes no time;
the clock moves while the client waits, and never past a deadline.

**`MC*`** – small instances: the sets of inputs each run enumerates, as
"axes" that vary some fields in every way around a good value.

## 3. Runs

| Run | What it asks | Bounds, and why they suffice |
|---|---|---|
| `verify` | A document's verdict is exactly its validity; the reported time is right; no document is left out of the report; `Verify` implements `Validity` (`VerdictKept`) and reaches a verdict (`VerdictReached`). | Two data files, so that "covered twice and not at all" exists; two documents, so that state of one can reach the other; three SignedProperties references; each date at, before and after both ends of its window. Up to four entries after the magic one, of every kind, repeated and in any order; five in every order with keys 0, 2 and 10; manifests of up to three rows; sizes on both sides of `MaxEntry` 4 and `MaxTotal` 8. |
| `create` | What is left at the output path; one time-stamp per signature; bad inputs touch nothing and good ones start; it ends. | Up to three signers (the guard must judge each one's own token), every option refused, OCSP times around the window, failure and kill at each step. Signer files of up to three blocks of seven kinds in every order, key files of every kind, each other file absent, unreadable, empty and with too many or too few certificates. |
| `roundtrip` | What verifies is what was signed; the reported time was stamped; `Verify` accepts what `Create` wrote exactly when `Acceptable` holds; what is accepted was stamped before the certificate had been revoked for `OCSPMaxAge`; fetching first needs the clocks to agree. | Two edits (an exchange of two fields is two edits) of two files with one signer, one file with two, and of a container without time-stamps; one edit where the authority may also stamp at the time it did or later than the answer there is, and another answer is to be had; one to three files and signers, names with `#`, padded media types, files over the limit, every OCSP answer around the windows, stamps of certificates that the verifier accepts or does not; a fetch in a time of three seconds, clocks of authority or responder ahead by up to two, revocation before, during and after, an old answer or none on the disk; a container with an old answer changed once after its certificate was revoked. The proofs hold for every number of changes, at any time. |
| `cert_chain` | Soundness, completeness where unambiguous, refinement, termination. | Three certificates of two names in every relation, cycles included, with a limit of three; the proofs hold for every number. |
| `tsa_client` | The token is for this call; good stamps are kept; creation and verification agree on a token; budget, context, termination. | One retry, timeout 2, pause 1, age 3, skew 1: clock errors on both sides of every bound, every field of a stamp wrong, every field of a token altered and signed again with an outsider's key. |
| `ocsp_fetch` | The stored file is the last answer, successful and about the signer; two requests at the most, within two timeouts; either kind of responder serves; it returns. | Three files in every state with up to three certificates, two of the issuer's name among them; timeouts of -1, 0 and 2; every class of answer to either shape, at any second. The proofs hold for all. |
| `ocsp_check` | Only attested responses are accepted, and all of them where names are unique; the search ends. | Two certificates of the issuer's name, two of the responder's, an outsider; lists of two; every CertID; times before, at and after both ends of each window. The proofs hold for all. |

What the runs show: all of these hold. `UntouchedVerdict` also tells what
`Create` accepts and `Verify` refuses: names that begin with `#`, padded media
types, files and archives over the reader's limits, an OCSP answer that is not
good or is for another signer's certificate, untrusted signers, time-stamps by a
certificate that `verify` does not trust, or whose window or usage it refuses; the
definition `Acceptable` names them as far as the model tells them apart.
`ReportedTimeIsStamped` and `AcceptedBeforeRevocation` tell what the unsigned
properties are worth: whoever has the container can make a signature look younger
by a new stamp with a newer answer, but not older, and not beyond a revocation.
`FetchedFirst` tells what the documented order
of the commands asks of the clocks: the answer must not be older than the
time-stamp, yet is fetched before it, so that with equal clocks both fall into
one second, or the authority's clock is behind.

Five further runs show disagreements between the code and its documentation, each
as one violated property:

* `create_closed` – `out.Close` is deferred and its error dropped, so that exit
  code 0 may stand for a file that never reached the disk.
* `responder_fallback` – `verify.go:73` verifies against the issuer when the
  embedded responder is not in the list; in fact a configured certificate of the
  same name prevents that.
* `responder_eku` – `verify_signature.go:994` wants an embedded responder with the
  OCSPSigning extended key usage; one without any extended key usage passes,
  because `crypto/x509` reads absence as any.
* `report_order` – `verify.go:125` promises the report in container order; it comes
  in the byte order of the names, `signatures10.xml` before `signatures2.xml`.
* `tsa_shapes` – `tsa/types.go:205` says unrecognizable shapes fail with an
  error; an empty outer SEQUENCE panics at line 270, in the error message.

Further disagreements met while modelling, without a run: `README.md:153` wants a
`good` status for the signer, and neither `Fetch` nor the command looks at status
or CertID; `verify_signature.go:725` says exactly one `EncapsulatedTimeStamp`, and
an empty one before the token is not noticed (line 803); an `EC PARAMETERS` block
counts as a second private key, although only "private-key-typed" blocks are meant
to (`create.go:250`), so that a file that OpenSSL writes with one is refused –
`StartsExactlyWhenReady` leaves open whether a file with one certificate, its key
and a block of a third type is taken; a missing `create` flag exits with 1, where
`README.md` says 2 for usage errors. Smaller: a wrong number of references keeps
the time-stamp from being checked (`verify_signature.go:38`); a file without PEM
blocks counts as a list of no certificates (`ParsePEMCerts`); responder IDs by key
do not parse.

Runs say `CHECK_DEADLOCK FALSE` because each of these programs ends.

**Fairness.** `Verify`, `CertChain` and `OcspCheck` are sequential code that waits
for nothing: `WF_vars(Next)`. `CreateCommand` has weak fairness of `CommandWork`:
it waits only for time-stamp requests, and the client's HTTP client has a
timeout – that a silent authority does not keep it waiting is `Returns` of
`TsaClient`, not assumed twice; the user's interrupt is not obliged.
`TsaClient` and `OcspFetch` have `WF_vars(Work)`: the program runs and time passes
(`Tick`), while authority, responder, network and caller are obliged to nothing –
`Returns` holds for one that never answers; for the fetch only with a positive
timeout, since `--timeout 0` is none. `RoundTrip` states safety only.

## 4. Proofs

`CertChainProofs`, from `CertChainAssumption` (the limit is positive, the inputs
are of their type), for any number of certificates:

* `TypeCorrect` – `Spec => []TypeOK`.
* `Soundness` – an accepted chain is a path. `AcceptedIsPath` alone is not
  inductive: the walk must remember that every edge so far is signed and every
  certificate so far but the current one was in its window, which the invariant
  states at each `pc`.
* `Refinement` – `CertChain` implements `TrustPath!Spec`: the chain that soundness
  gives is the witness of the path the abstract step asks for.
* `Completeness` – where no certificate has two fitting issuers, a rejected leaf
  has no path: by the second invariant `NeverLeaves`, that the chain is a prefix of
  every path there is and is shorter than it when an issuer is looked for.

`CreateProofs`, from `AsiceAssumption`, `CreateAssumption` and, for the command,
`CommandAssumption` (command lines are of their type, and a parsed block is what
its type says), for any number of signers, files and PEM blocks:

* `TypeCorrect`; `Finishedness` (`ContainerIsFinished`); `StampsCounted`
  (`OneStampPerSignature`). `ContainerIsFinished` is about the end of the program,
  so the inductive invariant `IInv` says what holds on the way: each finished
  document is the rendering of its signer with, in the TS profile, a token over its
  own final value inside the window (`SigsInv`); the one being rendered belongs to
  signer `Len(sigs) + 1` and its token is the captured one once the guard runs
  (`BuiltInv`); the options passed their checks from then on (`PhaseInv`); a
  container is at the output path only when all are done (`OutInv`). `WriterInv`
  adds what the archive is made of, which `RoundTripProofs` needs.
* `CommandFinishedness`, `CommandStampsCounted` – both carry over to the command:
  its steps are steps of `Create` (`CommandSteps`), because reading the inputs
  either leaves it alone or fails as its first step does (`InputsInv`).
* `StartsWhenReady` (`StartsExactlyWhenReady`) – `HasRead` says what the loop of
  `ParseSigner` has read after any number of blocks (the first certificate, the
  key blocks counted, whether anything was in excess), and `OneFileHolds`,
  `TwoFilesHold` that it yields a signer only if the file holds one certificate
  and one key block that belong together, with a key that can sign, and that it
  does if there is no block of a third type beside them. `CommandInv` carries that
  over the steps: what is ready is not refused, what is not ready is never started,
  and nothing was touched when a command line was refused.

`OcspFetchProofs`, from `OcspFetchAssumption`, for any files, answers and timeout:
`TypeCorrect`, `Stored` (`StoredIsServed`), `Budget` (`WithinBudget`) and `Served`
(`ServedIsStored`). What is stored is only known at the end; `LogInv` says on the
way that the exchanges are of the two shapes in their order, about the one CertID
built for the signer, that a first of two was a 400, and what the last answer has
passed at each `pc`; `ClockInv` bounds clock and deadline by the number of
exchanges.

`OcspCheckProofs`, from `OcspCheckAssumption`, for any certificates and lists:
`TypeCorrect`; `Soundness` – `OcspCheck` implements `OcspTrust!Spec`, by the
invariant of what the steps behind `pc` have established; `Completeness`
(`UniqueNamesSuffice`) – for an attested response of unique names the invariant
`NeverRejects` holds: nothing passed over has the responder's name, so that the
first of the name is the signer; a first issuer exists by well-foundedness of the
naturals.

`TsaClientProofs`, from `TsaClientAssumption` (the pool holds the authority's
certificates, a drawn nonce is new), for any retries, timeouts, bounds, authority
and network: `TypeCorrect`; `Budget` (`WithinBudget`); `Stamped`
(`StampedForThisCall`); `Kept` (`HonestStampKept`); `StoredChecks`; `Cancellation`
(`CancelStops`). The budget needs the clock bounded by the attempts made, at each
`pc` (`BudgetInv`); a token that passes the checks carries a signature over the
attributes of something stamped, because what the network delivers is `Genuine`
(`AnswerInv`), and what was stamped before the call has another nonce than one
drawn in it (`IssuedInv`, `NonceInv`).

`VerifyProofs`, from `AsiceAssumption` and `VerifyAssumption` (the archive is a
list of entries, fewer than a hundred signature documents among them, of the
types the parsers yield): `TypeCorrect`; `Coverage` (`ReportCoversDocuments`) –
`OpenInv` says that while nothing failed the documents are those of the entries
read, `OrderInv` that reported, current and remaining ones partition them, the
reported ones each once, for which the least of the remaining ones must exist and
be one; `Times` (`ReportedTime`).

`VerdictProofs`, from the same, for any number of files, references and formats:
`VerdictIsValidity` (`SignatureVerdictExact`). Two parts. `CheckedInv`: at each
check, no failure is noted exactly if the checks before it pass (also where a
document is abandoned or goes on after a failure), so that at the end the verdict
is the conjunction of all checks on the document alone. `CountedIsOneToOne` and
`OneToOneIsCounted`: the comparisons of numbers in `checkReferences` and
`checkSignedProperties` hold exactly if the references are a bijection to the
files and the formats one to the references, by the finite-set theorems on
injections between sets of one size.

`VerdictIsTheContainers` (`VerdictKept`), in the same module – `Verify` implements
`Validity!Spec`: its verdict on the whole container is `ValidContainer`. To the
invariants above, `KInv` adds what the loop over the entries knows while nothing
has failed (`OpenedInv`: the container holds what the entries read so far say, no
name twice, the running total is the sum of their sizes and within the bound) and
that a failure noted means an invalid container (`DecidedInv`). The total is a
recursive function over positions; that it exists and grows is shown by the least
position where it would not (`Totals`). `ManifestIsValid` turns the manifest's
comparisons into the bijection of the definition, `VerdictsAddUp` the reported
verdicts into that of the container. The last part of the module works the
definition out for an archive laid out as `writeContainerZIP` does it
(`MadeContainerIsValid`, `MadeVerdict`).

`RoundTripProofs`, from `RoundTripAssumption` (the options and files are of their
types, orders have up to a hundred signers as `Verify`'s archives do, an answer
left on the disk is as honest as the responder), for any journeys, clocks, answers
and any number of changes in transit. `OcspFetch`, `Create` and `Verify` are not
proved about again: their proof modules are instantiated, and their invariants
become conjuncts of the composed one, `IInv`. What the composition adds: while
fetching, every answer in the log was true when given (`FetchInv`); from the
hand-over on the order's answer is such a one and no stamp is older than it by more
than the clocks differ, nor ahead of the authority's clock (`CreateInv`); no stamp
given in transit is earlier than one given before (`FreshInv`); in transit every
signature value is one that a signer made, every trusted token one the authority
gave, and every authentic OCSP answer true, whatever else was changed
(`TransitInv`); while verifying, the archive is such a one (`VerifyInv`).

* `StampsMeetTheAnswer` (`FetchedFirst`), from `CreateInv` and the guard.
* `TimeIsTheAuthoritys` (`ReportedTimeIsStamped`) and `StampedBeforeRevocation`
  (`AcceptedBeforeRevocation`): an accepted document has passed all TS checks
  (`VerdictIsValidity`), its token is trusted and hence the authority's, its answer
  authentic and hence true, and the token is not the later of the two.
* `AcceptedWasSigned` (`AcceptedIsWhatWasSigned`): an accepted document vouches for
  the files by the bijections of `ValidBES`, and its references are under a
  signature value that a signer made.
* `UntouchedIsAccepted` (`UntouchedVerdict`): both directions for what nobody
  changed. `UntouchedInv` says that the archive verified is the one `Create` wrote,
  entry for entry; `MadeVerdict` then gives the verdict for stamps that the verifier
  trusts or not, and the TSDelayTime window drops out because `Create`'s guard has
  settled it.

TLC checked each composed invariant (`IInv`, `UntouchedInv`, `KInv`, `CommandInv`)
on the instance of its run, with `Nat` and the identifiers cut to those that occur
where it has to enumerate them.

**Only model-checked.** Liveness (`VerdictReached`, `Finishes`, `WalkEnds`,
`Returns`, `Decides`): fairness and ENABLED are out of the proof system's reach.
The five violations are counterexamples, not theorems. Every invariant and action
property of the passing runs has its theorem. No module declares a RECURSIVE
operator; what a recursive function over a list computes for every list is proved
by the least position at which it would fail (`WFMin` with the order of the
naturals), since the library's induction theorems take an operator the provers
cannot instantiate.

## 5. What is not modelled

* Bytes: XML canonicalisation, DER, ZIP headers, base64, digest algorithms. An
  encoding that fails is a value of the field it is about.
* Strength of cryptography: signatures cannot be forged and digests do not
  collide, by construction of the data. The responder in `RoundTrip` is honest;
  `OcspCheck` is what keeps another's answers out.
* `Verify`'s checks of its own options and the files of the verify command: they
  return an error before any state exists, and no property tells them apart. The
  same for the nil checks of `ocsp.Fetch`, which the command cannot reach.
* `Validator.Check` with a nonce or a freshness test: the program has no caller of
  it. The reading of the bound from the token's policy (`TSDelayFromToken`, called at
  `verify_signature.go:652`, and `TSDelayFromTSTInfo`, at `create.go:184`) is the
  field `bound` of a token.
* The request decoder of the test server, `issuerSerial` matching in
  `Validator`, RDN text.
* Arithmetic widths: the bound in a time-stamp policy is multiplied into a
  `time.Duration` unchecked (`tsa/parse.go:206`), which wraps beyond 292 years;
  integers here are unbounded. ZIP sizes are bounded before they are written.
* The command line's printing, and the verify command's exit codes.

## 6. Plan

Done, in this order: `Asice`, `Validity`, `Verify`, `Create`, `RoundTrip`,
`TrustPath`, `CertChain`, `TimeStampToken`, `TsaClient`, `OcspFetch`, `OcspTrust`,
`OcspCheck`, `CreateCommand`, the extension of `RoundTrip` by the fetch, and eight
proof modules, the last of them about the composition. What could follow:

1. A version of `RoundTrip` over `CreateCommand` and `OcspCheck` in place of
   `Create` and the field `authentic`, so that the theorems about the journey start
   from files and certificates.
2. `TsaClient` composed with `Create` in place of the set of tokens that
   `Create!TimeStamp` chooses from: `Stamped` says that each of them is in it.
