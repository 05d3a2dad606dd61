------------------------------ MODULE TestIssuer ------------------------------
(***************************************************************************)
(* The certificate issuer that the tests of rc-x509-trust use              *)
(* (test_issuer), on top of the signing requests of rc-crypto (csr.rs): it *)
(* issues a chain from a root down to a leaf and lets a mutator change one *)
(* thing about it.                                                         *)
(*                                                                         *)
(* A common name stands for the identity it is given to, and so for its    *)
(* key.  A mutator that changes a request before it is signed changes the  *)
(* certificate that is issued; the names, ids and keys that go into the    *)
(* certificates below it are not among what it changes.                    *)
(***************************************************************************)
EXTENDS Integers, Sequences

\* Years, relative to 1970.  Certificates are issued for 1975 to 4096.
PreEpoch == -1
Issued   == 5
Y2020    == 50
Y4000    == 2030
Expires  == 2126

Broken    == <<"com", "itsallbroken">>
Datadog   == <<"com", "datadoghq">>
LeafSan   == <<"com", "itsallbroken", "leaf">>
WrongSan  == <<"com", "itsallbroken", "wrong">>
Bananas   == <<"com", "itsallbroken", "bananas">>
US1       == <<"com", "datadoghq", "us1">>     \* LEAF_ENDPOINT_HOSTNAME
EU1       == <<"com", "datadoghq", "eu1">>
AP1       == <<"com", "datadoghq", "ap1">>

NoName    == <<"", 0>>
NoPathLen == 256        \* above every u8

\* The hash of a public key, taken to be injective.
KeyId(key) == [of |-> key, len |-> 32]

\* The key id, reversed and followed by one more byte.
GenerateSki(key) == [KeyId(key) EXCEPT !.len = @ + 1]

\* CertificateSigningRequest::new_intermediate: no key usage is asked for.
IntermediateRequest(cn) ==
    [subject |-> cn, key |-> cn, eku |-> {}, sans |-> {}]

\* CertificateSigningRequest::new_leaf.
LeafRequest(cn, san) ==
    [subject |-> cn, key |-> cn, eku |-> {"CodeSigning"}, sans |-> {san}]

\* Params::sign, and what the template adds to the request.
Sign(csr, parent, isCa, permitted) ==
    [subject |-> csr.subject, issuer |-> parent.subject,
     ski |-> GenerateSki(csr.key), aki |-> parent.ski,
     key |-> csr.key, signer |-> parent.key,
     notBefore |-> Issued, notAfter |-> Expires,
     isCa |-> isCa, pathLen |-> NoPathLen, eku |-> csr.eku,
     sans |-> csr.sans, permitted |-> permitted,
     critical |-> FALSE, der |-> "certificate"]

NewIntermediate(cn, parent, allowed) == Sign(IntermediateRequest(cn), parent, TRUE, allowed)
NewLeaf(cn, parent) == Sign(LeafRequest(cn, LeafSan), parent, FALSE, {})

\* SelfSignedTemplate: there is no distinguished name in a root.
NewRoot(cn, id) ==
    LET self == [subject |-> NoName, key |-> cn, ski |-> id] IN
    [Sign([subject |-> NoName, key |-> cn, eku |-> {}, sans |-> {}], self, TRUE, {})
        EXCEPT !.ski = id]

RootCA(i) == NewRoot(<<"Banana Test CA", i>>, GenerateSki(<<"Banana Test CA", i>>))
CA  == RootCA(1)
CA2 == RootCA(2)

Intermediate(i) == <<"Intermediate", i>>

\* TestChain::build without a mutator, intermediates from the root down.
TestChain(n) ==
    LET CAs[i \in 0..n] ==
            IF i = 0 THEN CA ELSE NewIntermediate(Intermediate(i), CAs[i - 1], {Broken})
    IN  [intermediates |-> [i \in 1..n |-> CAs[i]],
         leaf |-> NewLeaf(<<"A Leaf Certificate", 0>>, CAs[n])]

Size(ch) == Len(ch.intermediates)
LastCA(ch) == IF Size(ch) = 0 THEN CA ELSE ch.intermediates[Size(ch)]

\* The intermediate a seed selects.
Target(ch, seed) == (seed % Size(ch)) + 1

-------------------------------------------------------------------------------
(* Mutators *)

ValidChain(ch) == ch

ExpiredLeaf(ch)           == [ch EXCEPT !.leaf.notAfter = Y2020]
FutureValidLeaf(ch)       == [ch EXCEPT !.leaf.notBefore = Y4000]
PreEpochLeaf(ch)          == [ch EXCEPT !.leaf.notAfter = PreEpoch]
CriticalExtensionLeaf(ch) == [ch EXCEPT !.leaf.critical = TRUE]
CaSignerLeaf(ch)          == [ch EXCEPT !.leaf.isCa = TRUE]

Unconstrained(ch) ==
    [ch EXCEPT !.intermediates = [i \in 1..Size(ch) |-> [@[i] EXCEPT !.permitted = {}]]]

MismatchedLeafSan(ch) == [Unconstrained(ch) EXCEPT !.leaf.sans = {WrongSan}]

ExpiredIntermediate(ch, seed) ==
    [ch EXCEPT !.intermediates[Target(ch, seed)].notAfter = Y2020]
FutureValidIntermediate(ch, seed) ==
    [ch EXCEPT !.intermediates[Target(ch, seed)].notBefore = Y4000]
PreEpochIntermediate(ch, seed) ==
    [ch EXCEPT !.intermediates[Target(ch, seed)].notAfter = PreEpoch]
CriticalExtensionIntermediate(ch, seed) ==
    [ch EXCEPT !.intermediates[Target(ch, seed)].critical = TRUE]
NonCaIntermediate(ch, seed) ==
    [ch EXCEPT !.intermediates[Target(ch, seed)].isCa = FALSE]

PathLenViolation(ch) ==
    [ch EXCEPT !.intermediates = [i \in 1..Size(ch) |-> [@[i] EXCEPT !.pathLen = 0]]]

\* A CA of another key under the id of one of the chain issues the leaf.
ForgedLeaf(ch) ==
    [ch EXCEPT !.leaf = NewLeaf(<<"Evil Leaf", 0>>, NewRoot(<<"Evil CA", 0>>, LastCA(ch).ski))]

ForgedIntermediate(ch, seed) ==
    LET at     == Target(ch, seed)
        parent == IF at = 1 THEN CA ELSE ch.intermediates[at - 1]
        evil   == NewIntermediate(<<"Evil Intermediate", 0>>,
                                  NewRoot(<<"Evil CA", 0>>, parent.ski), {Broken})
    IN  [intermediates |-> Append(SubSeq(ch.intermediates, 1, at - 1), evil),
         leaf |-> NewLeaf(<<"Evil Leaf", 0>>, evil)]

\* That CA has a name of its own, and is left out.
OrphanLeaf(ch) ==
    LET evil == [NewIntermediate(<<"Evil Orphan CA", 0>>, CA, {}) EXCEPT !.ski = LastCA(ch).ski]
    IN  [ch EXCEPT !.leaf = NewLeaf(<<"Orphan Leaf", 0>>, evil)]

MissingIntermediate(ch, seed) ==
    LET at == Target(ch, seed) IN
    [ch EXCEPT !.intermediates = SubSeq(@, 1, at - 1) \o SubSeq(@, at + 1, Len(@))]

\* The last two intermediates name each other as the issuer, by id.
SelfReferentialCertIds(ch) ==
    LET a == [of |-> <<"ski_a", 0>>, len |-> 16]
        b == [of |-> <<"ski_b", 0>>, len |-> 16]
        Loop(i, own, issuer) ==
            [NewIntermediate(<<"Loop Intermediate", i>>, NewRoot(<<"Loop Signer", i>>, issuer), {})
                EXCEPT !.ski = own]
        last == Loop(2, b, a)
        n    == Size(ch)
    IN  [intermediates |-> [ch.intermediates EXCEPT ![n - 1] = Loop(1, a, b), ![n] = last],
         leaf |-> NewLeaf(<<"Leaf", 0>>, last)]

\* Key usages for the intermediates and the leaf, those of ChainEKUConfig.
SetEKUs(ch, config) ==
    [intermediates |-> [i \in 1..Size(ch) |->
        IF config.kind = "LeafOnly" THEN ch.intermediates[i]
        ELSE [ch.intermediates[i] EXCEPT !.eku = config.intermediate]],
     leaf |-> IF config.kind = "IntermediatesOnly" THEN ch.leaf
              ELSE [ch.leaf EXCEPT !.eku = config.leaf]]

\* LeafSanScenario and NameConstraintScenario.
Sans ==
    [Matching             |-> {US1},
     Mismatching          |-> {EU1},
     MultipleWithMatch    |-> {EU1, US1, AP1},
     MultipleWithoutMatch |-> {EU1, AP1}]

PermittedDomains ==
    [Matching          |-> {US1},
     Mismatching       |-> {EU1},
     Unconstrained     |-> {},
     MultipleWithMatch |-> {EU1, US1},
     MatchingSubdomain |-> {Datadog}]

SetNameConstraints(ch, constraint, san) ==
    [intermediates |-> [i \in 1..Size(ch) |->
        [ch.intermediates[i] EXCEPT !.permitted = PermittedDomains[constraint]]],
     leaf |-> [ch.leaf EXCEPT !.sans = Sans[san]]]

-------------------------------------------------------------------------------
(* The chains of the tests *)

\* The mutations of the tests by their name, with the intermediate they select.
Mutate(ch, mutation, seed) ==
    CASE mutation = "ValidChain"              -> ValidChain(ch)
      [] mutation = "ForgedLeaf"              -> ForgedLeaf(ch)
      [] mutation = "PathLenViolation"        -> PathLenViolation(ch)
      [] mutation = "ExpiredLeaf"             -> ExpiredLeaf(ch)
      [] mutation = "FutureValidLeaf"         -> FutureValidLeaf(ch)
      [] mutation = "ForgedIntermediate"      -> ForgedIntermediate(ch, seed)
      [] mutation = "ExpiredIntermediate"     -> ExpiredIntermediate(ch, seed)
      [] mutation = "FutureValidIntermediate" -> FutureValidIntermediate(ch, seed)
      [] mutation = "CaSignerLeaf"            -> CaSignerLeaf(ch)
      [] mutation = "MismatchedLeafSan"       -> MismatchedLeafSan(ch)
      [] mutation = "PreEpochLeaf"            -> PreEpochLeaf(ch)
      [] mutation = "CriticalExtensionLeaf"   -> CriticalExtensionLeaf(ch)
      [] mutation = "OrphanLeaf"              -> OrphanLeaf(ch)
      [] mutation = "NonCaIntermediate"       -> NonCaIntermediate(ch, seed)
      [] mutation = "PreEpochIntermediate"    -> PreEpochIntermediate(ch, seed)
      [] mutation = "CriticalExtensionIntermediate" -> CriticalExtensionIntermediate(ch, seed)
      [] mutation = "SelfReferentialCertIds"  -> SelfReferentialCertIds(ch)
      [] mutation = "MissingIntermediate"     -> MissingIntermediate(ch, seed)

\* What the tests say each of them makes of a chain that is valid without it.
ExpectedError ==
    [ForgedLeaf                    |-> "CertSignatureInvalid",
     PathLenViolation              |-> "PathLen",
     ExpiredLeaf                   |-> "CertExpired",
     FutureValidLeaf               |-> "CertFutureValidity",
     ForgedIntermediate            |-> "CertSignatureInvalid",
     ExpiredIntermediate           |-> "CertExpired",
     FutureValidIntermediate       |-> "CertFutureValidity",
     CaSignerLeaf                  |-> "SignerIsCa",
     MismatchedLeafSan             |-> "LeafNameMismatch",
     PreEpochLeaf                  |-> "CertMalformed",
     CriticalExtensionLeaf         |-> "Unsupported",
     OrphanLeaf                    |-> "ChainBuildingMismatch",
     NonCaIntermediate             |-> "IntermediateNotCa",
     PreEpochIntermediate          |-> "CertMalformed",
     CriticalExtensionIntermediate |-> "Unsupported",
     SelfReferentialCertIds        |-> "ExcessivelyLongChain",
     MissingIntermediate           |-> "MissingIntermediate"]

\* test_prop_eku_policy: each certificate has to allow code signing, or say nothing.
EkuOutcome(config, n) ==
    IF \/ config.kind # "IntermediatesOnly" /\ config.leaf # {} /\ "CodeSigning" \notin config.leaf
       \/ /\ n > 0 /\ config.kind # "LeafOnly" /\ config.intermediate # {}
          /\ "CodeSigning" \notin config.intermediate
    THEN "RequiredEKU" ELSE "Ok"

\* NameConstraintScenario::permits.
Permits(constraint, name) ==
    \/ PermittedDomains[constraint] = {}
    \/ \E d \in PermittedDomains[constraint] : Len(d) <= Len(name) /\ SubSeq(name, 1, Len(d)) = d

\* test_prop_dc_pin.
PinOutcome(constraint, san, endpoint) ==
    IF \E name \in Sans[san] : ~Permits(constraint, name) THEN "ChainNameConstraint"
    ELSE IF endpoint \notin Sans[san] THEN "LeafNameMismatch"
    ELSE "Ok"

Seeded == {"ForgedIntermediate", "ExpiredIntermediate", "FutureValidIntermediate",
           "NonCaIntermediate", "PreEpochIntermediate", "CriticalExtensionIntermediate",
           "MissingIntermediate"}

\* The assertions of the mutators on the number of intermediates.
Needs(mutation) ==
    IF mutation \in {"PathLenViolation", "SelfReferentialCertIds"} THEN 2
    ELSE IF mutation \in Seeded THEN 1 ELSE 0

===============================================================================
