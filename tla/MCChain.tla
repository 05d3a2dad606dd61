------------------------------- MODULE MCChain -------------------------------
(***************************************************************************)
(* What is presented to ChainVerify: the chains of the tests with one      *)
(* mutation or two, the key usage and name constraint configurations of    *)
(* the tests, certificates that do not parse, and certificates whose ids,  *)
(* names and signatures lead in different directions.                      *)
(***************************************************************************)
EXTENDS ChainVerify, TestIssuer

Any == "any"

Input(presented, leafCert, endpoint, expected) ==
    [presented |-> presented, signer |-> leafCert.ski,
     endpoint |-> endpoint, expected |-> expected]

Present(ch, endpoint, expected) ==
    Input(Append(ch.intermediates, ch.leaf), ch.leaf, endpoint, expected)

Mutations == DOMAIN ExpectedError
Simple    == Mutations \ {"SelfReferentialCertIds", "ForgedIntermediate", "MissingIntermediate"}
Seeds(mutation, n) == IF mutation \in Seeded THEN 0..(n - 1) ELSE {0}

Valid == {Present(TestChain(n), LeafSan, IF n <= MaxIntermediates THEN "Ok" ELSE "ExcessivelyLongChain") :
             n \in 0..(MaxIntermediates + 2)}

MutatedOnce ==
    UNION {UNION {{Present(Mutate(TestChain(n), m, s), LeafSan, ExpectedError[m]) :
                      s \in Seeds(m, n)} :
               n \in Needs(m)..MaxIntermediates} :
           m \in Mutations}

MutatedTwice ==
    UNION {{Present(Mutate(Mutate(TestChain(2), m, s), k, t), LeafSan, Any) :
               s \in Seeds(m, 2), t \in Seeds(k, 2)} :
           m \in Simple, k \in Simple}

Usages == SUBSET {"CodeSigning", "Any", "ServerAuth"}

KeyUsages ==
    {Present(SetEKUs(TestChain(n), c), LeafSan, EkuOutcome(c, n)) :
        n \in 0..2,
        c \in [kind : {"LeafOnly", "IntermediatesOnly", "IntermediatesAndLeaf"},
               intermediate : Usages, leaf : Usages]}

Pins ==
    {Present(SetNameConstraints(TestChain(n), c, s), e, PinOutcome(c, s, e)) :
        n \in 1..2, c \in DOMAIN PermittedDomains, s \in DOMAIN Sans, e \in {Bananas, US1}}

\* The second intermediate, or the leaf, has an id of some length, or bytes that are
\* not one certificate, or dates on the edge of the clock.
Edges ==
    LET ch == TestChain(2)
        Id(len) == [of |-> <<"id", 0>>, len |-> len]
        Changed(c) ==
            {[c EXCEPT !.aki = Id(n)] : n \in {0, 15, 16, 64, 65}}
            \cup {[c EXCEPT !.der = d] : d \in {"malformed", "trailing data"}}
            \cup {[c EXCEPT !.notBefore = b, !.notAfter = a] :
                    a \in {Now - 1, Now, 10000}, b \in {Now, Now + 1}}
    IN  {Present([ch EXCEPT !.leaf = c], LeafSan, Any) : c \in Changed(ch.leaf)}
        \cup {Present([ch EXCEPT !.intermediates[2] = c], LeafSan, Any) : c \in Changed(ch.intermediates[2])}

\* Two intermediates and a leaf, which may share its name and key with one of them,
\* linked at will.
Name(s) == <<s, 0>>

Linked3 ==
    LET X(i, a, s) == [NewIntermediate(Name("X"), CA, {}) EXCEPT !.issuer = i, !.aki = a, !.signer = s]
        Y(u, i, a, s) == [NewIntermediate(Name("Y"), CA, {}) EXCEPT
                             !.subject = u, !.issuer = i, !.aki = a, !.signer = s]
        L(u, i, s) == [NewLeaf(Name("L"), CA) EXCEPT
                          !.subject = u, !.key = u, !.issuer = i, !.aki = GenerateSki(Name("X")), !.signer = s]
        x == GenerateSki(Name("X"))
        y == GenerateSki(Name("Y"))
        Shapes == [xi : {NoName, Name("X"), Name("Y")}, xa : {CA.ski, CA2.ski, y}, xs : {CA.key, CA2.key, Name("Y")},
                   yu : {Name("X"), Name("Y")}, yi : {NoName, Name("X")}, ya : {CA.ski, x}, ys : {CA.key, Name("X")},
                   lu : {Name("L"), Name("Y")}, li : {Name("X"), Name("Y")}, ls : {Name("X"), Name("Y")}]
    IN  {Input(<<X(r.xi, r.xa, r.xs), Y(r.yu, r.yi, r.ya, r.ys), L(r.lu, r.li, r.ls)>>,
               L(r.lu, r.li, r.ls), LeafSan, Any) :
            r \in {q \in Shapes : q.lu = Name("Y") => q.yu = Name("Y") /\ q.li = Name("X")}}

MCRoots == <<CA2, CA>>

MCInputs == Valid \cup MutatedOnce \cup MutatedTwice \cup KeyUsages \cup Pins \cup Edges \cup Linked3

\* (The comprehensions have TLC enumerate the sets once.)
MCCerts == {c \in UNION {{i.presented[k] : k \in 1..Len(i.presented)} : i \in MCInputs} : Parses(c)}
MCPairs == {IdsOf(c) : c \in MCCerts}
MCIds == {id \in UNION {{p.id, p.issuer} : p \in MCPairs} \cup {CA.ski, CA2.ski} : IsCertId(id)}

\* The tests of the repository hold: a chain that is valid up to MAX_INTERMEDIATES is
\* accepted, and each mutation, key usage and name constraint has the very outcome
\* that arbitrary_invalid_chain, prop_eku_policy and prop_dc_pin assert.
OutcomeIsExpected == (pc = "done" /\ input.expected # Any) => verdict = input.expected

===============================================================================
