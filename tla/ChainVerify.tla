------------------------------ MODULE ChainVerify ------------------------------
(***************************************************************************)
(* What becomes of the certificates a server presents (rc-x509-trust):     *)
(* their DER is parsed and put in the trust store, a candidate chain is    *)
(* built for the signing certificate by following certificate ids, and     *)
(* verify_chain has webpki search it for a path to the root by following   *)
(* names, then compares the leaf's names with the endpoint.                *)
(*                                                                         *)
(* TrustStore::validate stops after the second stage today; verify_chain   *)
(* is the stage that follows it ("TODO: verify chain + signature").        *)
(*                                                                         *)
(* A certificate is a record.  A signature is the key that made it.  The   *)
(* search is that of webpki, which is not part of the repository: depth    *)
(* first, candidates in the order of the chain, without its limits on the  *)
(* number of steps and signatures.                                         *)
(***************************************************************************)
EXTENDS Integers, Sequences

CONSTANTS
    Inputs,            \* what may be presented, and the endpoint
    Roots,             \* RootSet, a sequence
    Ids,               \* certificate ids
    Pairs,             \* the ids of a certificate and its issuer, as presented
    MaxIntermediates,  \* MAX_INTERMEDIATES
    MaxSubCaCount,     \* webpki's limit on the depth of a path
    Now,               \* the local clock, in years since the Unix epoch
    NoCert, NoId

VARIABLES
    input,     \* the member of Inputs this is about
    pc,        \* the stage
    received,  \* how many of the presented certificates were received
    cache,     \* MemoryCertCache, from the ids it has
    leaf,      \* the signing certificate
    next,      \* next_cert_id
    root,      \* the root the candidate chain ends at
    chain,     \* the candidate chain, leaf to root
    path,      \* webpki's path above the leaf, as places in chain
    cursor,    \* the place in chain that the search looks at next
    err,       \* the error the search has for now
    verdict    \* the result

storeVars == <<received, cache>>
buildVars == <<leaf, next, root, chain>>
walkVars  == <<path, cursor, err>>
vars == <<input, pc, storeVars, buildVars, walkVars, verdict>>

-------------------------------------------------------------------------------
(* Parsing *)

\* CertId and IssuerCertId, from the extension or from bytes: no extension is a
\* length of 0.
IsCertId(id) == id.len \in 16..64
IsIssuerCertId(id) == IsCertId(id)

\* Validity::try_from: both times fit into a Timestamp, which their order does not
\* matter for.
Timestamps == -9999..9999
IsValidity(c) == c.notBefore \in Timestamps /\ c.notAfter \in Timestamps

\* Certificate::from_der: one certificate and no trailing data.
Parses(c) ==
    /\ c.der = "certificate"
    /\ IsValidity(c) /\ IsCertId(c.ski) /\ IsIssuerCertId(c.aki)

\* What building a chain looks at.
IdsOf(c) == [id |-> c.ski, issuer |-> c.aki]

Presented == {input.presented[k] : k \in 1..Len(input.presented)}

ASSUME ChainAssumption ==
    /\ MaxIntermediates \in Nat /\ MaxSubCaCount \in Nat /\ Now \in Int
    /\ NoId \notin Ids /\ NoCert \notin Pairs /\ Pairs \subseteq [id : Ids, issuer : Ids]
    /\ \A i \in Inputs :
          /\ i.signer \in Ids /\ Len(i.presented) \in Nat
          /\ \A k \in 1..Len(i.presented) :
                /\ i.presented[k] # NoCert
                /\ i.presented[k].pathLen \in Nat
                /\ Parses(i.presented[k]) => IdsOf(i.presented[k]) \in Pairs
    /\ \A k \in 1..Len(Roots) : Roots[k] # NoCert /\ Roots[k].ski \in Ids

Init ==
    /\ input \in Inputs
    /\ pc = "receive" /\ received = 0
    /\ cache = [i \in {} |-> NoCert]
    /\ leaf = NoCert /\ next = NoId /\ root = NoCert /\ chain = <<>>
    /\ path = <<>> /\ cursor = 1 /\ err = "UnknownIssuer"
    /\ verdict = "none"

\* MemoryCertCache::insert replaces what was there under the id.
Insert(c) == cache' = [i \in DOMAIN cache \cup {c.ski} |-> IF i = c.ski THEN c ELSE cache[i]]

\* UntrustedCertBytes::parse and TrustStore::add for the next certificate.
Receive ==
    /\ pc = "receive" /\ received < Len(input.presented)
    /\ LET c == input.presented[received + 1]
       IN  IF Parses(c) THEN Insert(c) ELSE UNCHANGED cache
    /\ received' = received + 1
    /\ UNCHANGED <<input, pc, buildVars, walkVars, verdict>>

-------------------------------------------------------------------------------
(* Building the candidate chain *)

Return(result) ==
    /\ pc' = "done"
    /\ verdict' = result

\* TrustStore::validate: the leaf is looked up.
Lookup ==
    /\ pc = "receive" /\ received = Len(input.presented)
    /\ \/ /\ input.signer \notin DOMAIN cache
          /\ Return("MissingLeafCert")
          /\ UNCHANGED <<leaf, next>>
       \/ /\ input.signer \in DOMAIN cache
          /\ leaf' = cache[input.signer] /\ next' = leaf'.aki
          /\ pc' = "build" /\ UNCHANGED verdict
    /\ UNCHANGED <<input, storeVars, root, chain, walkVars>>

\* The roots with the id, of which RootSet::find gives the first.
Found(id) == {k \in 1..Len(Roots) : Roots[k].ski = id}

Complete ==
    /\ pc = "build"
    /\ \E k \in Found(next) : (\A j \in Found(next) : k <= j) /\ root' = Roots[k]
    /\ pc' = "endEntity"
    /\ UNCHANGED <<input, storeVars, leaf, next, chain, walkVars, verdict>>

\* Mutant: one more certificate fits into the chain.
ExtendBeyond ==
    /\ pc = "build" /\ Found(next) = {}
    /\ Len(chain) <= MaxIntermediates /\ next \in DOMAIN cache
    /\ chain' = Append(chain, cache[next]) /\ next' = cache[next].aki
    /\ UNCHANGED <<input, pc, storeVars, leaf, root, walkVars, verdict>>

Extend ==
    /\ pc = "build" /\ Found(next) = {}
    /\ Len(chain) < MaxIntermediates /\ next \in DOMAIN cache
    /\ chain' = Append(chain, cache[next]) /\ next' = cache[next].aki
    /\ UNCHANGED <<input, pc, storeVars, leaf, root, walkVars, verdict>>

BuildFails ==
    /\ pc = "build" /\ Found(next) = {}
    /\ \/ Len(chain) >= MaxIntermediates /\ Return("ExcessivelyLongChain")
       \/ Len(chain) < MaxIntermediates /\ next \notin DOMAIN cache /\ Return("MissingIntermediate")
    /\ UNCHANGED <<input, storeVars, buildVars, walkVars>>

-------------------------------------------------------------------------------
(* Verification *)

\* From<webpki::Error> for ChainVerifyError.
Malformed == {"BadDer", "BadDerTime", "EmptyEkuExtension", "ExtensionValueInvalid",
    "InvalidCertValidity", "InvalidSerialNumber", "InvalidNetworkMaskConstraint",
    "MalformedDnsIdentifier", "MalformedExtensions", "MalformedNameConstraint",
    "SignatureAlgorithmMismatch", "TrailingData"}

Limits == {"MaximumNameConstraintComparisonsExceeded", "MaximumPathBuildCallsExceeded",
    "MaximumPathDepthExceeded", "MaximumSignatureChecksExceeded"}

ChainVerifyError(e) ==
    CASE e \in Malformed                       -> "CertMalformed"
      [] e = "InvalidSignatureForPublicKey"    -> "CertSignatureInvalid"
      [] e \in Limits                          -> "ChainWalkLimits"
      [] e = "CertExpired"                     -> "CertExpired"
      [] e = "CertNotValidYet"                 -> "CertFutureValidity"
      [] e = "UnknownIssuer"                   -> "ChainBuildingMismatch"
      [] e = "NameConstraintViolation"         -> "ChainNameConstraint"
      [] e = "PathLenConstraintViolated"       -> "PathLen"
      [] e = "CaUsedAsEndEntity"               -> "SignerIsCa"
      [] e = "EndEntityUsedAsCa"               -> "IntermediateNotCa"
      [] e = "CertNotValidForName"             -> "LeafNameMismatch"
      [] e = "RequiredEkuNotFoundContext"      -> "RequiredEKU"
      [] e = "UnsupportedCriticalExtension"    -> "Unsupported"

\* The leaf and what the path p adds to it, leaf first.
Walk(p) == [k \in 1..(Len(p) + 1) |-> IF k = 1 THEN leaf ELSE chain[p[k - 1]]]
HeadCert == Walk(path)[Len(path) + 1]

\* Mutant: one key usage that is allowed is enough for the whole set.
EKUPolicyAny(c) == c.eku # {"ServerAuth"}

\* EKUPolicy::validate: codeSigning, or no extension.
EKUPolicy(c) == c.eku = {} \/ "CodeSigning" \in c.eku

\* webpki, what it asks of the k-th certificate of a path by itself, in this order.
CertError(c, k) ==
    IF c.notBefore < 0 \/ c.notAfter < 0 THEN "BadDerTime"
    ELSE IF c.notBefore > c.notAfter     THEN "InvalidCertValidity"
    ELSE IF Now < c.notBefore            THEN "CertNotValidYet"
    ELSE IF Now > c.notAfter             THEN "CertExpired"
    ELSE IF k = 1 /\ c.isCa              THEN "CaUsedAsEndEntity"
    ELSE IF k > 1 /\ ~c.isCa             THEN "EndEntityUsedAsCa"
    ELSE IF k > 1 /\ k - 2 > c.pathLen   THEN "PathLenConstraintViolated"
    ELSE IF ~EKUPolicy(c)                THEN "RequiredEkuNotFoundContext"
    ELSE "none"

\* webpki: each certificate of w is signed with the key of the one above it.
Signed(w) ==
    \A k \in 1..Len(w) : w[k].signer = IF k = Len(w) THEN root.key ELSE w[k + 1].key

\* A domain, a sequence of labels from the top, is d or below it.
Within(name, d) == Len(d) <= Len(name) /\ SubSeq(name, 1, Len(d)) = d

\* webpki: the names of all certificates below it are permitted by each one of w.
Permitted(w) ==
    \A k \in 2..Len(w) : w[k].permitted # {} =>
        \A j \in 1..(k - 1) : \A name \in w[j].sans :
            \E d \in w[k].permitted : Within(name, d)

AnchorError(w) ==
    IF w[Len(w)].issuer # root.subject THEN "UnknownIssuer"
    ELSE IF ~Signed(w)                 THEN "InvalidSignatureForPublicKey"
    ELSE IF ~Permitted(w)              THEN "NameConstraintViolation"
    ELSE "none"

\* webpki reports the most specific error it met, and UnknownIssuer if it met no
\* other; which of two others is the more specific is left open.
Specific(new) ==
    IF err = "UnknownIssuer" THEN err' = new
    ELSE IF new = "UnknownIssuer" THEN err' = err
    ELSE err' \in {err, new}

\* verify_chain, EndEntityCert::try_from.
EndEntity ==
    /\ pc = "endEntity"
    /\ IF leaf.critical THEN Return(ChainVerifyError("UnsupportedCriticalExtension"))
                        ELSE pc' = "head" /\ UNCHANGED verdict
    /\ UNCHANGED <<input, storeVars, buildVars, walkVars>>

\* The certificate the path has come to is looked at by itself.  A failure ends
\* this branch of the search.
CheckHead ==
    LET e == CertError(HeadCert, Len(path) + 1) IN
    /\ pc = "head"
    /\ IF e = "none" THEN pc' = "anchor" /\ UNCHANGED <<cursor, err>>
       ELSE pc' = "issuers" /\ cursor' = Len(chain) + 1 /\ Specific(e)
    /\ UNCHANGED <<input, storeVars, buildVars, path, verdict>>

TryAnchor ==
    LET e == AnchorError(Walk(path)) IN
    /\ pc = "anchor"
    /\ IF e = "none" THEN pc' = "name" /\ UNCHANGED <<cursor, err>>
       ELSE pc' = "issuers" /\ cursor' = 1 /\ Specific(e)
    /\ UNCHANGED <<input, storeVars, buildVars, path, verdict>>

\* The certificate is on the path already.
OnPath(c) ==
    \E k \in 1..(Len(path) + 1) : Walk(path)[k].key = c.key /\ Walk(path)[k].subject = c.subject

\* A candidate is passed over, with an error or as not the issuer.
SkipIssuer ==
    /\ pc = "issuers" /\ cursor <= Len(chain)
    /\ LET c == chain[cursor] IN
       \/ c.critical /\ Specific("UnsupportedCriticalExtension")
       \/ /\ ~c.critical /\ (c.subject # HeadCert.issuer \/ OnPath(c))
          /\ Specific("UnknownIssuer")
       \/ /\ ~c.critical /\ c.subject = HeadCert.issuer /\ ~OnPath(c)
          /\ Len(path) >= MaxSubCaCount
          /\ Specific("MaximumPathDepthExceeded")
    /\ cursor' = cursor + 1
    /\ UNCHANGED <<input, pc, storeVars, buildVars, path, verdict>>

TakeIssuer ==
    /\ pc = "issuers" /\ cursor <= Len(chain)
    /\ LET c == chain[cursor] IN
       ~c.critical /\ c.subject = HeadCert.issuer /\ ~OnPath(c)
    /\ Len(path) < MaxSubCaCount
    /\ path' = Append(path, cursor)
    /\ pc' = "head"
    /\ UNCHANGED <<input, storeVars, buildVars, cursor, err, verdict>>

\* Mutant: the search gives up with its first branch.
BacktrackGivesUp ==
    /\ pc = "issuers" /\ cursor > Len(chain)
    /\ Return(ChainVerifyError(err))
    /\ UNCHANGED <<input, storeVars, buildVars, walkVars>>

\* No candidate is left here: go on with the next one for the certificate below.
Backtrack ==
    /\ pc = "issuers" /\ cursor > Len(chain)
    /\ IF path = <<>>
       THEN Return(ChainVerifyError(err)) /\ UNCHANGED <<path, cursor>>
       ELSE /\ path' = SubSeq(path, 1, Len(path) - 1)
            /\ cursor' = path[Len(path)] + 1
            /\ UNCHANGED <<pc, verdict>>
    /\ UNCHANGED <<input, storeVars, buildVars, err>>

\* Mutant: the endpoint is not compared with the leaf's names.
CheckNameForgotten ==
    /\ pc = "name"
    /\ Return("Ok")
    /\ UNCHANGED <<input, storeVars, buildVars, walkVars>>

\* verify_chain, the leaf's names and the endpoint's.
CheckName ==
    /\ pc = "name"
    /\ Return(IF input.endpoint \in leaf.sans THEN "Ok"
                                              ELSE ChainVerifyError("CertNotValidForName"))
    /\ UNCHANGED <<input, storeVars, buildVars, walkVars>>

-------------------------------------------------------------------------------
(* The specification *)

Build  == Lookup \/ Complete \/ Extend \/ BuildFails
Verify == EndEntity \/ CheckHead \/ TryAnchor \/ SkipIssuer \/ TakeIssuer \/ Backtrack \/ CheckName

Finished == pc = "done" /\ UNCHANGED vars

Next == Receive \/ Build \/ Verify \/ Finished

Spec == Init /\ [][Next]_vars

-------------------------------------------------------------------------------
(* Properties *)

\* The trust store, with certificates reduced to their ids.
Store == INSTANCE TrustStore WITH
    Roots      <- {Roots[k].ski : k \in 1..Len(Roots)},
    Certs      <- Pairs,
    Validators <- {"validate"},
    cache      <- [i \in Ids |-> IF i \in DOMAIN cache THEN IdsOf(cache[i]) ELSE NoCert],
    pc         <- [v \in {"validate"} |->
                     IF pc = "receive" THEN "idle"
                     ELSE IF pc = "build" THEN "building"
                     ELSE IF pc = "done" /\ root = NoCert THEN verdict ELSE "Ok"],
    leaf       <- [v \in {"validate"} |-> IF leaf = NoCert THEN NoCert ELSE IdsOf(leaf)],
    next       <- [v \in {"validate"} |-> next],
    chain      <- [v \in {"validate"} |-> [k \in 1..Len(chain) |-> IdsOf(chain[k])]],
    stable     <- [v \in {"validate"} |-> leaf # NoCert \/ DOMAIN cache = {}]

\* Storing the certificates and building the chain is what the specification of the
\* trust store allows, and verification leaves the store alone.
ImplementsStore == Store!Spec

\* What makes a certificate trusted, with w the certificates from it to a root.
Authentic(w) ==
    /\ Signed(w) /\ Permitted(w)
    /\ w[Len(w)].issuer = root.subject
    /\ \A k \in 1..(Len(w) - 1) : w[k].issuer = w[k + 1].subject
    /\ \A k \in 1..Len(w) :
          /\ w[k] \in Presented /\ ~w[k].critical
          /\ 0 <= w[k].notBefore /\ w[k].notBefore <= Now /\ Now <= w[k].notAfter
          /\ EKUPolicy(w[k])
          /\ w[k].isCa <=> k > 1
          /\ k > 1 => k - 2 <= w[k].pathLen
    /\ \E k \in 1..Len(Roots) : root = Roots[k]

\* A certificate is accepted only with a path of presented certificates to a known
\* root, each one signed by the next, within its validity, of the role it has and
\* within all constraints above it; and only for an endpoint it names ("If it is
\* proven that cert descends from root via a valid chain", verify_chain).
AcceptedIsAuthentic ==
    verdict = "Ok" =>
        /\ Authentic(Walk(path)) /\ Len(path) <= MaxSubCaCount
        /\ leaf.ski = input.signer /\ input.endpoint \in leaf.sans

\* A certificate above the leaf has the leaf's name and key: webpki takes it for a
\* loop (OnPath) and goes no further.
LeafAgain(w) == \E k \in 2..Len(w) : w[k].key = w[1].key /\ w[k].subject = w[1].subject

\* The paths through the candidate chain, certificates more than once included.
ChainPaths == UNION {[1..n -> 1..Len(chain)] : n \in 0..Len(chain)}

Refused == pc = "done" /\ root # NoCert /\ verdict # "Ok" /\ input.endpoint \in leaf.sans

\* A certificate with a candidate chain is refused only if no path through that
\* chain makes it trusted for the endpoint, save one that returns to the leaf's own
\* name and key: the search misses no other.
RejectedHasNoPath ==
    Refused => \A p \in ChainPaths : Authentic(Walk(p)) => LeafAgain(Walk(p))

\* "MAX_INTERMEDIATES matches the path depth limit internal to the verifier, so an
\* over-long chain is rejected here and never reaches verify_chain()".
DepthLimitNotReached == verdict # "ChainWalkLimits"

-------------------------------------------------------------------------------
(* The inductive invariant *)

\* What the store and the chain hold: presented, and parsed.
Parsed == {c \in Presented : Parses(c)}

StoreInv ==
    /\ input \in Inputs /\ received \in 0..Len(input.presented)
    /\ \A i \in DOMAIN cache : cache[i] \in Parsed /\ cache[i].ski = i

WebpkiErrors ==
    Malformed \cup Limits \cup
    {"InvalidSignatureForPublicKey", "CertExpired", "CertNotValidYet", "UnknownIssuer",
     "NameConstraintViolation", "PathLenConstraintViolated", "CaUsedAsEndEntity",
     "EndEntityUsedAsCa", "CertNotValidForName", "RequiredEkuNotFoundContext",
     "UnsupportedCriticalExtension"}

Searching == pc \in {"head", "anchor", "issuers", "name"}

BuildInv ==
    /\ chain \in Seq(Parsed)
    /\ pc = "receive" => leaf = NoCert /\ root = NoCert
    /\ pc = "build" => root = NoCert /\ next \in Ids
    /\ pc \notin {"receive", "done"} => leaf \in Parsed /\ leaf.ski = input.signer
    /\ pc = "endEntity" \/ Searching => \E k \in 1..Len(Roots) : root = Roots[k]

\* The search: every certificate under the head was looked at and found right, and
\* has the name that the one below it gives as its issuer; a failed head is left
\* with no candidate to look at.
WalkInv ==
    /\ path \in Seq(1..Len(chain)) /\ Len(path) <= MaxSubCaCount
    /\ cursor \in Nat \ {0} /\ err \in WebpkiErrors
    /\ pc \in {"receive", "build", "endEntity"} => path = <<>>
    /\ Searching =>
          /\ ~leaf.critical
          /\ \A k \in 1..Len(path) :
                /\ CertError(Walk(path)[k], k) = "none"
                /\ ~Walk(path)[k + 1].critical
                /\ Walk(path)[k].issuer = Walk(path)[k + 1].subject
    /\ pc \in {"anchor", "name"} \/ (pc = "issuers" /\ cursor <= Len(chain)) =>
          CertError(HeadCert, Len(path) + 1) = "none"
    /\ pc = "name" => AnchorError(Walk(path)) = "none"

IInv ==
    /\ StoreInv /\ BuildInv /\ WalkInv
    /\ pc # "done" => verdict # "Ok"
    /\ AcceptedIsAuthentic

\* For DepthLimitNotReached: the chain is no longer than the limit, and no certificate
\* of it is on the path twice.
DepthInv ==
    /\ Len(chain) <= MaxIntermediates
    /\ \A j, k \in 1..Len(path) : path[j] = path[k] => j = k
    /\ err \notin Limits
    /\ DepthLimitNotReached

\* For RejectedHasNoPath: no path the search has gone past is one that makes the leaf
\* trusted, unless it holds a name and key twice.
LoopFree(w) ==
    \A j, k \in 1..Len(w) : w[j].key = w[k].key /\ w[j].subject = w[k].subject => j = k

Sound(p) == Authentic(Walk(p)) /\ LoopFree(Walk(p))

\* Depth first: a path comes before the ones that continue it, and those come in the
\* order of the chain.
Continues(p, q) == Len(p) >= Len(q) /\ \A k \in 1..Len(q) : p[k] = q[k]

Before(p, q) ==
    \/ \E k \in 1..Len(q) : k <= Len(p) /\ p[k] < q[k] /\ \A j \in 1..(k - 1) : p[j] = q[j]
    \/ Len(p) < Len(q) /\ Continues(q, p)

Passed(p) ==
    \/ Before(p, path)
    \/ /\ pc = "issuers" /\ Continues(p, path)
       /\ Len(p) = Len(path) \/ p[Len(path) + 1] < cursor

SearchInv ==
    /\ pc \in {"head", "anchor", "issuers"} => \A p \in ChainPaths : Passed(p) => ~Sound(p)
    /\ Refused => \A p \in ChainPaths : ~Sound(p)

===============================================================================
