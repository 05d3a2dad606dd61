------------------------------ MODULE TrustStore ------------------------------
(***************************************************************************)
(* The trust store of rc-x509-trust: a cache of untrusted certificates     *)
(* that is shared by every connection, and the building of a candidate     *)
(* chain from a leaf to a root (build_unverified_chain_for), one cache     *)
(* lookup at a time while others insert and the cache evicts.              *)
(*                                                                         *)
(* A certificate is the pair of its id and its issuer's id.  Two different *)
(* certificates may carry the same id, the later one then takes the place  *)
(* of the earlier one in the cache.  The cryptographic verification of the *)
(* candidate is not part of validate yet, nor of this model.               *)
(***************************************************************************)
EXTENDS Naturals, Sequences, FiniteSets

CONSTANTS
    Ids,               \* certificate ids
    Roots,             \* those of the root certificates
    Certs,             \* certificates that anyone may present
    MaxIntermediates,  \* MAX_INTERMEDIATES
    Validators,        \* concurrent calls of validate
    NoCert, NoId

ASSUME TrustAssumption ==
    /\ Roots \subseteq Ids
    /\ Certs \subseteq [id : Ids, issuer : Ids]
    /\ NoCert \notin Certs
    /\ MaxIntermediates \in Nat

VARIABLES
    cache,    \* MemoryCertCache: the certificate held for each id
    pc,       \* where each call is, or its result
    leaf,     \* the signing certificate
    next,     \* next_cert_id
    chain,    \* the intermediates found so far
    stable    \* the cache has not changed since the call began

callVars == <<pc, leaf, next, chain>>
vars == <<cache, callVars, stable>>

Results == {"Ok", "MissingLeafCert", "MissingIntermediate", "ExcessivelyLongChain"}

TypeOK ==
    /\ cache \in [Ids -> Certs \cup {NoCert}]
    /\ pc \in [Validators -> {"idle", "building"} \cup Results]
    /\ leaf \in [Validators -> Certs \cup {NoCert}]
    /\ next \in [Validators -> Ids \cup {NoId}]
    /\ chain \in [Validators -> Seq(Certs)]
    /\ stable \in [Validators -> BOOLEAN]

Init ==
    /\ cache = [i \in Ids |-> NoCert]
    /\ pc = [v \in Validators |-> "idle"]
    /\ leaf = [v \in Validators |-> NoCert]
    /\ next = [v \in Validators |-> NoId]
    /\ chain = [v \in Validators |-> <<>>]
    /\ stable = [v \in Validators |-> TRUE]

-------------------------------------------------------------------------------
(* The cache *)

\* Mutant: certificates are filed under their issuer's id.
AddUnderIssuer(c) ==
    /\ cache[c.issuer] # c
    /\ cache' = [cache EXCEPT ![c.issuer] = c]
    /\ stable' = [v \in Validators |-> FALSE]
    /\ UNCHANGED callVars

\* TrustStore::add, one certificate.
Add(c) ==
    /\ cache[c.id] # c
    /\ cache' = [cache EXCEPT ![c.id] = c]
    /\ stable' = [v \in Validators |-> FALSE]
    /\ UNCHANGED callVars

\* An entry is removed, expires unused, or gives way when the cache is full.
Evict(i) ==
    /\ cache[i] # NoCert
    /\ cache' = [cache EXCEPT ![i] = NoCert]
    /\ stable' = [v \in Validators |-> FALSE]
    /\ UNCHANGED callVars

-------------------------------------------------------------------------------
(* validate *)

Goto(v, s) == pc' = [pc EXCEPT ![v] = s]

\* The leaf is looked up.
Validate(v, i) ==
    /\ pc[v] = "idle"
    /\ cache[i] # NoCert
    /\ Goto(v, "building")
    /\ leaf' = [leaf EXCEPT ![v] = cache[i]]
    /\ next' = [next EXCEPT ![v] = cache[i].issuer]
    /\ stable' = [stable EXCEPT ![v] = TRUE]
    /\ UNCHANGED <<cache, chain>>

ValidateUnknown(v, i) ==
    /\ pc[v] = "idle"
    /\ cache[i] = NoCert
    /\ Goto(v, "MissingLeafCert")
    /\ UNCHANGED <<cache, leaf, next, chain, stable>>

Complete(v) ==
    /\ pc[v] = "building" /\ next[v] \in Roots
    /\ Goto(v, "Ok")
    /\ UNCHANGED <<cache, leaf, next, chain, stable>>

\* Mutant: the bound is looked at before the roots.
ExcessiveFirst(v) ==
    /\ pc[v] = "building"
    /\ Len(chain[v]) >= MaxIntermediates
    /\ Goto(v, "ExcessivelyLongChain")
    /\ UNCHANGED <<cache, leaf, next, chain, stable>>

Excessive(v) ==
    /\ pc[v] = "building" /\ next[v] \notin Roots
    /\ Len(chain[v]) >= MaxIntermediates
    /\ Goto(v, "ExcessivelyLongChain")
    /\ UNCHANGED <<cache, leaf, next, chain, stable>>

Missing(v) ==
    /\ pc[v] = "building" /\ next[v] \notin Roots
    /\ Len(chain[v]) < MaxIntermediates
    /\ cache[next[v]] = NoCert
    /\ Goto(v, "MissingIntermediate")
    /\ UNCHANGED <<cache, leaf, next, chain, stable>>

\* Mutant: the issuer's entry is read a second time, for its issuer's id.
ExtendReread(v) ==
    LET issuer == cache[next[v]] IN
    /\ pc[v] = "building" /\ next[v] \notin Roots
    /\ Len(chain[v]) < MaxIntermediates
    /\ issuer # NoCert
    /\ next' \in {[next EXCEPT ![v] = c.issuer] : c \in {d \in Certs : d.id = issuer.id}}
    /\ chain' = [chain EXCEPT ![v] = Append(@, issuer)]
    /\ UNCHANGED <<cache, pc, leaf, stable>>

\* Mutant: the walk goes on without keeping the certificate.
ExtendForgets(v) ==
    LET issuer == cache[next[v]] IN
    /\ pc[v] = "building" /\ next[v] \notin Roots
    /\ Len(chain[v]) < MaxIntermediates
    /\ issuer # NoCert
    /\ next' = [next EXCEPT ![v] = issuer.issuer]
    /\ UNCHANGED <<cache, pc, leaf, chain, stable>>

\* The issuer is in the cache: keep it and go on with its own issuer.
Extend(v) ==
    LET issuer == cache[next[v]] IN
    /\ pc[v] = "building" /\ next[v] \notin Roots
    /\ Len(chain[v]) < MaxIntermediates
    /\ issuer # NoCert
    /\ next' = [next EXCEPT ![v] = issuer.issuer]
    /\ chain' = [chain EXCEPT ![v] = Append(@, issuer)]
    /\ UNCHANGED <<cache, pc, leaf, stable>>

\* The caller has its result, and may call again.
Return(v) ==
    /\ pc[v] \in Results
    /\ Goto(v, "idle")
    /\ leaf' = [leaf EXCEPT ![v] = NoCert]
    /\ next' = [next EXCEPT ![v] = NoId]
    /\ chain' = [chain EXCEPT ![v] = <<>>]
    /\ UNCHANGED <<cache, stable>>

-------------------------------------------------------------------------------
(* The specification *)

BuildStep(v) == Complete(v) \/ Excessive(v) \/ Missing(v) \/ Extend(v)

Next ==
    \/ \E c \in Certs : Add(c)
    \/ \E i \in Ids : Evict(i)
    \/ \E v \in Validators :
          \/ \E i \in Ids : Validate(v, i) \/ ValidateUnknown(v, i)
          \/ BuildStep(v)
          \/ Return(v)

Spec == Init /\ [][Next]_vars

\* The loop of a call that has begun runs on.
FairSpec == Spec /\ \A v \in Validators : WF_vars(BuildStep(v))

-------------------------------------------------------------------------------
(* Properties *)

\* The id that chain s, built for certificate c, asks for next.
Wanted(c, s) == IF s = <<>> THEN c.issuer ELSE s[Len(s)].issuer

\* Each certificate of s is the issuer of the one before it, the first of c, and
\* none of them is one where the walk should have stopped.
Linked(c, s) ==
    \A k \in 1..Len(s) :
        /\ s[k].id = IF k = 1 THEN c.issuer ELSE s[k - 1].issuer
        /\ s[k].id \notin Roots

\* The assertion of MemoryCertCache::get: an entry has the id it is looked up by.
GetAssertion == \A i \in Ids : cache[i] # NoCert => cache[i].id = i

\* Whatever happens to the cache while a chain is built, it is linked from the
\* leaf up to the id that is looked up next, and it passes over no root; that of
\* a call that returns Ok ends at a root.
ChainIsLinked ==
    \A v \in Validators : pc[v] \notin {"idle", "MissingLeafCert"} =>
        /\ Linked(leaf[v], chain[v])
        /\ next[v] = Wanted(leaf[v], chain[v])
        /\ pc[v] = "Ok" => next[v] \in Roots

\* No chain is longer than MAX_INTERMEDIATES, cycles in the cache included, and
\* none is called excessive that is not of that length.
ChainIsBounded ==
    \A v \in Validators :
        /\ Len(chain[v]) <= MaxIntermediates
        /\ pc[v] = "ExcessivelyLongChain" => Len(chain[v]) = MaxIntermediates

\* With the above, a call that is building has a leaf and an id to look up, and one
\* that has not begun has no chain.
CallsInv ==
    /\ TypeOK /\ GetAssertion /\ ChainIsLinked /\ ChainIsBounded
    /\ \A v \in Validators :
          /\ pc[v] \in {"idle", "MissingLeafCert"} => chain[v] = <<>>
          /\ pc[v] = "building" => leaf[v] \in Certs /\ next[v] \in Ids

Cached == {cache[i] : i \in Ids} \ {NoCert}

\* The chains of n cached certificates that lead up from c.
Paths(c, n) == {s \in [1..n -> Cached] : Linked(c, s)}

\* As long as the cache does not change, the chain of call v is all there is: every
\* path of cached certificates from its leaf agrees with it as far as both go.
OnlyPath(v) ==
    stable[v] /\ pc[v] \notin {"idle", "MissingLeafCert"} =>
        /\ leaf[v] \in Certs
        /\ \A k \in 1..Len(chain[v]) : chain[v][k] \in Cached
        /\ \A n \in 0..MaxIntermediates : \A s \in Paths(leaf[v], n) : \A k \in 1..n :
              k <= Len(chain[v]) => s[k] = chain[v][k]
        /\ pc[v] \in {"MissingIntermediate", "ExcessivelyLongChain"} => next[v] \notin Roots
        /\ pc[v] = "MissingIntermediate" =>
              cache[next[v]] = NoCert /\ Len(chain[v]) < MaxIntermediates

\* The inductive invariant.
IInv == CallsInv /\ \A v \in Validators : OnlyPath(v)

\* What validate should answer for leaf c, read off the cache as a whole.
Verdict(c) ==
    IF \E n \in 0..MaxIntermediates : \E s \in Paths(c, n) : Wanted(c, s) \in Roots
       THEN "Ok"
    ELSE IF Paths(c, MaxIntermediates) # {}
       THEN "ExcessivelyLongChain"
       ELSE "MissingIntermediate"

\* A call during which the cache did not change returns what the cache as a whole
\* says: a chain is found if and only if there is one of admissible length, and
\* the walk in one direction misses none.
VerdictIsRight ==
    \A v \in Validators :
        pc[v] \in Results \ {"MissingLeafCert"} /\ stable[v] => pc[v] = Verdict(leaf[v])

\* Chain building ends, even if certificates issue each other in a circle and the
\* cache keeps changing.
BuildingEnds == \A v \in Validators : pc[v] = "building" ~> pc[v] \in Results

===============================================================================
