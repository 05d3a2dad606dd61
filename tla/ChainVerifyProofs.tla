--------------------------- MODULE ChainVerifyProofs ---------------------------
(***************************************************************************)
(* Proofs about ChainVerify, for any presented certificates, any roots,    *)
(* any clock and any limits.                                               *)
(***************************************************************************)
EXTENDS ChainVerify, FiniteSetTheorems, TLAPS

-------------------------------------------------------------------------------
(* Sequences *)

LEMMA ElementOfSeq ==
    ASSUME NEW S, NEW seq \in Seq(S), NEW n \in 1..Len(seq)
    PROVE  seq[n] \in S
OBVIOUS

LEMMA EmptySeq ==
    ASSUME NEW S
    PROVE  <<>> \in Seq(S) /\ Len(<<>>) = 0 /\ \A s \in Seq(S) : s # <<>> => Len(s) \in Nat \ {0}
OBVIOUS

LEMMA LenProperties ==
    ASSUME NEW S, NEW seq \in Seq(S)
    PROVE  Len(seq) \in Nat /\ seq \in [1..Len(seq) -> S] /\ DOMAIN seq = 1..Len(seq)
OBVIOUS

LEMMA SubSeqProperties ==
    ASSUME NEW S, NEW s, NEW m \in Int, NEW n \in Int, \A i \in m..n : s[i] \in S
    PROVE  /\ SubSeq(s, m, n) \in Seq(S)
           /\ Len(SubSeq(s, m, n)) = IF m <= n THEN n - m + 1 ELSE 0
           /\ \A i \in 1..(n - m + 1) : SubSeq(s, m, n)[i] = s[m + i - 1]
OBVIOUS

LEMMA AppendProperties ==
    ASSUME NEW S, NEW seq \in Seq(S), NEW elt \in S
    PROVE  /\ Append(seq, elt) \in Seq(S) /\ Append(seq, elt) # <<>>
           /\ Len(Append(seq, elt)) = Len(seq) + 1
           /\ \A i \in 1..Len(seq) : Append(seq, elt)[i] = seq[i]
           /\ Append(seq, elt)[Len(seq) + 1] = elt
OBVIOUS

\* No error is reported as Ok.
LEMMA ErrorsAreErrors == \A e \in WebpkiErrors : ChainVerifyError(e) # "Ok"
<1> SUFFICES ASSUME NEW e \in WebpkiErrors PROVE ChainVerifyError(e) # "Ok"
  OBVIOUS
<1> QED BY DEF WebpkiErrors, ChainVerifyError, Malformed, Limits

LEMMA CertErrorType ==
    ASSUME NEW c, NEW k PROVE CertError(c, k) \in WebpkiErrors \cup {"none"}
BY DEF CertError, WebpkiErrors, Malformed, Limits

LEMMA AnchorErrorType ==
    ASSUME NEW w PROVE AnchorError(w) \in WebpkiErrors \cup {"none"}
BY DEF AnchorError, WebpkiErrors

LEMMA SpecificType ==
    ASSUME err \in WebpkiErrors, NEW e \in WebpkiErrors, Specific(e)
    PROVE  err' \in WebpkiErrors
BY DEF Specific

\* The walk starts with the leaf and goes on with what the path names.
LEMMA WalkType ==
    ASSUME NEW p \in Seq(1..Len(chain))
    PROVE  /\ Len(Walk(p)) = Len(p) + 1
           /\ Walk(p)[1] = leaf
           /\ \A k \in 1..Len(p) : Walk(p)[k + 1] = chain[p[k]]
<1>1. Len(p) \in Nat
  BY LenProperties
<1> QED BY <1>1 DEF Walk

LEMMA WalkParsed ==
    ASSUME NEW p \in Seq(1..Len(chain)), leaf \in Parsed, chain \in Seq(Parsed)
    PROVE  \A k \in 1..(Len(p) + 1) : Walk(p)[k] \in Parsed
<1>1. Len(p) \in Nat /\ \A k \in 1..Len(p) : p[k] \in 1..Len(chain)
  BY LenProperties, ElementOfSeq
<1>2. \A k \in 1..Len(chain) : chain[k] \in Parsed
  BY ElementOfSeq
<1> QED BY <1>1, <1>2 DEF Walk

\* What parses is a certificate of the trust store.
LEMMA ParsedIds ==
    ASSUME StoreInv, NEW c \in Parsed
    PROVE  /\ c # NoCert /\ IdsOf(c) \in Pairs /\ IdsOf(c) # NoCert
           /\ c.ski \in Ids /\ c.aki \in Ids
<1>1. c # NoCert /\ IdsOf(c) \in Pairs
  BY ChainAssumption DEF StoreInv, Parsed, Presented
<1>2. IdsOf(c).id \in Ids /\ IdsOf(c).issuer \in Ids
  BY <1>1, ChainAssumption
<1> QED BY <1>1, <1>2, ChainAssumption DEF IdsOf

USE ZenonT(30)

LEMMA InitIInv == Init => IInv
<1> SUFFICES ASSUME Init PROVE IInv
  OBVIOUS
<1>1. StoreInv
  BY SMTT(30), ChainAssumption DEF Init, StoreInv
<1>2. BuildInv
  <2>1. <<>> \in Seq(Parsed)
    BY EmptySeq
  <2> QED BY <2>1 DEF Init, BuildInv, Searching
<1>3. WalkInv
  <2>1. <<>> \in Seq(1..Len(chain)) /\ Len(<<>>) = 0
    BY EmptySeq
  <2> QED BY SMTT(30), <2>1, ChainAssumption DEF Init, WalkInv, Searching, WebpkiErrors
<1> QED BY <1>1, <1>2, <1>3 DEF Init, IInv, AcceptedIsAuthentic

\* A certificate that parses is stored under its id.
LEMMA ReceiveIInv == IInv /\ Receive => IInv'
<1> SUFFICES ASSUME IInv, Receive PROVE IInv'
  OBVIOUS
<1> USE DEF IInv
<1>0. Parsed' = Parsed
  BY DEF Receive, Parsed, Presented
<1>1. received + 1 \in 1..Len(input.presented)
  BY SMTT(30), ChainAssumption DEF Receive, StoreInv
<1>2. \A i \in DOMAIN cache' : cache'[i] \in Parsed /\ cache'[i].ski = i
  <2> DEFINE c == input.presented[received + 1]
  <2>1. CASE Parses(c)
    <3>1. c \in Parsed
      BY <1>1, <2>1 DEF Parsed, Presented
    <3> QED BY SMTT(30), <2>1, <3>1 DEF Receive, Insert, StoreInv
  <2>2. CASE ~Parses(c)
    BY <2>2 DEF Receive, StoreInv
  <2> QED BY <2>1, <2>2
<1>3. StoreInv'
  BY SMTT(30), <1>0, <1>1, <1>2 DEF Receive, StoreInv
<1>4. BuildInv'
  BY <1>0 DEF Receive, BuildInv, buildVars, Searching
<1>5. WalkInv'
  BY DEF Receive, WalkInv, walkVars, buildVars, Searching
<1> QED BY <1>3, <1>4, <1>5 DEF Receive, AcceptedIsAuthentic

\* What none of the steps after the last certificate touches.
LEMMA StoreKept ==
    ASSUME IInv, UNCHANGED <<input, storeVars>>
    PROVE  StoreInv' /\ Parsed' = Parsed
<1>1. UNCHANGED <<input, received, cache>> /\ StoreInv
  BY DEF IInv, storeVars
<1>2. Parsed' = Parsed
  BY <1>1 DEF Parsed, Presented
<1> QED BY <1>1, <1>2 DEF StoreInv

LEMMA LookupIInv == IInv /\ Lookup => IInv'
<1> SUFFICES ASSUME IInv, Lookup PROVE IInv'
  OBVIOUS
<1> USE DEF IInv
<1>1. StoreInv' /\ Parsed' = Parsed
  BY StoreKept DEF Lookup
<1>2. BuildInv'
  BY SMTT(30), <1>1, ParsedIds DEF Lookup, Return, BuildInv, StoreInv, Searching
<1>3. WalkInv'
  BY DEF Lookup, Return, WalkInv, walkVars, Searching
<1> QED BY <1>1, <1>2, <1>3 DEF Lookup, Return, AcceptedIsAuthentic

LEMMA CompleteIInv == IInv /\ Complete => IInv'
<1> SUFFICES ASSUME IInv, Complete PROVE IInv'
  OBVIOUS
<1> USE DEF IInv
<1>1. StoreInv' /\ Parsed' = Parsed
  BY StoreKept DEF Complete
<1>2. BuildInv'
  BY <1>1 DEF Complete, BuildInv, Found, Searching
<1>3. WalkInv'
  BY DEF Complete, WalkInv, walkVars, Searching
<1> QED BY <1>1, <1>2, <1>3 DEF Complete, AcceptedIsAuthentic

LEMMA ExtendIInv == IInv /\ Extend => IInv'
<1> SUFFICES ASSUME IInv, Extend PROVE IInv'
  OBVIOUS
<1> USE DEF IInv
<1>1. StoreInv' /\ Parsed' = Parsed
  BY StoreKept DEF Extend
<1>2. chain' \in Seq(Parsed)
  BY AppendProperties DEF Extend, BuildInv, StoreInv
<1>3. BuildInv'
  BY <1>1, <1>2, ParsedIds DEF Extend, BuildInv, StoreInv, Searching
<1>4. WalkInv'
  <2>1. path = <<>> /\ <<>> \in Seq(1..Len(chain')) /\ Len(<<>>) = 0
    BY EmptySeq DEF Extend, WalkInv
  <2> QED BY <2>1 DEF Extend, WalkInv, walkVars, Searching
<1> QED BY <1>1, <1>3, <1>4 DEF Extend, AcceptedIsAuthentic

LEMMA BuildFailsIInv == IInv /\ BuildFails => IInv'
<1> SUFFICES ASSUME IInv, BuildFails PROVE IInv'
  OBVIOUS
<1> USE DEF IInv
<1>1. StoreInv' /\ Parsed' = Parsed
  BY StoreKept DEF BuildFails
<1>2. BuildInv'
  BY <1>1 DEF BuildFails, Return, BuildInv, buildVars, Searching
<1>3. WalkInv'
  BY DEF BuildFails, Return, WalkInv, walkVars, buildVars, Searching
<1> QED BY <1>1, <1>2, <1>3 DEF BuildFails, Return, AcceptedIsAuthentic

-------------------------------------------------------------------------------
(* The search *)

\* What a step of the search leaves alone.
LEMMA SearchKept ==
    ASSUME IInv, Searching \/ pc = "endEntity", pc' \notin {"receive", "build"},
           UNCHANGED <<input, storeVars, buildVars>>
    PROVE  /\ StoreInv' /\ BuildInv' /\ Parsed' = Parsed
           /\ path' = path => Walk(path)' = Walk(path) /\ HeadCert' = HeadCert
<1>1. StoreInv' /\ Parsed' = Parsed
  BY StoreKept
<1>2. BuildInv'
  BY <1>1 DEF IInv, BuildInv, buildVars, Searching
<1>3. path' = path => Walk(path)' = Walk(path) /\ HeadCert' = HeadCert
  BY DEF buildVars, Walk, HeadCert
<1> QED BY <1>1, <1>2, <1>3

LEMMA EndEntityIInv == IInv /\ EndEntity => IInv'
<1> SUFFICES ASSUME IInv, EndEntity PROVE IInv'
  OBVIOUS
<1>1. StoreInv' /\ BuildInv'
  BY SearchKept DEF EndEntity, Return
<1>2. WalkInv' /\ verdict' # "Ok"
  <2>1. ChainVerifyError("UnsupportedCriticalExtension") # "Ok"
    BY ErrorsAreErrors DEF WebpkiErrors
  <2>2. path = <<>> /\ Len(<<>>) = 0
    BY EmptySeq DEF IInv, WalkInv, EndEntity
  <2> QED BY SMTT(30), <2>1, <2>2 DEF IInv, EndEntity, Return, WalkInv, walkVars, buildVars, Searching
<1> QED BY <1>1, <1>2 DEF IInv, AcceptedIsAuthentic

LEMMA CheckHeadIInv == IInv /\ CheckHead => IInv'
<1> SUFFICES ASSUME IInv, CheckHead PROVE IInv'
  OBVIOUS
<1> DEFINE e == CertError(HeadCert, Len(path) + 1)
<1>1. /\ StoreInv' /\ BuildInv' /\ path' = path
      /\ Walk(path)' = Walk(path) /\ HeadCert' = HeadCert
  BY SearchKept DEF CheckHead, Searching
<1>2. /\ pc' = "anchor" /\ e = "none" /\ cursor' = cursor /\ err' = err
      \/ /\ pc' = "issuers" /\ cursor' = Len(chain) + 1 /\ err' \in WebpkiErrors
  BY CertErrorType, SpecificType DEF CheckHead, IInv, WalkInv
<1>3. Len(chain) \in Nat
  BY LenProperties DEF IInv, BuildInv
<1>4. WalkInv'
  BY SMTT(30), <1>1, <1>2, <1>3 DEF CheckHead, IInv, WalkInv, buildVars, Searching
<1> QED BY <1>1, <1>2, <1>4 DEF CheckHead, IInv, AcceptedIsAuthentic

LEMMA TryAnchorIInv == IInv /\ TryAnchor => IInv'
<1> SUFFICES ASSUME IInv, TryAnchor PROVE IInv'
  OBVIOUS
<1> DEFINE e == AnchorError(Walk(path))
<1>1. /\ StoreInv' /\ BuildInv' /\ path' = path
      /\ Walk(path)' = Walk(path) /\ HeadCert' = HeadCert
  BY SearchKept DEF TryAnchor, Searching
<1>2. /\ pc' = "name" /\ e = "none" /\ cursor' = cursor /\ err' = err
      \/ /\ pc' = "issuers" /\ cursor' = 1 /\ err' \in WebpkiErrors
  BY AnchorErrorType, SpecificType DEF TryAnchor, IInv, WalkInv
<1>3. e = "none" => AnchorError(Walk(path))' = "none"
  BY <1>1 DEF TryAnchor, AnchorError, Signed, Permitted, buildVars
<1>4. WalkInv'
  BY SMTT(30), <1>1, <1>2, <1>3 DEF TryAnchor, IInv, WalkInv, buildVars, Searching
<1> QED BY <1>1, <1>2, <1>4 DEF TryAnchor, IInv, AcceptedIsAuthentic

LEMMA SkipIssuerIInv == IInv /\ SkipIssuer => IInv'
<1> SUFFICES ASSUME IInv, SkipIssuer PROVE IInv'
  OBVIOUS
<1>1. /\ StoreInv' /\ BuildInv' /\ path' = path
      /\ Walk(path)' = Walk(path) /\ HeadCert' = HeadCert
  BY SearchKept DEF SkipIssuer, Searching
<1>2. err' \in WebpkiErrors
  <2>1. /\ "UnsupportedCriticalExtension" \in WebpkiErrors /\ "UnknownIssuer" \in WebpkiErrors
        /\ "MaximumPathDepthExceeded" \in WebpkiErrors
    BY DEF WebpkiErrors, Limits
  <2> QED BY <2>1, SpecificType DEF SkipIssuer, IInv, WalkInv
<1>3. cursor' \in Nat \ {0} /\ cursor <= Len(chain) /\ Len(chain) \in Nat
  BY SMTT(30), LenProperties DEF SkipIssuer, IInv, WalkInv, BuildInv
<1>4. WalkInv'
  BY <1>1, <1>2, <1>3 DEF SkipIssuer, IInv, WalkInv, buildVars, Searching
<1> QED BY <1>1, <1>4 DEF SkipIssuer, IInv, AcceptedIsAuthentic

\* The head was looked at before the path grows beyond it.
LEMMA TakeIssuerIInv == IInv /\ TakeIssuer => IInv'
<1> SUFFICES ASSUME IInv, TakeIssuer PROVE IInv'
  OBVIOUS
<1>1. StoreInv' /\ BuildInv'
  BY SearchKept DEF TakeIssuer, Searching
<1>2. /\ Len(chain) \in Nat /\ Len(path) \in Nat /\ path \in Seq(1..Len(chain))
      /\ cursor \in 1..Len(chain) /\ path' = Append(path, cursor)
  BY SMTT(30), LenProperties DEF TakeIssuer, IInv, WalkInv, BuildInv
<1>3. /\ path' \in Seq(1..Len(chain)) /\ Len(path') = Len(path) + 1
      /\ \A k \in 1..Len(path) : path'[k] = path[k]
      /\ path'[Len(path) + 1] = cursor
  BY SMTT(30), <1>2, AppendProperties
<1>4. chain' = chain /\ leaf' = leaf
  BY DEF TakeIssuer, buildVars
<1>5. /\ \A k \in 1..(Len(path) + 1) : Walk(path)'[k] = Walk(path)[k]
      /\ Walk(path)'[Len(path) + 2] = chain[cursor]
  BY SMTT(30), <1>2, <1>3, <1>4 DEF Walk
<1>6. ASSUME NEW k \in 1..Len(path')
      PROVE  /\ CertError(Walk(path)'[k], k) = "none"
             /\ ~Walk(path)'[k + 1].critical
             /\ Walk(path)'[k].issuer = Walk(path)'[k + 1].subject
  <2>1. CASE k \in 1..Len(path)
    <3>1. Walk(path)'[k] = Walk(path)[k] /\ Walk(path)'[k + 1] = Walk(path)[k + 1]
      BY SMTT(30), <1>2, <1>5, <2>1
    <3> QED BY <2>1, <3>1 DEF IInv, WalkInv, TakeIssuer, Searching
  <2>2. CASE k = Len(path) + 1
    <3>1. /\ CertError(HeadCert, k) = "none" /\ HeadCert = Walk(path)'[k]
          /\ Walk(path)'[k + 1] = chain[cursor]
      BY SMTT(30), <1>2, <1>5, <2>2 DEF IInv, WalkInv, TakeIssuer, HeadCert
    <3> QED BY <3>1 DEF TakeIssuer
  <2> QED BY SMTT(30), <1>2, <1>3, <2>1, <2>2
<1>7. ~leaf.critical /\ Len(path') <= MaxSubCaCount
  BY SMTT(30), <1>2, <1>3, ChainAssumption DEF IInv, WalkInv, TakeIssuer, Searching
<1>8. WalkInv'
  BY <1>3, <1>4, <1>6, <1>7 DEF IInv, WalkInv, TakeIssuer, Searching
<1> QED BY <1>1, <1>8 DEF TakeIssuer, IInv, AcceptedIsAuthentic

\* The certificate the search comes back to was looked at on the way up.
LEMMA BacktrackIInv == IInv /\ Backtrack => IInv'
<1> SUFFICES ASSUME IInv, Backtrack PROVE IInv'
  OBVIOUS
<1>1. StoreInv' /\ BuildInv' /\ (path' = path => Walk(path)' = Walk(path))
  BY SearchKept DEF Backtrack, Return, Searching
<1>2. /\ Len(chain) \in Nat /\ Len(path) \in Nat /\ path \in Seq(1..Len(chain))
      /\ \A k \in 1..Len(path) : path[k] \in 1..Len(chain)
      /\ chain' = chain /\ leaf' = leaf /\ err' = err
  BY LenProperties, ElementOfSeq DEF Backtrack, IInv, WalkInv, BuildInv, buildVars
<1>3. CASE path = <<>>
  <2>1. pc' = "done" /\ path' = path /\ cursor' = cursor /\ verdict' # "Ok"
    BY <1>3, ErrorsAreErrors DEF Backtrack, Return, IInv, WalkInv
  <2>2. WalkInv'
    BY <1>1, <1>2, <2>1 DEF IInv, WalkInv, Searching
  <2> QED BY <1>1, <2>1, <2>2 DEF IInv, AcceptedIsAuthentic
<1>4. CASE path # <<>>
  <2>1. PICK n \in Nat : Len(path) = n + 1
    BY SMTT(30), <1>2, <1>4, EmptySeq
  <2>2. /\ path' = SubSeq(path, 1, n) /\ cursor' = path[n + 1] + 1
        /\ pc = "issuers" /\ pc' = pc /\ verdict' = verdict
    BY SMTT(30), <1>4, <2>1 DEF Backtrack
  <2>3. /\ path' \in Seq(1..Len(chain)) /\ Len(path') = n
        /\ \A k \in 1..n : path'[k] = path[k]
    BY SMTT(30), <1>2, <2>1, <2>2, SubSeqProperties
  <2>4. \A k \in 1..(n + 1) : Walk(path)'[k] = Walk(path)[k]
    BY SMTT(30), <1>2, <2>1, <2>3 DEF Walk
  <2>5. /\ HeadCert' = Walk(path)[n + 1]
        /\ CertError(Walk(path)[n + 1], n + 1) = "none"
    BY SMTT(30), <2>1, <2>2, <2>3, <2>4 DEF HeadCert, IInv, WalkInv, Searching
  <2>6. ASSUME NEW k \in 1..n
        PROVE  /\ CertError(Walk(path)'[k], k) = "none"
               /\ ~Walk(path)'[k + 1].critical
               /\ Walk(path)'[k].issuer = Walk(path)'[k + 1].subject
    <3>1. Walk(path)'[k] = Walk(path)[k] /\ Walk(path)'[k + 1] = Walk(path)[k + 1]
      BY SMTT(30), <2>4
    <3>2. k \in 1..Len(path)
      BY SMTT(30), <2>1
    <3> QED BY <2>2, <3>1, <3>2 DEF IInv, WalkInv, Searching
  <2>7. cursor' \in Nat \ {0} /\ n <= MaxSubCaCount
    BY SMTT(30), <1>2, <2>1, <2>2, ChainAssumption DEF IInv, WalkInv
  <2>8. WalkInv'
    BY ZenonT(40), <1>2, <2>2, <2>3, <2>5, <2>6, <2>7 DEF IInv, WalkInv, Searching
  <2> QED BY <1>1, <2>2, <2>8 DEF IInv, AcceptedIsAuthentic
<1> QED BY <1>3, <1>4

\* What the search has found out when only the name is left to compare.
LEMMA FoundIsAuthentic ==
    ASSUME IInv, pc = "name"
    PROVE  Authentic(Walk(path))
<1> DEFINE w == Walk(path)
<1>1. /\ path \in Seq(1..Len(chain)) /\ Len(path) \in Nat /\ Len(w) = Len(path) + 1
      /\ w[1] = leaf
  BY WalkType, LenProperties DEF IInv, WalkInv
<1>2. \A k \in 1..Len(w) : w[k] \in Presented /\ Parses(w[k]) /\ w[k].pathLen \in Nat
  <2>1. \A k \in 1..Len(w) : w[k] \in Parsed
    BY <1>1, WalkParsed DEF IInv, BuildInv
  <2>2. \A c \in Parsed : c \in Presented /\ Parses(c) /\ c.pathLen \in Nat
    BY ChainAssumption DEF Parsed, Presented, IInv, StoreInv
  <2> QED BY <2>1, <2>2
<1>3. Signed(w) /\ Permitted(w) /\ w[Len(w)].issuer = root.subject
  BY DEF IInv, WalkInv, AnchorError
<1>4. /\ ~leaf.critical
      /\ \A k \in 1..Len(path) : /\ CertError(w[k], k) = "none"
                                 /\ ~w[k + 1].critical
                                 /\ w[k].issuer = w[k + 1].subject
      /\ CertError(w[Len(path) + 1], Len(path) + 1) = "none"
  BY DEF IInv, WalkInv, Searching, HeadCert
<1> HIDE DEF w
<1>5. ASSUME NEW k \in 1..Len(w)
      PROVE  /\ ~w[k].critical
             /\ 0 <= w[k].notBefore /\ w[k].notBefore <= Now /\ Now <= w[k].notAfter
             /\ EKUPolicy(w[k])
             /\ w[k].isCa <=> k > 1
             /\ k > 1 => k - 2 <= w[k].pathLen
  <2>1. k \in Nat /\ (k = Len(path) + 1 \/ k \in 1..Len(path))
    BY SMTT(30), <1>1
  <2>2. CertError(w[k], k) = "none"
    BY <1>4, <2>1
  <2>3. ~w[k].critical
    <3>1. CASE k = 1
      BY <1>1, <1>4, <3>1
    <3>2. CASE k # 1
      <4>1. PICK j \in 1..Len(path) : k = j + 1
        BY SMTT(30), <1>1, <3>2
      <4> QED BY <1>4, <4>1
    <3> QED BY <3>1, <3>2
  <2>4. w[k].notBefore \in Int /\ w[k].notAfter \in Int /\ w[k].pathLen \in Nat /\ Now \in Int
    <3>1. Now \in Int
      BY ChainAssumption
    <3>2. Timestamps \subseteq Int
      BY SMTT(30) DEF Timestamps
    <3> QED BY <1>2, <3>1, <3>2 DEF Parses, IsValidity
  <2>5. /\ 0 <= w[k].notBefore /\ w[k].notBefore <= Now /\ Now <= w[k].notAfter
        /\ k > 1 => k - 2 <= w[k].pathLen
    BY SMTT(30), <2>1, <2>2, <2>4 DEF CertError
  <2>6. EKUPolicy(w[k]) /\ (w[k].isCa <=> k > 1)
    BY SMTT(30), <2>1, <2>2 DEF CertError
  <2> QED BY <2>3, <2>5, <2>6
<1>6. \A k \in 1..(Len(w) - 1) : w[k].issuer = w[k + 1].subject
  BY SMTT(30), <1>1, <1>4
<1>7. \E k \in 1..Len(Roots) : root = Roots[k]
  BY DEF IInv, BuildInv, Searching
<1>8. Authentic(w)
  BY <1>2, <1>3, <1>5, <1>6, <1>7 DEF Authentic
<1> QED BY <1>8 DEF w

LEMMA AuthenticKept ==
    ASSUME Walk(path)' = Walk(path), UNCHANGED <<input, root>>
    PROVE  Authentic(Walk(path))' <=> Authentic(Walk(path))
<1>1. Presented' = Presented
  BY DEF Presented
<1>2. Signed(Walk(path))' <=> Signed(Walk(path))
  BY DEF Signed
<1>3. Permitted(Walk(path))' <=> Permitted(Walk(path))
  BY DEF Permitted
<1> HIDE DEF Presented
<1> QED BY SMTT(30), <1>1, <1>2, <1>3 DEF Authentic

LEMMA CheckNameIInv == IInv /\ CheckName => IInv'
<1> SUFFICES ASSUME IInv, CheckName PROVE IInv'
  OBVIOUS
<1>1. StoreInv' /\ BuildInv' /\ Walk(path)' = Walk(path)
  BY SearchKept DEF CheckName, Return, Searching, walkVars
<1>2. pc = "name" /\ pc' = "done" /\ UNCHANGED <<input, leaf, chain, root, path, cursor, err>>
  BY DEF CheckName, Return, buildVars, walkVars
<1>3. WalkInv'
  BY <1>2 DEF IInv, WalkInv, Searching
<1>4. verdict' = "Ok" => input.endpoint \in leaf.sans
  <2>1. ChainVerifyError("CertNotValidForName") # "Ok"
    BY ErrorsAreErrors DEF WebpkiErrors
  <2> QED BY <2>1 DEF CheckName, Return
<1>5. Authentic(Walk(path))'
  BY <1>1, <1>2, FoundIsAuthentic, AuthenticKept
<1>6. Len(path) <= MaxSubCaCount /\ leaf.ski = input.signer
  BY <1>2 DEF IInv, WalkInv, BuildInv
<1>7. AcceptedIsAuthentic'
  BY <1>2, <1>4, <1>5, <1>6 DEF AcceptedIsAuthentic
<1> QED BY <1>1, <1>2, <1>3, <1>7 DEF IInv

LEMMA NextIInv == IInv /\ [Next]_vars => IInv'
<1> SUFFICES ASSUME IInv, [Next]_vars PROVE IInv'
  OBVIOUS
<1>1. CASE Build
  BY <1>1, LookupIInv, CompleteIInv, ExtendIInv, BuildFailsIInv DEF Build
<1>2. CASE Verify
  BY <1>2, EndEntityIInv, CheckHeadIInv, TryAnchorIInv, SkipIssuerIInv, TakeIssuerIInv,
     BacktrackIInv, CheckNameIInv DEF Verify
<1>3. CASE UNCHANGED vars
  <2>1. /\ UNCHANGED <<input, pc, received, cache, leaf, next, root, chain, path, cursor, err, verdict>>
    BY <1>3 DEF vars, storeVars, buildVars, walkVars
  <2>2. StoreInv' /\ BuildInv'
    BY SMTT(30), <2>1 DEF IInv, StoreInv, BuildInv, Parsed, Presented, Searching
  <2>3. Walk(path)' = Walk(path) /\ HeadCert' = HeadCert
    BY <2>1 DEF Walk, HeadCert
  <2>4. AnchorError(Walk(path))' = AnchorError(Walk(path))
    BY <2>1, <2>3 DEF AnchorError, Signed, Permitted
  <2>5. WalkInv'
    BY <2>1, <2>3, <2>4 DEF IInv, WalkInv, Searching
  <2>6. Authentic(Walk(path)) => Authentic(Walk(path))'
    BY <2>1, <2>3, AuthenticKept
  <2>7. AcceptedIsAuthentic'
    BY <2>1, <2>6 DEF IInv, AcceptedIsAuthentic
  <2> QED BY <2>1, <2>2, <2>5, <2>7 DEF IInv
<1> QED BY <1>1, <1>2, <1>3, ReceiveIInv DEF Next, Finished

\* The search keeps track of what it has looked at: every certificate under the head
\* of webpki's path was found right.
THEOREM ChainInvariant == Spec => []IInv
BY InitIInv, NextIInv, PTL DEF Spec

\* verify_chain accepts a certificate only with a path of presented certificates to
\* a known root that meets every requirement, and only for an endpoint it names,
\* whatever is presented in whatever order.
THEOREM AcceptedChainIsAuthentic == Spec => []AcceptedIsAuthentic
BY ChainInvariant, PTL DEF IInv

-------------------------------------------------------------------------------
(* The depth of the path *)

LEMMA OrdinaryErrors ==
    ASSUME NEW e \in WebpkiErrors \ Limits
    PROVE  ChainVerifyError(e) # "ChainWalkLimits"
  BY DEF WebpkiErrors, ChainVerifyError, Malformed, Limits

LEMMA ChecksAreOrdinary ==
    ASSUME NEW c, NEW k, NEW w
    PROVE  CertError(c, k) \notin Limits /\ AnchorError(w) \notin Limits
  BY DEF CertError, AnchorError, Limits

LEMMA IntervalSize ==
    ASSUME NEW n \in Nat
    PROVE  IsFiniteSet(1..n) /\ Cardinality(1..n) = n
<1>1. Cardinality(1..n) = IF 1 > n THEN 0 ELSE n - 1 + 1
  BY SMTT(30), FS_Interval
<1>2. IsFiniteSet(1..n)
  BY SMTT(30), FS_Interval
<1>3. (IF 1 > n THEN 0 ELSE n - 1 + 1) = n
  BY SMTT(30)
<1> QED BY SMTT(30), <1>1, <1>2, <1>3

\* A certificate that is not on the path leaves room for it: the places of the path
\* are different places of the chain, and none of them is c.
LEMMA RoomOnPath ==
    ASSUME IInv, DepthInv, NEW c \in 1..Len(chain), ~OnPath(chain[c])
    PROVE  Len(path) < Len(chain) /\ \A k \in 1..Len(path) : path[k] # c
<1>1. /\ path \in Seq(1..Len(chain)) /\ Len(path) \in Nat /\ Len(chain) \in Nat
      /\ \A k \in 1..Len(path) : path[k] \in 1..Len(chain)
  BY LenProperties, ElementOfSeq DEF IInv, WalkInv, BuildInv
<1>2. ASSUME NEW k \in 1..Len(path), path[k] = c PROVE FALSE
  <2>1. Walk(path)[k + 1] = chain[c]
    BY <1>1, <1>2, WalkType
  <2>2. k + 1 \in 1..(Len(path) + 1)
    BY SMTT(30), <1>1
  <2> QED BY <2>1, <2>2 DEF OnPath
<1> DEFINE D == 1..(Len(path) + 1)
<1> DEFINE R == 1..Len(chain)
<1> DEFINE f == [k \in D |-> IF k = Len(path) + 1 THEN c ELSE path[k]]
<1>3. f \in Injection(D, R)
  <2>1. \A k \in D : k # Len(path) + 1 => k \in 1..Len(path)
    BY SMTT(30), <1>1
  <2>2. f \in [D -> R]
    BY <1>1, <2>1
  <2>3. \A j, k \in D : f[j] = f[k] => j = k
    BY <1>2, <2>1 DEF DepthInv
  <2> QED BY <2>2, <2>3 DEF Injection, IsInjective
<1>4. IsFiniteSet(R) /\ Cardinality(R) = Len(chain) /\ Cardinality(D) = Len(path) + 1
  <2>1. Len(path) + 1 \in Nat
    BY SMTT(30), <1>1
  <2> QED BY <1>1, <2>1, IntervalSize
<1> HIDE DEF D, R, f
<1>5. Cardinality(D) <= Cardinality(R)
  BY <1>3, <1>4, FS_Injection
<1> QED BY SMTT(30), <1>1, <1>2, <1>4, <1>5

LEMMA DepthNext ==
    ASSUME MaxIntermediates <= MaxSubCaCount, IInv, DepthInv, [Next]_vars
    PROVE  DepthInv'
<1>1. CASE UNCHANGED <<chain, path, err, verdict>>
  BY <1>1 DEF DepthInv, DepthLimitNotReached
<1>2. CASE Receive \/ Complete \/ Finished \/ UNCHANGED vars
  BY <1>1, <1>2 DEF Receive, Complete, Finished, vars, buildVars, walkVars
<1>3. CASE Lookup \/ BuildFails \/ EndEntity \/ CheckName
  <2>1. UNCHANGED <<chain, path, err>>
    BY <1>3 DEF Lookup, BuildFails, EndEntity, CheckName, buildVars, walkVars
  <2>2. {"UnsupportedCriticalExtension", "CertNotValidForName"} \subseteq WebpkiErrors \ Limits
    BY DEF WebpkiErrors, Limits
  <2>3. verdict' # "ChainWalkLimits"
    BY <1>3, <2>2, OrdinaryErrors
       DEF Lookup, BuildFails, EndEntity, CheckName, Return, DepthInv, DepthLimitNotReached
  <2> QED BY <2>1, <2>3 DEF DepthInv, DepthLimitNotReached
<1>4. CASE Extend
  <2>1. path = <<>> /\ UNCHANGED <<path, err, verdict>>
    BY <1>4 DEF Extend, walkVars, IInv, WalkInv
  <2>2. Len(chain) < MaxIntermediates /\ cache[next] \in Parsed /\ chain' = Append(chain, cache[next])
    BY <1>4 DEF Extend, IInv, StoreInv
  <2>3. Len(chain') = Len(chain) + 1 /\ Len(chain) \in Nat
    BY <2>2, AppendProperties, LenProperties DEF IInv, BuildInv
  <2>4. Len(chain') <= MaxIntermediates
    BY SMTT(30), <2>2, <2>3, ChainAssumption
  <2> QED BY SMTT(30), <2>1, <2>4 DEF DepthInv, DepthLimitNotReached
<1>5. ASSUME NEW e \in WebpkiErrors \ Limits, Specific(e) PROVE err' \notin Limits
  BY <1>5 DEF Specific, DepthInv
<1>6. CASE CheckHead \/ TryAnchor
  <2>1. err' \notin Limits
    BY <1>5, <1>6, CertErrorType, AnchorErrorType, ChecksAreOrdinary DEF CheckHead, TryAnchor, DepthInv
  <2>2. UNCHANGED <<chain, path, verdict>>
    BY <1>6 DEF CheckHead, TryAnchor, buildVars
  <2> QED BY <2>1, <2>2 DEF DepthInv, DepthLimitNotReached
<1>7. ASSUME pc = "issuers", cursor <= Len(chain)
      PROVE  cursor \in 1..Len(chain) /\ Len(path) \in Nat /\ Len(chain) \in Nat
  BY SMTT(30), <1>7, LenProperties DEF IInv, WalkInv, BuildInv
<1>8. CASE SkipIssuer
  <2>1. {"UnsupportedCriticalExtension", "UnknownIssuer"} \subseteq WebpkiErrors \ Limits
    BY DEF WebpkiErrors, Limits
  <2>2. ASSUME ~OnPath(chain[cursor]), Len(path) >= MaxSubCaCount PROVE FALSE
    <3>1. Len(path) < Len(chain)
      BY <1>7, <1>8, <2>2, RoomOnPath DEF SkipIssuer
    <3> QED BY SMTT(30), <1>7, <1>8, <2>2, <3>1, ChainAssumption DEF SkipIssuer, DepthInv
  <2>3. err' \notin Limits
    BY <1>5, <1>8, <2>1, <2>2 DEF SkipIssuer
  <2>4. UNCHANGED <<chain, path, verdict>>
    BY <1>8 DEF SkipIssuer, buildVars
  <2> QED BY <2>3, <2>4 DEF DepthInv, DepthLimitNotReached
<1>9. CASE TakeIssuer
  <2>1. path' = Append(path, cursor) /\ UNCHANGED <<chain, err, verdict>> /\ cursor \in 1..Len(chain)
    BY <1>7, <1>9 DEF TakeIssuer, buildVars
  <2>2. \A k \in 1..Len(path) : path[k] # cursor
    BY <1>9, <2>1, RoomOnPath DEF TakeIssuer
  <2>3. /\ Len(path') = Len(path) + 1 /\ Len(path) \in Nat /\ path'[Len(path) + 1] = cursor
        /\ \A k \in 1..Len(path) : path'[k] = path[k]
    BY SMTT(30), <2>1, AppendProperties, LenProperties DEF IInv, WalkInv
  <2>4. ASSUME NEW j \in 1..Len(path'), NEW k \in 1..Len(path'), path'[j] = path'[k] PROVE j = k
    <3>1. (j \in 1..Len(path) \/ j = Len(path) + 1) /\ (k \in 1..Len(path) \/ k = Len(path) + 1)
      BY SMTT(30), <2>3
    <3> QED BY <2>2, <2>3, <2>4, <3>1 DEF DepthInv
  <2> QED BY <2>1, <2>4 DEF DepthInv, DepthLimitNotReached
<1>10. CASE Backtrack
  <2>1. UNCHANGED <<chain, err>> /\ err \in WebpkiErrors \ Limits
    BY <1>10 DEF Backtrack, buildVars, IInv, WalkInv, DepthInv
  <2>2. verdict' # "ChainWalkLimits"
    BY <1>10, <2>1, OrdinaryErrors DEF Backtrack, Return, DepthInv, DepthLimitNotReached
  <2>3. ASSUME path # <<>>, path' = SubSeq(path, 1, Len(path) - 1)
        PROVE  \A j, k \in 1..Len(path') : path'[j] = path'[k] => j = k
    <3>1. Len(path) \in Nat \ {0}
      BY <2>3, LenProperties, EmptySeq DEF IInv, WalkInv
    <3>2. PICK n \in Nat : n = Len(path) - 1
      BY SMTT(30), <3>1
    <3>3. \A k \in 1..n : path[k] \in 1..Len(chain)
      BY SMTT(30), <3>1, <3>2, ElementOfSeq DEF IInv, WalkInv
    <3>4. Len(SubSeq(path, 1, n)) = n /\ \A k \in 1..n : SubSeq(path, 1, n)[k] = path[k]
      BY SMTT(30), <3>3, SubSeqProperties
    <3>5. Len(path') = n /\ (\A k \in 1..n : path'[k] = path[k]) /\ 1..n \subseteq 1..Len(path)
      BY SMTT(30), <2>3, <3>1, <3>2, <3>4
    <3> QED BY <3>5 DEF DepthInv
  <2>4. \A j, k \in 1..Len(path') : path'[j] = path'[k] => j = k
    BY <1>10, <2>3 DEF Backtrack, DepthInv
  <2> QED BY <2>1, <2>2, <2>4 DEF DepthInv, DepthLimitNotReached
<1> QED BY <1>2, <1>3, <1>4, <1>6, <1>8, <1>9, <1>10 DEF Next, Build, Verify

\* If webpki allows paths as long as MAX_INTERMEDIATES, its limit on their depth never
\* decides: a chain that is too long was refused before it was searched.
THEOREM ChainDepthLimitNotReached ==
    ASSUME MaxIntermediates <= MaxSubCaCount
    PROVE  Spec => []DepthLimitNotReached
<1>1. Init => DepthInv
  BY SMTT(30), ChainAssumption DEF Init, DepthInv, DepthLimitNotReached, Limits
<1>2. IInv /\ DepthInv /\ [Next]_vars => DepthInv'
  BY DepthNext
<1>3. DepthInv => DepthLimitNotReached
  BY DEF DepthInv
<1> QED BY <1>1, <1>2, <1>3, ChainInvariant, PTL DEF Spec

-------------------------------------------------------------------------------
(* The search misses no path *)

LEMMA BeforeAppend ==
    ASSUME NEW p \in Seq(Nat), NEW q \in Seq(Nat), NEW c \in Nat, Before(p, Append(q, c))
    PROVE  \/ Before(p, q)
           \/ Continues(p, q) /\ (Len(p) = Len(q) \/ p[Len(q) + 1] < c)
<1> DEFINE n == Len(q)
           r == Append(q, c)
<1>1. /\ n \in Nat /\ Len(p) \in Nat /\ Len(r) = n + 1 /\ r[n + 1] = c
      /\ \A k \in 1..n : r[k] = q[k]
  BY SMTT(30)
<1> HIDE DEF n, r
<1>2. CASE \E k \in 1..Len(r) : k <= Len(p) /\ p[k] < r[k] /\ \A j \in 1..(k - 1) : p[j] = r[j]
  <2>1. PICK k \in 1..(n + 1) : k <= Len(p) /\ p[k] < r[k] /\ \A j \in 1..(k - 1) : p[j] = r[j]
    BY <1>1, <1>2
  <2>2. \A j \in 1..(k - 1) : p[j] = q[j]
    BY SMTT(30), <1>1, <2>1
  <2>3. CASE k \in 1..n
    BY <1>1, <2>1, <2>2, <2>3 DEF Before, n
  <2>4. CASE k = n + 1
    <3>1. k - 1 = n /\ Len(p) >= n
      BY SMTT(30), <1>1, <2>1, <2>4
    <3> QED BY <1>1, <2>1, <2>2, <2>4, <3>1 DEF Continues, n
  <2> QED BY SMTT(30), <1>1, <2>3, <2>4
<1>3. CASE Len(p) < Len(r) /\ Continues(r, p)
  <2>1. \A k \in 1..Len(p) : q[k] = p[k]
    BY SMTT(30), <1>1, <1>3 DEF Continues
  <2>2. CASE Len(p) = n
    <3>1. Len(p) >= n
      BY SMTT(30), <1>1, <2>2
    <3> QED BY <2>1, <2>2, <3>1 DEF Continues, n
  <2>3. CASE Len(p) # n
    <3>1. Len(p) < n /\ n >= Len(p)
      BY SMTT(30), <1>1, <1>3, <2>3
    <3> QED BY <2>1, <3>1 DEF Before, Continues, n
  <2> QED BY <2>2, <2>3
<1> QED BY <1>2, <1>3 DEF Before, r

\* Taking the last element off q and looking at what comes after it.
LEMMA BeforeBack ==
    ASSUME NEW p \in Seq(Nat), NEW q \in Seq(Nat), NEW r \in Seq(Nat), NEW n \in Nat,
           Len(q) = n + 1, Len(r) = n, \A k \in 1..n : r[k] = q[k],
           \/ Before(p, r)
           \/ Continues(p, r) /\ (Len(p) = n \/ p[n + 1] < q[n + 1] + 1)
    PROVE  Before(p, q) \/ Continues(p, q)
<1>1. Len(p) \in Nat /\ 1..n \subseteq 1..(n + 1)
  BY SMTT(30)
<1>2. CASE \E k \in 1..n : k <= Len(p) /\ p[k] < r[k] /\ \A j \in 1..(k - 1) : p[j] = r[j]
  <2>1. PICK k \in 1..n : k <= Len(p) /\ p[k] < r[k] /\ \A j \in 1..(k - 1) : p[j] = r[j]
    BY <1>2
  <2>2. \A j \in 1..(k - 1) : j \in 1..n
    BY SMTT(30)
  <2> QED BY <1>1, <2>1, <2>2 DEF Before
<1>3. CASE Len(p) <= n /\ \A k \in 1..Len(p) : p[k] = r[k]
  <2>1. Len(p) < n + 1 /\ n + 1 >= Len(p) /\ \A k \in 1..Len(p) : k \in 1..n
    BY SMTT(30), <1>1, <1>3
  <2> QED BY <1>3, <2>1 DEF Before, Continues
<1>4. CASE Continues(p, r) /\ Len(p) # n /\ p[n + 1] < q[n + 1] + 1
  <2>1. n + 1 <= Len(p) /\ Len(p) >= n + 1 /\ (n + 1) - 1 = n /\ n + 1 \in 1..(n + 1)
    BY SMTT(30), <1>1, <1>4 DEF Continues
  <2>2. p[n + 1] < q[n + 1] \/ p[n + 1] = q[n + 1]
    <3>1. p[n + 1] \in Nat /\ q[n + 1] \in Nat
      BY SMTT(30), <1>1, <2>1, ElementOfSeq
    <3> QED BY SMTT(30), <1>4, <3>1
  <2>3. \A k \in 1..n : p[k] = q[k]
    BY <1>4 DEF Continues
  <2>4. CASE p[n + 1] < q[n + 1]
    <3>1. \A j \in 1..((n + 1) - 1) : p[j] = q[j]
      BY <2>1, <2>3
    <3>2. n + 1 \in 1..Len(q)
      BY <2>1
    <3> QED BY <2>1, <2>4, <3>1, <3>2 DEF Before
  <2>5. CASE p[n + 1] = q[n + 1]
    <3>1. \A k \in 1..(n + 1) : k \in 1..n \/ k = n + 1
      BY SMTT(30)
    <3> QED BY <2>1, <2>3, <2>5, <3>1 DEF Continues
  <2> QED BY <2>2, <2>4, <2>5
<1>5. Before(p, r) => <1>2!1 \/ <1>3!1
  BY SMTT(30), <1>1 DEF Before, Continues
<1>6. Continues(p, r) /\ Len(p) = n => <1>3!1
  BY SMTT(30), <1>1 DEF Continues
<1> QED BY <1>2, <1>3, <1>4, <1>5, <1>6

LEMMA ChainPathType ==
    ASSUME IInv, NEW p \in ChainPaths
    PROVE  /\ p \in Seq(1..Len(chain)) /\ p \in Seq(Nat) /\ Len(p) \in 0..Len(chain)
           /\ \A k \in 1..Len(p) : p[k] \in 1..Len(chain)
<1>1. Len(chain) \in Nat
  BY LenProperties DEF IInv, BuildInv
<1>2. PICK n \in 0..Len(chain) : p \in [1..n -> 1..Len(chain)]
  BY DEF ChainPaths
<1>3. n \in Nat /\ 1..Len(chain) \subseteq Nat
  BY SMTT(30), <1>1
<1>4. p \in Seq(1..Len(chain)) /\ Len(p) = n
  BY SMTT(30), <1>2, <1>3
<1>5. p \in Seq(Nat)
  BY SMTT(30), <1>2, <1>3
<1> QED BY <1>2, <1>4, <1>5

\* A path that continues another starts with the same certificates.
LEMMA ContinuedWalk ==
    ASSUME NEW p \in Seq(1..Len(chain)), NEW q \in Seq(1..Len(chain)), Continues(p, q)
    PROVE  \A k \in 1..(Len(q) + 1) : Walk(p)[k] = Walk(q)[k]
<1>1. Len(p) \in Nat /\ Len(q) \in Nat /\ Len(p) >= Len(q)
  BY LenProperties DEF Continues
<1> SUFFICES ASSUME NEW k \in 1..(Len(q) + 1) PROVE Walk(p)[k] = Walk(q)[k]
  OBVIOUS
<1>2. CASE k = 1
  BY <1>2, WalkType
<1>3. CASE k # 1
  <2>1. PICK j \in 1..Len(q) : k = j + 1 /\ j \in 1..Len(p)
    BY SMTT(30), <1>1, <1>3
  <2>2. Walk(p)[j + 1] = chain[p[j]] /\ Walk(q)[j + 1] = chain[q[j]]
    BY <2>1, WalkType
  <2>3. p[j] = q[j]
    BY <2>1 DEF Continues
  <2> QED BY <2>1, <2>2, <2>3
<1> QED BY <1>2, <1>3

\* Every certificate of a path that makes the leaf trusted is found right by itself.
LEMMA AuthenticHasNoError ==
    ASSUME IInv, leaf \in Parsed, NEW p \in Seq(1..Len(chain)), Authentic(Walk(p)),
           NEW k \in 1..(Len(p) + 1)
    PROVE  CertError(Walk(p)[k], k) = "none" /\ ~Walk(p)[k].critical
<1> DEFINE c == Walk(p)[k]
<1>1. Len(p) \in Nat /\ Len(Walk(p)) = Len(p) + 1
  BY WalkType, LenProperties
<1>2. c \in Parsed
  BY WalkParsed DEF IInv, BuildInv
<1>3. c.notBefore \in Int /\ c.notAfter \in Int /\ c.pathLen \in Nat /\ Now \in Int
  <2>1. Timestamps \subseteq Int
    BY SMTT(30) DEF Timestamps
  <2>2. c.pathLen \in Nat /\ Now \in Int
    BY <1>2, ChainAssumption DEF Parsed, Presented, IInv, StoreInv
  <2> QED BY <1>2, <2>1, <2>2 DEF Parsed, Parses, IsValidity
<1>4. /\ ~c.critical /\ EKUPolicy(c) /\ (c.isCa <=> k > 1) /\ (k > 1 => k - 2 <= c.pathLen)
      /\ 0 <= c.notBefore /\ c.notBefore <= Now /\ Now <= c.notAfter
  BY <1>1 DEF Authentic
<1>5. k \in Nat /\ k >= 1
  BY SMTT(30), <1>1
<1> HIDE DEF c
<1>6. CertError(c, k) = "none"
  BY SMTT(30), <1>3, <1>4, <1>5 DEF CertError
<1> QED BY <1>4, <1>6 DEF c

LEMMA SoundKept ==
    ASSUME UNCHANGED <<input, leaf, chain, root>>
    PROVE  ChainPaths' = ChainPaths /\ \A p \in ChainPaths : Sound(p)' <=> Sound(p)
<1>1. ChainPaths' = ChainPaths
  BY DEF ChainPaths
<1> SUFFICES ASSUME NEW p \in ChainPaths PROVE Sound(p)' <=> Sound(p)
  BY <1>1
<1>2. Walk(p)' = Walk(p)
  BY DEF Walk
<1>3. LoopFree(Walk(p))' <=> LoopFree(Walk(p))
  BY <1>2 DEF LoopFree
<1>4. Signed(Walk(p))' <=> Signed(Walk(p))
  BY <1>2 DEF Signed
<1>5. Permitted(Walk(p))' <=> Permitted(Walk(p))
  BY <1>2 DEF Permitted
<1>6. Presented' = Presented
  BY DEF Presented
<1>7. Authentic(Walk(p))' <=> Authentic(Walk(p))
  BY SMTT(30), <1>2, <1>4, <1>5, <1>6 DEF Authentic
<1> QED BY <1>3, <1>7 DEF Sound

\* A step of the search that goes past nothing but what does not make the leaf trusted.
LEMMA SearchGoesOn ==
    ASSUME SearchInv, pc' \in {"head", "anchor", "issuers", "name"},
           UNCHANGED <<input, leaf, chain, root>>,
           \A p \in ChainPaths : Passed(p)' => ~Sound(p)
    PROVE  SearchInv'
<1>1. ~Refused'
  BY DEF Refused
<1> QED BY <1>1, SoundKept DEF SearchInv

\* A path that continues the one the search has come to, and what it looks at there.
LEMMA ContinuedPath ==
    ASSUME IInv, Searching, NEW p \in ChainPaths, Continues(p, path), Sound(p)
    PROVE  /\ CertError(HeadCert, Len(path) + 1) = "none"
           /\ Len(p) = Len(path) => AnchorError(Walk(path)) = "none"
           /\ Len(p) # Len(path) =>
                 /\ p[Len(path) + 1] \in 1..Len(chain)
                 /\ chain[p[Len(path) + 1]].subject = HeadCert.issuer
                 /\ ~chain[p[Len(path) + 1]].critical
                 /\ ~OnPath(chain[p[Len(path) + 1]])
<1> DEFINE n == Len(path)
           w == Walk(p)
<1>1. /\ path \in Seq(1..Len(chain)) /\ n \in Nat
      /\ p \in Seq(1..Len(chain)) /\ Len(p) \in Nat /\ Len(p) >= n
      /\ \A k \in 1..Len(p) : p[k] \in 1..Len(chain)
      /\ leaf \in Parsed
  BY ChainPathType, LenProperties DEF IInv, WalkInv, BuildInv, Searching, Continues
<1>2. \A k \in 1..(n + 1) : w[k] = Walk(path)[k]
  BY <1>1, ContinuedWalk
<1>3. n + 1 \in 1..(n + 1) /\ n + 1 \in 1..(Len(p) + 1) /\ 1..(n + 1) \subseteq 1..(Len(p) + 1)
  BY SMTT(30), <1>1
<1>4. HeadCert = w[n + 1]
  BY <1>2, <1>3 DEF HeadCert
<1>5. Authentic(w) /\ LoopFree(w) /\ Len(w) = Len(p) + 1
  BY <1>1, WalkType DEF Sound
<1>6. CertError(HeadCert, n + 1) = "none"
  BY <1>1, <1>3, <1>4, <1>5, AuthenticHasNoError
<1>7. ASSUME Len(p) = n PROVE AnchorError(Walk(path)) = "none"
  <2>1. w = Walk(path)
    <3>1. Len(path) = Len(p)
      BY <1>7
    <3> QED BY <1>2, <3>1 DEF Walk
  <2> QED BY <1>5, <2>1 DEF Authentic, AnchorError
<1>8. ASSUME Len(p) # n
      PROVE  /\ p[n + 1] \in 1..Len(chain)
             /\ chain[p[n + 1]].subject = HeadCert.issuer
             /\ ~chain[p[n + 1]].critical
             /\ ~OnPath(chain[p[n + 1]])
  <2>1. /\ n + 1 \in 1..Len(p) /\ n + 1 \in 1..(Len(w) - 1) /\ n + 2 \in 1..(Len(p) + 1)
        /\ n + 1 + 1 = n + 2 /\ n + 2 \notin 1..(n + 1)
    BY SMTT(30), <1>1, <1>5, <1>8
  <2>2. w[n + 2] = chain[p[n + 1]]
    BY <1>1, <2>1, WalkType
  <2>3. w[n + 1].issuer = w[n + 2].subject
    BY <1>5, <2>1 DEF Authentic
  <2>4. ~w[n + 2].critical
    BY <1>1, <1>5, <2>1, AuthenticHasNoError
  <2>5. ~OnPath(w[n + 2])
    <3>1. ASSUME NEW k \in 1..(n + 1), w[k].key = w[n + 2].key, w[k].subject = w[n + 2].subject
          PROVE  FALSE
      <4>1. k \in 1..Len(w) /\ n + 2 \in 1..Len(w) /\ k # n + 2
        BY <1>3, <1>5, <2>1
      <4> QED BY <1>5, <3>1, <4>1 DEF LoopFree
    <3> QED BY <1>2, <3>1 DEF OnPath
  <2> QED BY <1>1, <1>4, <2>1, <2>2, <2>3, <2>4, <2>5
<1> QED BY <1>6, <1>7, <1>8

LEMMA EndEntitySearch ==
    ASSUME IInv, SearchInv, EndEntity PROVE SearchInv'
<1>1. UNCHANGED <<input, leaf, chain, root, path>> /\ path = <<>> /\ Len(path) = 0
  BY EmptySeq DEF EndEntity, buildVars, walkVars, IInv, WalkInv
<1>2. CASE leaf.critical
  <2>1. ASSUME NEW p \in ChainPaths, Sound(p) PROVE FALSE
    <3>1. p \in Seq(1..Len(chain)) /\ Walk(p)[1] = leaf /\ leaf \in Parsed
      BY ChainPathType, WalkType DEF EndEntity, IInv, BuildInv
    <3>2. 1 \in 1..(Len(p) + 1)
      BY SMTT(30), <3>1, LenProperties
    <3> QED BY <1>2, <2>1, <3>1, <3>2, AuthenticHasNoError DEF Sound
  <2>2. pc' = "done"
    BY <1>2 DEF EndEntity, Return
  <2> QED BY <1>1, <2>1, <2>2, SoundKept DEF SearchInv
<1>3. CASE ~leaf.critical
  <2>1. pc' = "head"
    BY <1>3 DEF EndEntity
  <2>2. ASSUME NEW p \in ChainPaths, Passed(p)' PROVE FALSE
    <3>1. Before(p, path')
      BY <2>1, <2>2 DEF Passed
    <3>2. Len(path') = 0 /\ Len(p) \in Nat
      BY <1>1, ChainPathType, LenProperties
    <3> QED BY SMTT(30), <3>1, <3>2 DEF Before
  <2> QED BY <1>1, <2>1, <2>2, SearchGoesOn
<1> QED BY <1>2, <1>3

\* The head was found wrong, or is not issued by the root as it has to be.
LEMMA HeadSearch ==
    ASSUME IInv, SearchInv, CheckHead \/ TryAnchor PROVE SearchInv'
<1>1. /\ UNCHANGED <<input, leaf, chain, root, path>> /\ Searching
      /\ pc \in {"head", "anchor"} /\ pc' \in {"head", "anchor", "issuers", "name"}
  BY DEF CheckHead, TryAnchor, buildVars, Searching
<1>2. ASSUME NEW p \in ChainPaths, Passed(p)' PROVE ~Sound(p)
  <2>1. CASE Before(p, path)
    BY <1>1, <2>1 DEF SearchInv, Passed
  <2>2. CASE ~Before(p, path)
    <3>1. /\ pc' = "issuers" /\ Continues(p, path)
          /\ Len(p) = Len(path) \/ p[Len(path) + 1] < cursor'
      BY <1>1, <1>2, <2>2 DEF Passed
    <3>2. CASE CheckHead
      <4>1. CertError(HeadCert, Len(path) + 1) # "none"
        BY <3>1, <3>2 DEF CheckHead
      <4> QED BY <1>1, <3>1, <4>1, ContinuedPath
    <3>3. CASE TryAnchor
      <4>1. AnchorError(Walk(path)) # "none" /\ cursor' = 1
        BY <3>1, <3>3 DEF TryAnchor
      <4>2. SUFFICES ASSUME Sound(p) PROVE FALSE
        OBVIOUS
      <4>3. Len(p) # Len(path) /\ p[Len(path) + 1] \in 1..Len(chain)
        BY <1>1, <3>1, <4>1, <4>2, ContinuedPath
      <4>4. p[Len(path) + 1] < 1
        BY <3>1, <4>1, <4>3
      <4>5. Len(chain) \in Nat
        BY LenProperties DEF IInv, BuildInv
      <4> QED BY SMTT(30), <4>3, <4>4, <4>5
    <3> QED BY <3>2, <3>3
  <2> QED BY <2>1, <2>2
<1> QED BY <1>1, <1>2, SearchGoesOn

LEMMA SkipSearch ==
    ASSUME MaxIntermediates <= MaxSubCaCount, IInv, DepthInv, SearchInv, SkipIssuer
    PROVE  SearchInv'
<1>1. /\ UNCHANGED <<input, leaf, chain, root, path>> /\ Searching
      /\ pc = "issuers" /\ pc' = pc /\ cursor' = cursor + 1 /\ cursor <= Len(chain)
  BY DEF SkipIssuer, buildVars, Searching
<1>2. cursor \in 1..Len(chain) /\ Len(chain) \in Nat /\ Len(path) \in Nat
  BY SMTT(30), <1>1, LenProperties DEF IInv, WalkInv, BuildInv
<1>3. ~(~OnPath(chain[cursor]) /\ Len(path) >= MaxSubCaCount)
  <2>1. SUFFICES ASSUME ~OnPath(chain[cursor]), Len(path) >= MaxSubCaCount PROVE FALSE
    OBVIOUS
  <2>2. Len(path) < Len(chain)
    BY <1>2, <2>1, RoomOnPath
  <2> QED BY SMTT(30), <1>2, <2>1, <2>2, ChainAssumption DEF DepthInv
<1>4. ASSUME NEW p \in ChainPaths, Passed(p)', Sound(p) PROVE FALSE
  <2>1. ~Passed(p)
    BY <1>1, <1>4 DEF SearchInv
  <2>2. /\ Continues(p, path) /\ Len(p) # Len(path)
        /\ p[Len(path) + 1] < cursor + 1 /\ ~(p[Len(path) + 1] < cursor)
    BY <1>1, <1>4, <2>1 DEF Passed
  <2>3. /\ p[Len(path) + 1] \in 1..Len(chain)
        /\ chain[p[Len(path) + 1]].subject = HeadCert.issuer
        /\ ~chain[p[Len(path) + 1]].critical
        /\ ~OnPath(chain[p[Len(path) + 1]])
    BY <1>1, <1>4, <2>2, ContinuedPath
  <2>4. p[Len(path) + 1] = cursor
    BY SMTT(30), <1>2, <2>2, <2>3
  <2> QED BY <1>3, <2>3, <2>4 DEF SkipIssuer
<1> QED BY <1>1, <1>4, SearchGoesOn

LEMMA TakeSearch ==
    ASSUME IInv, SearchInv, TakeIssuer PROVE SearchInv'
<1>1. /\ UNCHANGED <<input, leaf, chain, root>> /\ pc = "issuers" /\ pc' = "head"
      /\ path' = Append(path, cursor)
  BY DEF TakeIssuer, buildVars
<1>2. cursor \in Nat /\ path \in Seq(Nat)
  <2>1. Len(chain) \in Nat /\ path \in Seq(1..Len(chain)) /\ cursor \in Nat
    BY LenProperties DEF IInv, WalkInv, BuildInv
  <2>2. path \in Seq(Nat)
    BY SMTT(30), <2>1
  <2> QED BY <2>1, <2>2
<1>3. ASSUME NEW p \in ChainPaths, Passed(p)' PROVE ~Sound(p)
  <2>1. Before(p, Append(path, cursor))
    BY <1>1, <1>3 DEF Passed
  <2>2. p \in Seq(Nat)
    BY ChainPathType
  <2>3. Passed(p)
    BY <1>1, <1>2, <2>1, <2>2, BeforeAppend DEF Passed
  <2> QED BY <1>1, <2>3 DEF SearchInv
<1> QED BY <1>1, <1>3, SearchGoesOn

LEMMA BacktrackSearch ==
    ASSUME IInv, SearchInv, Backtrack PROVE SearchInv'
<1>1. UNCHANGED <<input, leaf, chain, root>> /\ pc = "issuers" /\ cursor > Len(chain)
  BY DEF Backtrack, buildVars
<1>2. /\ Len(chain) \in Nat /\ Len(path) \in Nat /\ path \in Seq(1..Len(chain)) /\ cursor \in Nat
      /\ \A k \in 1..Len(path) : path[k] \in 1..Len(chain)
  BY LenProperties, ElementOfSeq DEF IInv, WalkInv, BuildInv
<1>3. ASSUME NEW p \in ChainPaths, Before(p, path) \/ Continues(p, path) PROVE ~Sound(p)
  <2>1. CASE Before(p, path)
    BY <1>1, <2>1 DEF SearchInv, Passed
  <2>2. CASE Continues(p, path)
    <3>1. Len(p) # Len(path) => p[Len(path) + 1] < cursor
      <4>1. SUFFICES ASSUME Len(p) # Len(path) PROVE p[Len(path) + 1] < cursor
        OBVIOUS
      <4>2. Len(p) \in Nat /\ Len(p) >= Len(path)
        BY <2>2, ChainPathType, LenProperties DEF Continues
      <4>3. Len(path) + 1 \in 1..Len(p)
        BY SMTT(30), <1>2, <4>1, <4>2
      <4>4. p[Len(path) + 1] \in 1..Len(chain)
        BY <4>3, ChainPathType
      <4> QED BY SMTT(30), <1>1, <1>2, <4>4
    <3> QED BY <1>1, <2>2, <3>1 DEF SearchInv, Passed
  <2> QED BY <1>3, <2>1, <2>2
<1>4. CASE path = <<>>
  <2>1. pc' = "done"
    BY <1>4 DEF Backtrack, Return
  <2>2. ASSUME NEW p \in ChainPaths PROVE Continues(p, path)
    <3>1. Len(p) \in Nat /\ Len(path) = 0
      BY <1>4, ChainPathType, LenProperties, EmptySeq
    <3> QED BY SMTT(30), <3>1 DEF Continues
  <2> QED BY <1>1, <1>3, <2>1, <2>2, SoundKept DEF SearchInv
<1>5. CASE path # <<>>
  <2>1. PICK n \in Nat : Len(path) = n + 1
    BY SMTT(30), <1>2, <1>5, EmptySeq
  <2>2. path' = SubSeq(path, 1, n) /\ cursor' = path[n + 1] + 1 /\ pc' = pc
    BY SMTT(30), <1>5, <2>1 DEF Backtrack
  <2>3. /\ path' \in Seq(1..Len(chain)) /\ Len(path') = n
        /\ \A k \in 1..n : path'[k] = path[k]
    BY SMTT(30), <1>2, <2>1, <2>2, SubSeqProperties
  <2>4. path \in Seq(Nat) /\ path' \in Seq(Nat)
    BY SMTT(30), <1>2, <2>3
  <2>5. ASSUME NEW p \in ChainPaths, Passed(p)' PROVE ~Sound(p)
    <3>1. \/ Before(p, path')
          \/ Continues(p, path') /\ (Len(p) = n \/ p[n + 1] < path[n + 1] + 1)
      BY <2>2, <2>3, <2>5 DEF Passed
    <3>2. Before(p, path) \/ Continues(p, path)
      BY <2>1, <2>3, <2>4, <3>1, ChainPathType, BeforeBack
    <3> QED BY <1>3, <3>2
  <2> QED BY <1>1, <2>2, <2>5, SearchGoesOn
<1> QED BY <1>4, <1>5

LEMMA SearchNext ==
    ASSUME MaxIntermediates <= MaxSubCaCount, IInv, DepthInv, SearchInv, [Next]_vars
    PROVE  SearchInv'
<1>1. CASE Receive \/ Build
  <2>1. pc' \notin {"head", "anchor", "issuers"} /\ (pc' = "done" => root' = NoCert)
    BY <1>1 DEF Receive, Build, Lookup, Complete, Extend, BuildFails, Return, buildVars, IInv, BuildInv
  <2> QED BY <2>1 DEF SearchInv, Refused
<1>2. CASE UNCHANGED vars
  <2>1. UNCHANGED <<input, pc, leaf, root, chain, path, cursor, verdict>>
    BY <1>2 DEF vars, buildVars, walkVars
  <2>2. \A p \in ChainPaths : Passed(p)' <=> Passed(p)
    BY <2>1 DEF Passed
  <2>3. Refused' <=> Refused
    BY <2>1 DEF Refused
  <2> QED BY <2>1, <2>2, <2>3, SoundKept DEF SearchInv
<1>3. CASE CheckName
  <2>1. pc' = "done" /\ UNCHANGED <<input, leaf>>
        /\ verdict' = IF input.endpoint \in leaf.sans THEN "Ok" ELSE ChainVerifyError("CertNotValidForName")
    BY <1>3 DEF CheckName, Return, buildVars
  <2>2. ~Refused'
    BY <2>1 DEF Refused
  <2> QED BY <2>1, <2>2 DEF SearchInv
<1> QED BY <1>1, <1>2, <1>3, EndEntitySearch, HeadSearch, SkipSearch, TakeSearch, BacktrackSearch
        DEF Next, Verify, Finished

\* A nonempty set of natural numbers has a smallest element.
LEMMA LessIsWellFounded ==
    \E R : IsWellFoundedOn(R, Nat) /\ \A x, y \in Nat : x < y => <<x, y>> \in R
<1>1. IsWellFoundedOn(OpToRel(<, Nat), Nat)
  BY NatLessThanWellFounded
<1>2. \A x, y \in Nat : x < y => <<x, y>> \in OpToRel(<, Nat)
  BY SMTT(30) DEF OpToRel
<1> QED BY <1>1, <1>2

LEMMA Smallest ==
    ASSUME NEW T, T \subseteq Nat, T # {}
    PROVE  \E x \in T : \A y \in T : ~(y < x)
<1>1. PICK R : IsWellFoundedOn(R, Nat) /\ \A x, y \in Nat : x < y => <<x, y>> \in R
  BY LessIsWellFounded
<1>2. IsWellFoundedOn(R, Nat)
  BY <1>1
<1>3. \E x \in T : \A y \in T : ~(<<y, x>> \in R)
  <2> HIDE <1>1
  <2> QED BY <1>2, WFMin
<1> QED BY <1>1, <1>3

\* Walk v leaves out part of w, from one certificate to another with the same name
\* and key.  f says where in w the certificates of v are.
IsPart(v, w, f, m, n) ==
    /\ n \in Nat \ {0} /\ m \in Nat \ {0} /\ Len(w) = n /\ Len(v) = m
    /\ f \in [1..m -> 1..n] /\ f[m] = n
    /\ \A k \in 1..m : v[k] = w[f[k]] /\ f[k] >= k /\ (f[k] > 1 <=> k > 1)
    /\ \A j, k \in 1..m : j < k => f[j] < f[k]
    /\ \A k \in 1..(m - 1) : /\ w[f[k + 1]].key = w[f[k] + 1].key
                             /\ w[f[k + 1]].subject = w[f[k] + 1].subject
    /\ \A k \in 1..n : w[k].pathLen \in Nat

LEMMA PartIsAuthentic ==
    ASSUME NEW v, NEW w, NEW f, NEW m, NEW n, IsPart(v, w, f, m, n), Authentic(w)
    PROVE  Authentic(v)
<1> USE DEF IsPart
<1>1. /\ \A k \in 1..(m - 1) : k \in 1..m /\ k + 1 \in 1..m /\ k # m /\ f[k] \in 1..(n - 1)
      /\ \A k \in 1..m : k # m => k \in 1..(m - 1)
      /\ \A k \in 1..(n - 1) : k \in 1..n /\ k # n
      /\ m \in 1..m /\ n \in 1..n
  <2>1. \A k \in 1..(m - 1) : k \in 1..m /\ m \in 1..m /\ k < m /\ k + 1 \in 1..m /\ k # m
    BY SMTT(30)
  <2>2. ASSUME NEW k \in 1..(m - 1) PROVE f[k] \in 1..n /\ f[k] < n
    <3>1. k \in 1..m /\ m \in 1..m /\ k < m
      BY <2>1
    <3>2. f[k] < f[m]
      BY <3>1
    <3> QED BY <3>1, <3>2
  <2>3. \A k \in 1..(m - 1) : f[k] \in 1..(n - 1)
    BY SMTT(30), <2>2
  <2>4. /\ \A k \in 1..m : k # m => k \in 1..(m - 1)
        /\ \A k \in 1..(n - 1) : k \in 1..n /\ k # n
        /\ m \in 1..m /\ n \in 1..n
    BY SMTT(30)
  <2> QED BY <2>1, <2>3, <2>4
<1>2. Signed(v)
  <2> SUFFICES ASSUME NEW k \in 1..m PROVE v[k].signer = IF k = m THEN root.key ELSE v[k + 1].key
    BY DEF Signed
  <2>1. CASE k = m
    <3>1. n \in 1..n /\ v[k] = w[n]
      BY <1>1, <2>1
    <3>2. w[n].signer = root.key
      BY <3>1 DEF Authentic, Signed
    <3> QED BY <2>1, <3>1, <3>2
  <2>2. CASE k # m
    <3>1. k \in 1..(m - 1) /\ k + 1 \in 1..m /\ f[k] \in 1..n /\ f[k] # n
      BY <1>1, <2>2
    <3>2. w[f[k]].signer = w[f[k] + 1].key
      BY <3>1 DEF Authentic, Signed
    <3> QED BY <2>2, <3>1, <3>2
  <2> QED BY <2>1, <2>2
<1>3. \A k \in 1..(m - 1) : v[k].issuer = v[k + 1].subject
  <2> SUFFICES ASSUME NEW k \in 1..(m - 1) PROVE v[k].issuer = v[k + 1].subject
    OBVIOUS
  <2>1. k \in 1..m /\ k + 1 \in 1..m /\ f[k] \in 1..(n - 1)
    BY <1>1
  <2>2. w[f[k]].issuer = w[f[k] + 1].subject
    BY <2>1 DEF Authentic
  <2> QED BY <2>1, <2>2
<1>4. Permitted(v)
  <2> SUFFICES ASSUME NEW k \in 2..m, v[k].permitted # {}, NEW j \in 1..(k - 1),
                      NEW name \in v[j].sans
               PROVE  \E d \in v[k].permitted : Within(name, d)
    BY DEF Permitted
  <2>1. k \in 1..m /\ j \in 1..m /\ j < k /\ k > 1
    BY SMTT(30)
  <2>2. f[j] < f[k] /\ f[j] \in 1..n /\ f[k] \in 1..n /\ f[k] > 1
    BY <2>1
  <2>3. f[k] \in 2..n /\ f[j] \in 1..(f[k] - 1)
    BY SMTT(30), <2>2
  <2>4. v[k] = w[f[k]] /\ v[j] = w[f[j]]
    BY <2>1
  <2>5. \A d \in 1..(f[k] - 1) : \A x \in w[d].sans : \E e \in w[f[k]].permitted : Within(x, e)
    BY <2>3, <2>4 DEF Authentic, Permitted
  <2> QED BY <2>3, <2>4, <2>5
<1>5. ASSUME NEW k \in 1..m
      PROVE  /\ v[k] \in Presented /\ ~v[k].critical
             /\ 0 <= v[k].notBefore /\ v[k].notBefore <= Now /\ Now <= v[k].notAfter
             /\ EKUPolicy(v[k])
             /\ v[k].isCa <=> k > 1
             /\ k > 1 => k - 2 <= v[k].pathLen
  <2>1. f[k] \in 1..n /\ v[k] = w[f[k]] /\ f[k] >= k /\ (f[k] > 1 <=> k > 1)
    OBVIOUS
  <2>2. ASSUME k > 1 PROVE k - 2 <= v[k].pathLen
    <3>1. f[k] - 2 <= v[k].pathLen /\ v[k].pathLen \in Nat
      BY <2>1, <2>2 DEF Authentic
    <3> QED BY SMTT(30), <2>1, <3>1
  <2> QED BY <2>1, <2>2 DEF Authentic
<1>6. v[m].issuer = root.subject
  <2>1. v[m] = w[n]
    BY <1>1
  <2> QED BY <2>1 DEF Authentic
<1> QED BY <1>2, <1>3, <1>4, <1>5, <1>6 DEF Authentic

\* A path with a name and key twice, the leaf's excepted, has a shorter one in it.
LEMMA Shortcut ==
    ASSUME IInv, NEW p \in ChainPaths, Authentic(Walk(p)), ~LeafAgain(Walk(p)),
           NEW i \in 1..Len(p), NEW j \in 1..Len(p), i < j,
           Walk(p)[i + 1].key = Walk(p)[j + 1].key,
           Walk(p)[i + 1].subject = Walk(p)[j + 1].subject
    PROVE  \E q \in ChainPaths : Len(q) < Len(p) /\ Authentic(Walk(q)) /\ ~LeafAgain(Walk(q))
<1> DEFINE n == Len(p)
           d == j - i
           m == n - d
           q == [k \in 1..m |-> IF k < i THEN p[k] ELSE p[k + d]]
           f == [k \in 1..(m + 1) |-> IF k <= i THEN k ELSE k + d]
<1>1. /\ n \in Nat /\ n <= Len(chain) /\ Len(chain) \in Nat /\ p \in Seq(1..Len(chain))
      /\ \A k \in 1..n : p[k] \in 1..Len(chain)
  <2>1. Len(chain) \in Nat
    BY LenProperties DEF IInv, BuildInv
  <2>2. n \in 0..Len(chain)
    BY ChainPathType
  <2>3. n \in Nat /\ n <= Len(chain)
    BY SMTT(30), <2>1, <2>2
  <2> QED BY <2>1, <2>3, ChainPathType
<1>2. /\ d \in Nat \ {0} /\ m \in Nat \ {0} /\ m < n /\ i \in Nat /\ i >= 1 /\ i <= m /\ m \in 0..Len(chain)
      /\ n = m + d /\ j = i + d
  BY SMTT(30), <1>1
<1> HIDE DEF m, d
<1>3. \A k \in 1..m : (k < i => k \in 1..n) /\ (~(k < i) => k + d \in 1..n)
  BY SMTT(30), <1>1, <1>2
<1>4. q \in [1..m -> 1..Len(chain)]
  BY <1>1, <1>3
<1>5. q \in ChainPaths
  BY <1>2, <1>4 DEF ChainPaths
<1>6. q \in Seq(1..Len(chain)) /\ Len(q) = m
  BY SMTT(30), <1>2, <1>4
<1>7. /\ f \in [1..(m + 1) -> 1..(n + 1)] /\ f[m + 1] = n + 1
      /\ \A k \in 1..(m + 1) : f[k] >= k /\ (f[k] > 1 <=> k > 1)
      /\ \A a, b \in 1..(m + 1) : a < b => f[a] < f[b]
  <2>1. ASSUME NEW k \in 1..(m + 1)
        PROVE  f[k] \in 1..(n + 1) /\ f[k] >= k /\ (f[k] > 1 <=> k > 1)
    BY SMTT(30), <1>2
  <2>2. ASSUME NEW a \in 1..(m + 1), NEW b \in 1..(m + 1), a < b PROVE f[a] < f[b]
    BY SMTT(30), <1>2, <2>2
  <2>3. f[m + 1] = n + 1
    BY SMTT(30), <1>2
  <2> QED BY <2>1, <2>2, <2>3
<1> DEFINE w == Walk(p)
           v == Walk(q)
<1>8. /\ Len(w) = n + 1 /\ w[1] = leaf /\ \A k \in 1..n : w[k + 1] = chain[p[k]]
      /\ Len(v) = m + 1 /\ v[1] = leaf /\ \A k \in 1..m : v[k + 1] = chain[q[k]]
  BY <1>1, <1>6, WalkType
<1>9. ASSUME NEW k \in 1..(m + 1) PROVE v[k] = w[f[k]]
  <2>1. CASE k = 1
    <3>1. f[1] = 1
      BY SMTT(30), <1>2
    <3> QED BY <1>8, <2>1, <3>1
  <2>2. CASE k # 1
    <3>1. PICK l \in 1..m : k = l + 1
      BY SMTT(30), <1>2, <2>2
    <3>2. CASE l < i
      <4>1. f[k] = l + 1 /\ l \in 1..n
        BY SMTT(30), <1>2, <1>3, <3>1, <3>2
      <4>2. q[l] = p[l]
        BY <3>2
      <4>3. v[l + 1] = chain[q[l]] /\ w[l + 1] = chain[p[l]]
        BY <1>8, <4>1
      <4> QED BY <3>1, <4>1, <4>2, <4>3
    <3>3. CASE ~(l < i)
      <4>1. f[k] = l + d + 1 /\ l + d \in 1..n
        BY SMTT(30), <1>2, <1>3, <3>1, <3>3
      <4>2. q[l] = p[l + d]
        BY <3>3
      <4>3. v[l + 1] = chain[q[l]] /\ w[(l + d) + 1] = chain[p[l + d]]
        BY <1>8, <4>1
      <4> QED BY <3>1, <4>1, <4>2, <4>3
    <3> QED BY <3>2, <3>3
  <2> QED BY <2>1, <2>2
<1>10. ASSUME NEW k \in 1..((m + 1) - 1)
       PROVE  w[f[k + 1]].key = w[f[k] + 1].key /\ w[f[k + 1]].subject = w[f[k] + 1].subject
  <2>1. CASE k = i
    <3>1. f[k + 1] = j + 1 /\ f[k] + 1 = i + 1
      BY SMTT(30), <1>1, <1>2, <2>1
    <3> QED BY <3>1
  <2>2. CASE k # i
    <3>1. f[k + 1] = f[k] + 1
      BY SMTT(30), <1>1, <1>2, <2>2
    <3> QED BY <3>1
  <2> QED BY <2>1, <2>2
<1>11. \A k \in 1..(n + 1) : w[k].pathLen \in Nat
  <2>1. \A k \in 1..(n + 1) : w[k] \in Presented
    BY <1>8 DEF Authentic
  <2>2. \A c \in Presented : c.pathLen \in Nat
    BY ChainAssumption DEF Presented, IInv, StoreInv
  <2> QED BY <2>1, <2>2
<1>12. ~LeafAgain(v)
  <2>1. ASSUME NEW k \in 2..(m + 1), v[k].key = v[1].key, v[k].subject = v[1].subject PROVE FALSE
    <3>1. k \in 1..(m + 1) /\ k > 1
      BY SMTT(30), <1>2
    <3>2. f[k] \in 1..(n + 1) /\ f[k] > 1 /\ v[k] = w[f[k]]
      BY <1>7, <1>9, <3>1
    <3>3. f[k] \in 2..(n + 1)
      BY SMTT(30), <1>1, <3>2
    <3>4. f[k] \in 2..Len(w) /\ w[f[k]].key = w[1].key /\ w[f[k]].subject = w[1].subject
      BY <1>8, <2>1, <3>2, <3>3
    <3> HIDE DEF w, f
    <3>5. LeafAgain(w)
      BY <3>4 DEF LeafAgain
    <3> QED BY <3>5 DEF w
  <2> QED BY <1>8, <2>1 DEF LeafAgain
<1>13. n + 1 \in Nat \ {0} /\ m + 1 \in Nat \ {0}
  BY SMTT(30), <1>1, <1>2
<1> HIDE DEF f, w, v, m, q, n, d
<1>14. Authentic(w)
  BY DEF w
<1>15. Authentic(v)
  <2>1. IsPart(v, w, f, m + 1, n + 1)
    <3>1. \A k \in 1..(m + 1) : v[k] = w[f[k]] /\ f[k] >= k /\ (f[k] > 1 <=> k > 1)
      BY <1>7, <1>9
    <3>2. \A k \in 1..((m + 1) - 1) : /\ w[f[k + 1]].key = w[f[k] + 1].key
                                    /\ w[f[k + 1]].subject = w[f[k] + 1].subject
      BY <1>10
    <3>3. /\ f \in [1..(m + 1) -> 1..(n + 1)] /\ f[m + 1] = n + 1
          /\ \A a, b \in 1..(m + 1) : a < b => f[a] < f[b]
      BY <1>7
    <3>4. Len(w) = n + 1 /\ Len(v) = m + 1
      BY <1>8
    <3> HIDE <1>7, <1>8, <1>9, <1>10
    <3> QED BY <1>11, <1>13, <3>1, <3>2, <3>3, <3>4 DEF IsPart
  <2> QED BY <1>14, <2>1, PartIsAuthentic
<1> QED BY <1>2, <1>5, <1>6, <1>12, <1>15 DEF v, n

\* A certificate that webpki refuses has no path through its candidate chain that makes
\* it trusted, however the chain's names and keys are shared, unless the path returns
\* to the leaf's own name and key.
THEOREM RefusedHasNoPath ==
    ASSUME MaxIntermediates <= MaxSubCaCount
    PROVE  Spec => []RejectedHasNoPath
<1>1. Init => DepthInv /\ SearchInv
  BY SMTT(30), ChainAssumption
     DEF Init, DepthInv, DepthLimitNotReached, Limits, SearchInv, Refused
<1>2. IInv /\ DepthInv /\ SearchInv /\ [Next]_vars => DepthInv' /\ SearchInv'
  BY DepthNext, SearchNext
<1>3. ASSUME IInv, SearchInv, Refused, NEW p \in ChainPaths, Authentic(Walk(p)), ~LeafAgain(Walk(p))
      PROVE  FALSE
  <2> DEFINE Missed(q) == Authentic(Walk(q)) /\ ~LeafAgain(Walk(q))
             T == {n \in Nat : \E q \in ChainPaths : Len(q) = n /\ Missed(q)}
  <2>1. \A q \in ChainPaths : Len(q) \in Nat /\ q \in Seq(1..Len(chain))
    BY <1>3, ChainPathType, LenProperties
  <2>2. PICK n \in T : \A k \in T : ~(k < n)
    <3>1. Len(p) \in T
      BY <1>3, <2>1
    <3> HIDE DEF T
    <3>2. T \subseteq Nat
      BY DEF T
    <3> QED BY <3>1, <3>2, Smallest
  <2>3. PICK q \in ChainPaths : Len(q) = n /\ Missed(q)
    BY <2>2
  <2>4. ~LoopFree(Walk(q))
    BY <1>3, <2>3 DEF SearchInv, Sound
  <2>5. Len(Walk(q)) = n + 1 /\ n \in Nat
    BY <2>1, <2>3, WalkType
  <2>6. ASSUME NEW a \in 1..(n + 1), NEW b \in 1..(n + 1), a < b,
               Walk(q)[a].key = Walk(q)[b].key, Walk(q)[a].subject = Walk(q)[b].subject
        PROVE  FALSE
    <3>1. b \in 2..(n + 1)
      BY SMTT(30), <2>5, <2>6
    <3>2. a # 1
      BY <2>3, <2>5, <2>6, <3>1 DEF LeafAgain
    <3>3. PICK i \in 1..n, j \in 1..n : a = i + 1 /\ b = j + 1 /\ i < j
      <4>1. PICK i \in 1..n : a = i + 1
        BY SMTT(30), <2>5, <2>6, <3>2
      <4>2. PICK j \in 1..n : b = j + 1
        BY SMTT(30), <2>5, <3>1
      <4>3. i < j
        BY SMTT(30), <2>5, <2>6, <4>1, <4>2
      <4> QED BY <4>1, <4>2, <4>3
    <3>4. PICK r \in ChainPaths : Len(r) < Len(q) /\ Missed(r)
      BY <1>3, <2>3, <2>6, <3>3, Shortcut
    <3>5. Len(r) \in T
      BY <2>1, <3>4
    <3> QED BY <2>2, <2>3, <3>4, <3>5
  <2>7. PICK a \in 1..(n + 1), b \in 1..(n + 1) :
           a # b /\ Walk(q)[a].key = Walk(q)[b].key /\ Walk(q)[a].subject = Walk(q)[b].subject
    BY <2>4, <2>5 DEF LoopFree
  <2>8. a < b \/ b < a
    BY SMTT(30), <2>5, <2>7
  <2> QED BY <2>6, <2>7, <2>8
<1>4. IInv /\ SearchInv => RejectedHasNoPath
  BY <1>3 DEF RejectedHasNoPath
<1> QED BY <1>1, <1>2, <1>4, ChainInvariant, PTL DEF Spec

-------------------------------------------------------------------------------
(* The trust store *)

\* What the steps of the store are about, with certificates reduced to their ids.
CachedIds == [i \in Ids |-> IF i \in DOMAIN cache THEN IdsOf(cache[i]) ELSE NoCert]
ChainIds  == [k \in 1..Len(chain) |-> IdsOf(chain[k])]
Outcome ==
    IF pc = "receive" THEN "idle"
    ELSE IF pc = "build" THEN "building"
    ELSE IF pc = "done" /\ root = NoCert THEN verdict ELSE "Ok"

LEMMA StoreInit == Init => Store!Init
<1> SUFFICES ASSUME Init PROVE Store!Init
  OBVIOUS
<1>1. ChainIds = <<>> /\ CachedIds = [i \in Ids |-> NoCert] /\ DOMAIN cache = {}
  BY SMTT(30) DEF Init, ChainIds, CachedIds
<1> QED BY <1>1 DEF Init, Store!Init, ChainIds, CachedIds

LEMMA StoreReceive == IInv /\ Receive => [Store!Next]_(Store!vars)
<1> SUFFICES ASSUME IInv, Receive PROVE [Store!Next]_(Store!vars)
  OBVIOUS
<1> DEFINE c == input.presented[received + 1]
<1>1. /\ UNCHANGED <<pc, leaf, next, root, chain, verdict>>
      /\ pc = "receive" /\ leaf = NoCert
  BY DEF IInv, BuildInv, Receive, buildVars
<1>2. CASE ~Parses(c)
  BY <1>1, <1>2 DEF Receive, Store!vars, Store!callVars
<1>3. CASE Parses(c)
  <2>1. c \in Parsed
    BY SMTT(30), <1>3, ChainAssumption DEF IInv, StoreInv, Receive, Parsed, Presented
  <2>2. IdsOf(c) \in Pairs /\ IdsOf(c).id = c.ski /\ c.ski \in Ids
    BY <2>1, ParsedIds DEF IInv, IdsOf
  <2>3. /\ DOMAIN cache' = DOMAIN cache \cup {c.ski}
        /\ \A i \in DOMAIN cache' : cache'[i] = IF i = c.ski THEN c ELSE cache[i]
    BY <1>3 DEF Receive, Insert
  <2>4. CachedIds' = [CachedIds EXCEPT ![c.ski] = IdsOf(c)]
    BY <2>2, <2>3 DEF CachedIds
  <2>5. CASE CachedIds[c.ski] # IdsOf(c)
    BY ZenonT(60), <1>1, <2>2, <2>3, <2>4, <2>5 DEF CachedIds, Store!Next, Store!Add, Store!callVars
  <2>6. CASE CachedIds[c.ski] = IdsOf(c)
    <3>1. c.ski \in DOMAIN cache
      BY <2>1, <2>2, <2>6, ParsedIds DEF CachedIds, IInv
    <3> QED BY ZenonT(60), <1>1, <2>2, <2>3, <2>4, <2>6, <3>1 DEF CachedIds, Store!vars, Store!callVars
  <2> QED BY <2>5, <2>6
<1> QED BY <1>2, <1>3

LEMMA StoreLookup == IInv /\ Lookup => Store!Next
<1> SUFFICES ASSUME IInv, Lookup PROVE Store!Next
  OBVIOUS
<1>1. /\ input.signer \in Ids /\ pc = "receive" /\ leaf = NoCert /\ root = NoCert
      /\ UNCHANGED <<cache, root, chain>>
  BY ChainAssumption DEF IInv, StoreInv, BuildInv, Lookup, storeVars
<1>2. CASE input.signer \notin DOMAIN cache
  BY <1>1, <1>2 DEF Lookup, Return, Store!Next, Store!ValidateUnknown, Store!Goto
<1>3. CASE input.signer \in DOMAIN cache
  <2>1. /\ leaf' = cache[input.signer] /\ next' = leaf'.aki /\ pc' = "build"
        /\ leaf' # NoCert /\ IdsOf(leaf') # NoCert /\ IdsOf(leaf').issuer = leaf'.aki
    BY <1>3, ParsedIds DEF Lookup, IInv, StoreInv, IdsOf
  <2> QED BY <1>1, <1>3, <2>1 DEF Store!Next, Store!Validate, Store!Goto
<1> QED BY <1>2, <1>3

LEMMA StoreBuild == IInv /\ (Complete \/ Extend \/ BuildFails) => Store!Next
<1> SUFFICES ASSUME IInv, Complete \/ Extend \/ BuildFails PROVE Store!Next
  OBVIOUS
<1>1. /\ pc = "build" /\ root = NoCert /\ next \in Ids /\ leaf # NoCert
      /\ chain \in Seq(Parsed) /\ Len(chain) \in Nat /\ DOMAIN ChainIds = 1..Len(chain)
      /\ Len(ChainIds) = Len(chain) /\ ChainIds \in Seq(Pairs)
  <2>1. pc = "build" /\ root = NoCert /\ next \in Ids /\ chain \in Seq(Parsed) /\ leaf \in Parsed
    BY DEF Complete, Extend, BuildFails, IInv, BuildInv
  <2>2. Len(chain) \in Nat /\ \A k \in 1..Len(chain) : IdsOf(chain[k]) \in Pairs
    BY <2>1, LenProperties, ElementOfSeq, ParsedIds DEF IInv
  <2> QED BY SMTT(30), <2>1, <2>2, ParsedIds DEF IInv, ChainIds
<1>2. Found(next) # {} <=> next \in {Roots[k].ski : k \in 1..Len(Roots)}
  BY DEF Found
<1>3. CASE Complete
  <2>1. /\ root' # NoCert /\ pc' = "endEntity" /\ UNCHANGED <<cache, leaf, next, chain, verdict>>
        /\ Found(next) # {}
    BY <1>3, ChainAssumption DEF Complete, Found, storeVars
  <2> QED BY <1>1, <1>2, <2>1 DEF Store!Next, Store!BuildStep, Store!Complete, Store!Goto
<1>4. CASE Extend
  <2>1. /\ chain' = Append(chain, cache[next]) /\ next' = cache[next].aki /\ next \in DOMAIN cache
        /\ UNCHANGED <<pc, cache, leaf, root, verdict>> /\ Found(next) = {}
        /\ Len(chain) < MaxIntermediates
    BY <1>4 DEF Extend, storeVars
  <2>2. cache[next] \in Parsed /\ IdsOf(cache[next]) \in Pairs /\ IdsOf(cache[next]) # NoCert
    BY <2>1, ParsedIds DEF IInv, StoreInv
  <2>3. ChainIds' = Append(ChainIds, IdsOf(cache[next]))
    <3>1. /\ Len(chain') = Len(chain) + 1 /\ chain'[Len(chain) + 1] = cache[next]
          /\ \A k \in 1..Len(chain) : chain'[k] = chain[k]
      BY SMTT(30), <1>1, <2>1, <2>2, AppendProperties
    <3> QED BY SMTT(30), <1>1, <2>2, <3>1 DEF ChainIds
  <2> QED BY <1>1, <1>2, <2>1, <2>2, <2>3
          DEF Store!Next, Store!BuildStep, Store!Extend, ChainIds, IdsOf
<1>5. CASE BuildFails
  <2>1. /\ UNCHANGED <<cache, leaf, next, chain, root>> /\ Found(next) = {} /\ pc' = "done"
    BY <1>5 DEF BuildFails, Return, storeVars, buildVars
  <2>2. \/ Len(chain) >= MaxIntermediates /\ verdict' = "ExcessivelyLongChain"
        \/ /\ Len(chain) < MaxIntermediates /\ next \notin DOMAIN cache
           /\ verdict' = "MissingIntermediate"
    BY <1>5 DEF BuildFails, Return
  <2> QED BY <1>1, <1>2, <2>1, <2>2
          DEF Store!Next, Store!BuildStep, Store!Excessive, Store!Missing, Store!Goto, ChainIds
<1> QED BY <1>3, <1>4, <1>5

\* Verification leaves the store alone, and has no say in what building came to.
LEMMA StoreVerify == IInv /\ (Verify \/ UNCHANGED vars) => UNCHANGED Store!vars
<1> SUFFICES ASSUME IInv, Verify \/ UNCHANGED vars PROVE UNCHANGED Store!vars
  OBVIOUS
<1>1. UNCHANGED <<cache, leaf, next, root, chain>>
  BY DEF Verify, EndEntity, CheckHead, TryAnchor, SkipIssuer, TakeIssuer, Backtrack, CheckName,
         vars, storeVars, buildVars
<1>2. Outcome' = Outcome
  <2>1. CASE UNCHANGED vars
    BY <2>1, <1>1 DEF vars, Outcome
  <2>2. CASE Verify
    <3>1. pc \in {"endEntity", "head", "anchor", "issuers", "name"}
      BY <2>2 DEF Verify, EndEntity, CheckHead, TryAnchor, SkipIssuer, TakeIssuer, Backtrack, CheckName
    <3>2. pc' \in {"head", "anchor", "issuers", "name", "done"}
      BY <2>2 DEF Verify, EndEntity, CheckHead, TryAnchor, SkipIssuer, TakeIssuer, Backtrack, CheckName,
                  Return
    <3>3. root # NoCert
      BY <3>1, ChainAssumption DEF IInv, BuildInv, Searching
    <3> QED BY <1>1, <3>1, <3>2, <3>3 DEF Outcome
  <2> QED BY <2>1, <2>2
<1> QED BY <1>1, <1>2 DEF Outcome, Store!vars, Store!callVars

\* What the steps do to certificates is what the specification of the trust store
\* allows to do to their ids, for any presented certificates: so chains are linked
\* and bounded, and what they hold cannot change under verification.
THEOREM ChainImplementsStore == Spec => ImplementsStore
<1>1. IInv /\ [Next]_vars => [Store!Next]_(Store!vars)
  BY StoreReceive, StoreLookup, StoreBuild, StoreVerify DEF Next, Build, Finished
<1> QED BY <1>1, StoreInit, ChainInvariant, PTL DEF Spec, ImplementsStore, Store!Spec

===============================================================================
