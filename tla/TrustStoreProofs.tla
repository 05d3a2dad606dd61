--------------------------- MODULE TrustStoreProofs ---------------------------
(***************************************************************************)
(* Proofs about TrustStore, for any number of ids, certificates, roots and *)
(* concurrent calls, and any MaxIntermediates.                             *)
(***************************************************************************)
EXTENDS TrustStore, SequenceTheorems, TLAPS

USE ZenonT(30)

\* A chain stays linked when the certificate that was asked for is appended to it,
\* and then asks for that certificate's issuer.
LEMMA AppendLinked ==
    ASSUME NEW c \in Certs, NEW s \in Seq(Certs), NEW d \in Certs,
           Linked(c, s), d.id = Wanted(c, s), d.id \notin Roots
    PROVE  Linked(c, Append(s, d)) /\ Wanted(c, Append(s, d)) = d.issuer
<1> DEFINE t == Append(s, d)
<1>1. /\ t \in Seq(Certs) /\ Len(t) = Len(s) + 1
      /\ \A k \in 1..Len(s) : t[k] = s[k]
      /\ t[Len(s) + 1] = d
  BY SMTT(30)
<1>2. Linked(c, t)
  <2> SUFFICES ASSUME NEW k \in 1..Len(t)
               PROVE  /\ t[k].id = IF k = 1 THEN c.issuer ELSE t[k - 1].issuer
                      /\ t[k].id \notin Roots
    BY DEF Linked
  <2>1. CASE k \in 1..Len(s)
    <3>1. k # 1 => k - 1 \in 1..Len(s)
      BY SMTT(30), <2>1
    <3> QED BY <1>1, <2>1, <3>1 DEF Linked
  <2>2. CASE k = Len(s) + 1
    <3>1. CASE s = <<>>
      BY SMTT(30), <1>1, <2>2, <3>1 DEF Wanted
    <3>2. CASE s # <<>>
      <4>1. Len(s) \in 1..Len(s) /\ k # 1 /\ k - 1 = Len(s)
        BY SMTT(30), <2>2, <3>2
      <4> QED BY <1>1, <2>2, <3>2, <4>1 DEF Wanted
    <3> QED BY <3>1, <3>2
  <2> QED BY SMTT(30), <1>1, <2>1, <2>2
<1>3. Wanted(c, t) = d.issuer
  <2>1. t # <<>> /\ t[Len(t)] = d
    BY SMTT(30), <1>1
  <2> QED BY <2>1 DEF Wanted
<1> QED BY <1>2, <1>3

LEMMA InitCallsInv == Init => CallsInv
<1> SUFFICES ASSUME Init PROVE CallsInv
  OBVIOUS
<1> USE TrustAssumption
<1>1. TypeOK
  BY SMTT(30) DEF Init, TypeOK, Results
<1>2. GetAssertion /\ ChainIsLinked
  BY DEF Init, GetAssertion, ChainIsLinked
<1>3. ChainIsBounded
  BY SMTT(30) DEF Init, ChainIsBounded
<1> QED BY <1>1, <1>2, <1>3 DEF Init, CallsInv

\* One conjunct of the invariant that speaks of a single call.
CallInv(v) ==
    /\ pc[v] \notin {"idle", "MissingLeafCert"} =>
          /\ Linked(leaf[v], chain[v])
          /\ next[v] = Wanted(leaf[v], chain[v])
          /\ pc[v] = "Ok" => next[v] \in Roots
    /\ Len(chain[v]) <= MaxIntermediates
    /\ pc[v] = "ExcessivelyLongChain" => Len(chain[v]) = MaxIntermediates
    /\ pc[v] \in {"idle", "MissingLeafCert"} => chain[v] = <<>>
    /\ pc[v] = "building" => leaf[v] \in Certs /\ next[v] \in Ids

LEMMA CallsInvByCall ==
    CallsInv <=> TypeOK /\ GetAssertion /\ \A v \in Validators : CallInv(v)
BY DEF CallsInv, ChainIsLinked, ChainIsBounded, CallInv

\* A step that touches no call leaves what is known of every call as it is.
LEMMA UntouchedCalls ==
    ASSUME \A v \in Validators : CallInv(v), UNCHANGED callVars
    PROVE  \A v \in Validators : CallInv(v)'
BY SMTT(30) DEF CallInv, callVars, Linked, Wanted

\* A step of one call leaves what is known of the others as it is.
LEMMA OtherCalls ==
    ASSUME TypeOK, \A v \in Validators : CallInv(v), NEW v \in Validators,
           \A u \in Validators \ {v} :
              /\ pc'[u] = pc[u] /\ leaf'[u] = leaf[u]
              /\ next'[u] = next[u] /\ chain'[u] = chain[u]
    PROVE  \A u \in Validators \ {v} : CallInv(u)'
<1> SUFFICES ASSUME NEW u \in Validators \ {v} PROVE CallInv(u)'
  OBVIOUS
<1>1. Linked(leaf[u], chain[u])' <=> Linked(leaf[u], chain[u])
  BY DEF Linked
<1>2. Wanted(leaf[u], chain[u])' = Wanted(leaf[u], chain[u])
  BY DEF Wanted
<1> QED BY <1>1, <1>2 DEF CallInv

LEMMA StepCallsInv == CallsInv /\ [Next]_vars => CallsInv'
<1> SUFFICES ASSUME TypeOK, GetAssertion, \A v \in Validators : CallInv(v), [Next]_vars
             PROVE  TypeOK' /\ GetAssertion' /\ (\A v \in Validators : CallInv(v)')
  <2>1. CallsInv' <=> TypeOK' /\ GetAssertion' /\ (\A v \in Validators : CallInv(v)')
    BY DEF CallsInv, ChainIsLinked, ChainIsBounded, CallInv
  <2> QED BY <2>1, CallsInvByCall
<1> USE TrustAssumption
<1>1. ASSUME NEW c \in Certs, Add(c)
      PROVE  TypeOK' /\ GetAssertion' /\ (\A v \in Validators : CallInv(v)')
  <2>1. TypeOK' /\ GetAssertion'
    BY <1>1 DEF Add, callVars, TypeOK, GetAssertion
  <2> QED BY <1>1, <2>1, UntouchedCalls DEF Add
<1>2. ASSUME NEW i \in Ids, Evict(i)
      PROVE  TypeOK' /\ GetAssertion' /\ (\A v \in Validators : CallInv(v)')
  <2>1. TypeOK' /\ GetAssertion'
    BY <1>2 DEF Evict, callVars, TypeOK, GetAssertion
  <2> QED BY <1>2, <2>1, UntouchedCalls DEF Evict
<1>3. ASSUME NEW v \in Validators, NEW i \in Ids, Validate(v, i)
      PROVE  TypeOK' /\ GetAssertion' /\ (\A u \in Validators : CallInv(u)')
  <2>1. cache[i] \in Certs /\ cache[i].issuer \in Ids
    BY <1>3 DEF Validate, TypeOK
  <2>2. TypeOK'
    BY <1>3, <2>1 DEF Validate, Goto, TypeOK
  <2>3. GetAssertion'
    BY <1>3 DEF Validate, GetAssertion
  <2>4. chain[v] = <<>>
    BY <1>3 DEF Validate, CallInv
  <2>5. CallInv(v)'
    BY SMTT(30), <1>3, <2>1, <2>4 DEF Validate, Goto, TypeOK, CallInv, Linked, Wanted
  <2>6. \A u \in Validators \ {v} : CallInv(u)'
    BY <1>3, OtherCalls DEF Validate, Goto, TypeOK
  <2> QED BY <2>2, <2>3, <2>5, <2>6
<1>4. ASSUME NEW v \in Validators, NEW i \in Ids, ValidateUnknown(v, i)
      PROVE  TypeOK' /\ GetAssertion' /\ (\A u \in Validators : CallInv(u)')
  <2>1. TypeOK' /\ GetAssertion'
    BY <1>4 DEF ValidateUnknown, Goto, TypeOK, GetAssertion, Results
  <2>2. CallInv(v)'
    BY <1>4 DEF ValidateUnknown, Goto, TypeOK, CallInv
  <2>3. \A u \in Validators \ {v} : CallInv(u)'
    BY <1>4, OtherCalls DEF ValidateUnknown, Goto, TypeOK
  <2> QED BY <2>1, <2>2, <2>3
<1>5. ASSUME NEW v \in Validators, Complete(v) \/ Excessive(v) \/ Missing(v)
      PROVE  TypeOK' /\ GetAssertion' /\ (\A u \in Validators : CallInv(u)')
  <2>1. TypeOK' /\ GetAssertion'
    BY <1>5 DEF Complete, Excessive, Missing, Goto, TypeOK, GetAssertion, Results
  <2>2. Len(chain[v]) \in Nat
    BY SMTT(30) DEF TypeOK
  <2>3. CallInv(v)'
    <3>1. Linked(leaf[v], chain[v]) /\ next[v] = Wanted(leaf[v], chain[v])
      BY <1>5 DEF Complete, Excessive, Missing, CallInv
    <3>2. Linked(leaf[v], chain[v])' /\ (next[v] = Wanted(leaf[v], chain[v]))'
      BY <1>5, <3>1 DEF Complete, Excessive, Missing, Linked, Wanted
    <3> QED BY SMTT(30), <1>5, <2>2, <3>2 DEF Complete, Excessive, Missing, Goto, TypeOK, CallInv
  <2>4. \A u \in Validators \ {v} : CallInv(u)'
    BY <1>5, OtherCalls DEF Complete, Excessive, Missing, Goto, TypeOK
  <2> QED BY <2>1, <2>3, <2>4
<1>6. ASSUME NEW v \in Validators, Extend(v)
      PROVE  TypeOK' /\ GetAssertion' /\ (\A u \in Validators : CallInv(u)')
  <2> DEFINE d == cache[next[v]]
  <2>1. /\ pc[v] = "building" /\ leaf[v] \in Certs /\ next[v] \in Ids
        /\ d \in Certs /\ d.issuer \in Ids /\ d.id = next[v]
    BY SMTT(30), <1>6 DEF Extend, TypeOK, GetAssertion, CallInv
  <2>2. /\ chain[v] \in Seq(Certs) /\ Linked(leaf[v], chain[v])
        /\ next[v] = Wanted(leaf[v], chain[v]) /\ next[v] \notin Roots
    BY <1>6, <2>1 DEF Extend, TypeOK, CallInv
  <2>3. /\ chain' = [chain EXCEPT ![v] = Append(chain[v], d)]
        /\ next' = [next EXCEPT ![v] = d.issuer]
        /\ UNCHANGED <<cache, pc, leaf, stable>>
    BY <1>6 DEF Extend
  <2>4. TypeOK'
    BY SMTT(30), <2>1, <2>2, <2>3 DEF TypeOK
  <2>5. GetAssertion'
    BY <2>3 DEF GetAssertion
  <2>6. chain'[v] = Append(chain[v], d) /\ next'[v] = d.issuer /\ leaf'[v] = leaf[v]
    BY <2>3 DEF TypeOK
  <2>7. Linked(leaf[v], Append(chain[v], d)) /\ Wanted(leaf[v], Append(chain[v], d)) = d.issuer
    BY <2>1, <2>2, AppendLinked
  <2>8. Linked(leaf[v], chain[v])' /\ (next[v] = Wanted(leaf[v], chain[v]))'
    BY <2>6, <2>7 DEF Linked, Wanted
  <2>9. Len(chain'[v]) <= MaxIntermediates
    BY SMTT(30), <1>6, <2>2, <2>6 DEF Extend
  <2>10. CallInv(v)'
    BY <2>1, <2>3, <2>6, <2>8, <2>9 DEF CallInv
  <2>11. \A u \in Validators \ {v} : CallInv(u)'
    BY <2>3, OtherCalls DEF TypeOK
  <2> QED BY <2>4, <2>5, <2>10, <2>11
<1>7. ASSUME NEW v \in Validators, Return(v)
      PROVE  TypeOK' /\ GetAssertion' /\ (\A u \in Validators : CallInv(u)')
  <2>1. TypeOK' /\ GetAssertion'
    BY SMTT(30), <1>7 DEF Return, Goto, TypeOK, GetAssertion
  <2>2. CallInv(v)'
    BY SMTT(30), <1>7 DEF Return, Goto, TypeOK, CallInv
  <2>3. \A u \in Validators \ {v} : CallInv(u)'
    BY <1>7, OtherCalls DEF Return, Goto, TypeOK
  <2> QED BY <2>1, <2>2, <2>3
<1>8. CASE UNCHANGED vars
  <2>1. TypeOK' /\ GetAssertion'
    BY <1>8 DEF vars, callVars, TypeOK, GetAssertion
  <2> QED BY <1>8, <2>1, UntouchedCalls DEF vars
<1> QED BY <1>1, <1>2, <1>3, <1>4, <1>5, <1>6, <1>7, <1>8 DEF Next, BuildStep

-------------------------------------------------------------------------------
(* The chain of a call is the only path there is *)

\* Nothing that OnlyPath(v) speaks of changes.
LEMMA OnlyPathKept ==
    ASSUME NEW v \in Validators, OnlyPath(v), cache' = cache,
           pc'[v] = pc[v], leaf'[v] = leaf[v], next'[v] = next[v], chain'[v] = chain[v],
           stable'[v] = stable[v]
    PROVE  OnlyPath(v)'
BY SMTT(30) DEF OnlyPath, Paths, Cached, Linked

\* A path that agrees with chain t up to its end continues with the one cached
\* certificate that has the id t asks for.
LEMMA NextOnPath ==
    ASSUME GetAssertion, NEW c \in Certs, NEW t \in Seq(Certs), NEW n \in Nat,
           NEW s \in Paths(c, n), Len(t) + 1 <= n,
           \A k \in 1..n : k <= Len(t) => s[k] = t[k]
    PROVE  s[Len(t) + 1] # NoCert /\ s[Len(t) + 1] = cache[Wanted(c, t)]
<1> DEFINE m == Len(t)
<1>1. m \in Nat /\ m + 1 \in 1..n
  BY SMTT(30), LenProperties
<1>2. s \in [1..n -> Cached] /\ Linked(c, s) /\ Len(s) = n
  BY SMTT(30) DEF Paths
<1>3. PICK i \in Ids : s[m + 1] = cache[i] /\ cache[i] # NoCert
  BY SMTT(30), <1>1, <1>2 DEF Cached
<1>4. s[m + 1].id = i
  BY <1>3 DEF GetAssertion
<1>5. s[m + 1].id = IF m + 1 = 1 THEN c.issuer ELSE s[m + 1 - 1].issuer
  BY SMTT(30), <1>1, <1>2 DEF Linked
<1>6. s[m + 1].id = Wanted(c, t)
  <2>1. CASE m = 0
    BY SMTT(30), <1>5, <2>1 DEF Wanted
  <2>2. CASE m # 0
    <3>1. m \in 1..n /\ m + 1 # 1 /\ m + 1 - 1 = m /\ t # <<>>
      BY SMTT(30), <1>1, <2>2
    <3> QED BY SMTT(30), <1>5, <3>1 DEF Wanted
  <2> QED BY <2>1, <2>2
<1> QED BY <1>3, <1>4, <1>6

LEMMA InitOnlyPath == Init => \A v \in Validators : OnlyPath(v)
BY DEF Init, OnlyPath

LEMMA UpToOneMore ==
    ASSUME NEW m \in Nat, NEW n \in Nat, NEW k \in 1..n, k <= m + 1
    PROVE  (k \in 1..m /\ k <= m) \/ (k = m + 1 /\ m + 1 <= n)
<1>1. k \in Nat /\ k >= 1 /\ k <= n
  BY SMTT(30)
<1>2. CASE k <= m
  <2>1. k \in 1..m
    BY SMTT(30), <1>1, <1>2
  <2> QED BY <1>2, <2>1
<1>3. CASE ~(k <= m)
  <2>1. k = m + 1
    BY SMTT(30), <1>1, <1>3
  <2> QED BY <1>1, <2>1
<1> QED BY <1>2, <1>3

\* The certificate that is appended is the one every path continues with.
LEMMA ExtendOnlyPath ==
    ASSUME CallsInv, NEW v \in Validators, OnlyPath(v), Extend(v)
    PROVE  OnlyPath(v)'
<1> DEFINE c == leaf[v]
           t == chain[v]
           d == cache[next[v]]
<1>1. /\ pc[v] = "building" /\ c \in Certs /\ next[v] \in Ids /\ d # NoCert
      /\ t \in Seq(Certs) /\ d \in Certs /\ next[v] = Wanted(c, t)
  BY DEF Extend, CallsInv, TypeOK, ChainIsLinked
<1>2. /\ cache' = cache /\ pc'[v] = "building" /\ leaf'[v] = c /\ stable'[v] = stable[v]
      /\ chain'[v] = Append(t, d)
  BY <1>1 DEF Extend, CallsInv, TypeOK
<1>3. /\ Len(t) \in Nat /\ Len(Append(t, d)) = Len(t) + 1
      /\ \A k \in 1..Len(t) : Append(t, d)[k] = t[k]
      /\ Append(t, d)[Len(t) + 1] = d
  BY SMTT(30), <1>1
<1> SUFFICES ASSUME stable[v]
             PROVE  /\ \A k \in 1..Len(Append(t, d)) : Append(t, d)[k] \in Cached
                    /\ \A n \in 0..MaxIntermediates : \A s \in Paths(c, n) : \A k \in 1..n :
                          k <= Len(Append(t, d)) => s[k] = Append(t, d)[k]
  <2>1. Cached' = Cached /\ \A n \in 0..MaxIntermediates : Paths(leaf[v], n)' = Paths(c, n)
    BY SMTT(30), <1>2 DEF Paths, Cached, Linked
  <2>2. CASE ~stable[v]
    BY <1>2, <2>2 DEF OnlyPath
  <2>3. CASE /\ \A k \in 1..Len(Append(t, d)) : Append(t, d)[k] \in Cached
             /\ \A n \in 0..MaxIntermediates : \A s \in Paths(c, n) : \A k \in 1..n :
                   k <= Len(Append(t, d)) => s[k] = Append(t, d)[k]
    <3>1. \A k \in 1..Len(chain'[v]) : chain'[v][k] \in Cached'
      BY <1>2, <2>1, <2>3
    <3>2. \A n \in 0..MaxIntermediates : \A s \in Paths(leaf[v], n)' : \A k \in 1..n :
             k <= Len(chain'[v]) => s[k] = chain'[v][k]
      BY <1>2, <2>1, <2>3
    <3> QED BY <1>1, <1>2, <3>1, <3>2 DEF OnlyPath
  <2> QED BY <2>2, <2>3
<1>4. /\ \A k \in 1..Len(t) : t[k] \in Cached
      /\ \A n \in 0..MaxIntermediates : \A s \in Paths(c, n) : \A k \in 1..n :
            k <= Len(t) => s[k] = t[k]
  BY <1>1 DEF OnlyPath
<1>5. d \in Cached
  BY <1>1 DEF Cached
<1>6. ASSUME NEW k \in 1..Len(Append(t, d)) PROVE Append(t, d)[k] \in Cached
  <2>1. k \in 1..Len(t) \/ k = Len(t) + 1
    BY SMTT(30), <1>3
  <2> QED BY <1>3, <1>4, <1>5, <2>1
<1>7. ASSUME NEW n \in 0..MaxIntermediates, NEW s \in Paths(c, n), NEW k \in 1..n,
             k <= Len(Append(t, d))
      PROVE  s[k] = Append(t, d)[k]
  <2>0. n \in Nat /\ k \in 1..n /\ k <= Len(t) + 1
    BY SMTT(30), <1>3, <1>7, TrustAssumption
  <2>1. n \in Nat /\ ((k \in 1..Len(t) /\ k <= Len(t)) \/ (k = Len(t) + 1 /\ Len(t) + 1 <= n))
    BY <1>3, <2>0, UpToOneMore
  <2>2. CASE k \in 1..Len(t) /\ k <= Len(t)
    BY <1>3, <1>4, <2>2
  <2>3. CASE k = Len(t) + 1 /\ Len(t) + 1 <= n
    <3>1. \A j \in 1..n : j <= Len(t) => s[j] = t[j]
      BY <1>4
    <3>2. s[Len(t) + 1] = cache[Wanted(c, t)]
      BY SMTT(30), <1>1, <2>1, <2>3, <3>1, NextOnPath DEF CallsInv
    <3> QED BY <1>1, <1>3, <2>3, <3>2
  <2> QED BY <2>1, <2>2, <2>3
<1> QED BY <1>6, <1>7

LEMMA StepOnlyPath ==
    ASSUME CallsInv, \A u \in Validators : OnlyPath(u), [Next]_vars, NEW v \in Validators
    PROVE  OnlyPath(v)'
<1>1. CASE (\E c \in Certs : Add(c)) \/ (\E i \in Ids : Evict(i))
  <2>1. stable'[v] = FALSE
    BY <1>1 DEF Add, Evict
  <2> QED BY <2>1 DEF OnlyPath
<1>2. ASSUME NEW u \in Validators, NEW i \in Ids, Validate(u, i) PROVE OnlyPath(v)'
  <2>1. CASE u = v
    <3>1. /\ pc'[v] = "building" /\ leaf'[v] = cache[i] /\ cache[i] \in Certs
          /\ chain'[v] = <<>>
      BY <1>2, <2>1 DEF Validate, Goto, CallsInv, TypeOK
    <3>2. Len(chain'[v]) = 0
      BY SMTT(30), <3>1
    <3> QED BY SMTT(30), <3>1, <3>2 DEF OnlyPath
  <2>2. CASE u # v
    BY <1>2, <2>2, OnlyPathKept DEF Validate, Goto, CallsInv, TypeOK
  <2> QED BY <2>1, <2>2
<1>3. ASSUME NEW u \in Validators, NEW i \in Ids, ValidateUnknown(u, i) PROVE OnlyPath(v)'
  <2>1. CASE u = v
    <3>1. pc'[v] = "MissingLeafCert"
      BY <1>3, <2>1 DEF ValidateUnknown, Goto, CallsInv, TypeOK
    <3> QED BY <3>1 DEF OnlyPath
  <2>2. CASE u # v
    BY <1>3, <2>2, OnlyPathKept DEF ValidateUnknown, Goto, CallsInv, TypeOK
  <2> QED BY <2>1, <2>2
<1>4. ASSUME NEW u \in Validators, Complete(u) \/ Excessive(u) \/ Missing(u)
      PROVE  OnlyPath(v)'
  <2>1. CASE u = v
    <3>1. /\ UNCHANGED <<cache, leaf, next, chain, stable>>
          /\ pc[v] = "building"
          /\ \/ pc'[v] = "Ok"
             \/ pc'[v] = "ExcessivelyLongChain" /\ next[v] \notin Roots
             \/ /\ pc'[v] = "MissingIntermediate" /\ next[v] \notin Roots
                /\ cache[next[v]] = NoCert /\ Len(chain[v]) < MaxIntermediates
      BY <1>4, <2>1 DEF Complete, Excessive, Missing, Goto, CallsInv, TypeOK
    <3>2. Cached' = Cached /\ \A n \in 0..MaxIntermediates : Paths(leaf[v], n)' = Paths(leaf[v], n)
      BY SMTT(30), <3>1 DEF Paths, Cached, Linked
    <3> QED BY SMTT(30), <3>1, <3>2 DEF OnlyPath
  <2>2. CASE u # v
    BY <1>4, <2>2, OnlyPathKept DEF Complete, Excessive, Missing, Goto, CallsInv, TypeOK
  <2> QED BY <2>1, <2>2
<1>5. ASSUME NEW u \in Validators, Extend(u) PROVE OnlyPath(v)'
  <2>1. CASE u = v
    BY <1>5, <2>1, ExtendOnlyPath
  <2>2. CASE u # v
    BY <1>5, <2>2, OnlyPathKept DEF Extend, CallsInv, TypeOK
  <2> QED BY <2>1, <2>2
<1>6. ASSUME NEW u \in Validators, Return(u) PROVE OnlyPath(v)'
  <2>1. CASE u = v
    <3>1. pc'[v] = "idle"
      BY <1>6, <2>1 DEF Return, Goto, CallsInv, TypeOK
    <3> QED BY <3>1 DEF OnlyPath
  <2>2. CASE u # v
    BY <1>6, <2>2, OnlyPathKept DEF Return, Goto, CallsInv, TypeOK
  <2> QED BY <2>1, <2>2
<1>7. CASE UNCHANGED vars
  BY <1>7, OnlyPathKept DEF vars, callVars
<1> QED BY <1>1, <1>2, <1>3, <1>4, <1>5, <1>6, <1>7 DEF Next, BuildStep

\* The invariant holds in every state the trust store reaches.
THEOREM TrustInvariant == Spec => []IInv
<1>1. Init => IInv
  BY InitCallsInv, InitOnlyPath DEF IInv
<1>2. IInv /\ [Next]_vars => IInv'
  BY StepCallsInv, StepOnlyPath DEF IInv
<1> QED BY <1>1, <1>2, PTL DEF Spec

\* Whatever others insert and the cache evicts while build_unverified_chain_for
\* walks, the chain it has is linked from the leaf up, and one that it returns ends
\* at a root.
THEOREM TrustChainIsLinked == Spec => []ChainIsLinked
<1>1. IInv => ChainIsLinked
  BY DEF IInv, CallsInv
<1> QED BY <1>1, TrustInvariant, PTL

\* No candidate chain has more than MAX_INTERMEDIATES certificates.
THEOREM TrustChainIsBounded == Spec => []ChainIsBounded
<1>1. IInv => ChainIsBounded
  BY DEF IInv, CallsInv
<1> QED BY <1>1, TrustInvariant, PTL

\* The assertion in MemoryCertCache::get never fails.
THEOREM TrustGetAssertion == Spec => []GetAssertion
<1>1. IInv => GetAssertion
  BY DEF IInv, CallsInv
<1> QED BY <1>1, TrustInvariant, PTL

-------------------------------------------------------------------------------
(* The walk and the cache as a whole *)

\* A path no longer than the chain t ends below it, where no root is asked for.
LEMMA ShorterPathAsksNoRoot ==
    ASSUME NEW c \in Certs, NEW t \in Seq(Certs), Linked(c, t), Wanted(c, t) \notin Roots,
           NEW n \in Nat, n <= Len(t), NEW s \in Paths(c, n),
           \A k \in 1..n : s[k] = t[k]
    PROVE  Wanted(c, s) \notin Roots
<1>1. s \in [1..n -> Cached] /\ Len(t) \in Nat
  BY SMTT(30) DEF Paths
<1>2. s \in Seq(Cached) /\ Len(s) = n
  BY SMTT(30), <1>1
<1>3. CASE n = 0
  <2>1. s = <<>>
    BY SMTT(30), <1>2, <1>3
  <2>2. CASE t = <<>>
    BY <2>1, <2>2
  <2>3. CASE t # <<>>
    <3>1. 1 \in 1..Len(t)
      BY SMTT(30), <1>1, <2>3
    <3>2. t[1].id = c.issuer /\ t[1].id \notin Roots
      BY <3>1 DEF Linked
    <3> QED BY <2>1, <3>2 DEF Wanted
  <2> QED BY <2>2, <2>3
<1>4. CASE n # 0
  <2>1. s # <<>> /\ t # <<>> /\ n \in 1..n
    BY SMTT(30), <1>1, <1>2, <1>4
  <2>2. Wanted(c, s) = t[n].issuer
    BY <1>2, <2>1 DEF Wanted
  <2>3. CASE n = Len(t)
    BY <2>1, <2>2, <2>3 DEF Wanted
  <2>4. CASE n # Len(t)
    <3>1. n + 1 \in 1..Len(t) /\ n + 1 # 1 /\ n + 1 - 1 = n
      BY SMTT(30), <1>1, <1>4, <2>4
    <3>2. t[n + 1].id = t[n].issuer /\ t[n + 1].id \notin Roots
      BY SMTT(30), <3>1 DEF Linked
    <3> QED BY <2>2, <3>2
  <2> QED BY <2>3, <2>4
<1> QED BY <1>3, <1>4

\* build_unverified_chain_for follows one issuer after the other and never goes
\* back.  If nobody touches the cache during the call, that is enough: the answer is
\* the one the whole cache gives, for any certificates, circles included.
THEOREM TrustVerdictIsRight == Spec => []VerdictIsRight
<1>1. ASSUME IInv, NEW v \in Validators, pc[v] \in Results \ {"MissingLeafCert"}, stable[v]
      PROVE  pc[v] = Verdict(leaf[v])
  <2> DEFINE c == leaf[v]
             t == chain[v]
  <2>1. /\ pc[v] \in {"Ok", "MissingIntermediate", "ExcessivelyLongChain"}
        /\ pc[v] \notin {"idle", "MissingLeafCert"}
    BY <1>1 DEF Results
  <2>2. /\ t \in Seq(Certs) /\ Linked(c, t) /\ next[v] = Wanted(c, t)
        /\ pc[v] = "Ok" => next[v] \in Roots
    BY <1>1, <2>1 DEF IInv, CallsInv, TypeOK, ChainIsLinked
  <2>3. /\ c \in Certs
        /\ \A k \in 1..Len(t) : t[k] \in Cached
        /\ \A n \in 0..MaxIntermediates : \A s \in Paths(c, n) : \A k \in 1..n :
              k <= Len(t) => s[k] = t[k]
        /\ pc[v] \in {"MissingIntermediate", "ExcessivelyLongChain"} => next[v] \notin Roots
        /\ pc[v] = "MissingIntermediate" =>
              cache[next[v]] = NoCert /\ Len(t) < MaxIntermediates
    BY <1>1, <2>1 DEF IInv, OnlyPath
  <2>4. /\ MaxIntermediates \in Nat /\ Len(t) \in Nat /\ Len(t) \in 0..MaxIntermediates
        /\ pc[v] = "ExcessivelyLongChain" => Len(t) = MaxIntermediates
    BY SMTT(30), <1>1, <2>2, TrustAssumption DEF IInv, CallsInv, ChainIsBounded
  <2>5. t \in Paths(c, Len(t))
    BY SMTT(30), <2>2, <2>3 DEF Paths
  <2>6. ASSUME next[v] \notin Roots, NEW n \in 0..MaxIntermediates, n <= Len(t),
               NEW s \in Paths(c, n)
        PROVE  Wanted(c, s) \notin Roots
    <3>1. n \in Nat /\ \A k \in 1..n : k <= Len(t)
      BY SMTT(30), <2>4, <2>6
    <3>2. \A k \in 1..n : s[k] = t[k]
      BY <2>3, <3>1
    <3> QED BY <2>2, <2>3, <2>6, <3>1, <3>2, ShorterPathAsksNoRoot
  <2>7. CASE pc[v] = "Ok"
    BY <2>2, <2>4, <2>5, <2>7 DEF Verdict
  <2>8. CASE pc[v] = "ExcessivelyLongChain"
    <3>1. next[v] \notin Roots /\ Len(t) = MaxIntermediates
      BY <2>3, <2>4, <2>8
    <3>2. \A n \in 0..MaxIntermediates : n <= Len(t)
      BY SMTT(30), <2>4, <3>1
    <3>3. Paths(c, MaxIntermediates) # {}
      BY <2>5, <3>1
    <3> QED BY <2>6, <2>8, <3>1, <3>2, <3>3 DEF Verdict
  <2>9. CASE pc[v] = "MissingIntermediate"
    <3>1. next[v] \notin Roots /\ cache[next[v]] = NoCert /\ Len(t) < MaxIntermediates
      BY <2>3, <2>9
    <3>2. ASSUME NEW n \in 0..MaxIntermediates, ~(n <= Len(t)), NEW s \in Paths(c, n)
          PROVE  FALSE
      <4>1. n \in Nat /\ Len(t) + 1 <= n
        BY SMTT(30), <2>4, <3>2
      <4>2. \A k \in 1..n : k <= Len(t) => s[k] = t[k]
        BY <2>3
      <4>3. s[Len(t) + 1] # NoCert /\ s[Len(t) + 1] = cache[Wanted(c, t)]
        BY SMTT(30), <1>1, <2>2, <2>3, <4>1, <4>2, NextOnPath DEF IInv, CallsInv
      <4> QED BY <2>2, <3>1, <4>3
    <3>3. \A n \in 0..MaxIntermediates : \A s \in Paths(c, n) : Wanted(c, s) \notin Roots
      BY <2>6, <3>1, <3>2
    <3>4. MaxIntermediates \in 0..MaxIntermediates /\ ~(MaxIntermediates <= Len(t))
      BY SMTT(30), <2>4, <3>1
    <3>5. Paths(c, MaxIntermediates) = {}
      BY <3>2, <3>4
    <3> QED BY <2>9, <3>3, <3>5 DEF Verdict
  <2> QED BY <2>1, <2>7, <2>8, <2>9
<1>2. IInv => VerdictIsRight
  BY <1>1 DEF VerdictIsRight
<1> QED BY <1>2, TrustInvariant, PTL

===============================================================================
