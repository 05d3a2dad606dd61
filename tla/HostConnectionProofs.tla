-------------------------- MODULE HostConnectionProofs --------------------------
(***************************************************************************)
(* Proofs about HostConnection, for any number of goroutines and           *)
(* connections and any capacity of the pool.                               *)
(***************************************************************************)
EXTENDS HostConnection, TLAPS

USE ZenonT(30)

LEMMA InitIInv == Init => IInv
<1> SUFFICES ASSUME Init PROVE IInv
  OBVIOUS
<1> USE HostAssumption
<1>1. TypeOK
  BY SMTT(30) DEF Init, TypeOK
<1>2. CtxInv
  BY DEF Init, CtxInv
<1>3. ASSUME NEW t \in Threads PROVE CallInv(t)
  BY DEF Init, CallInv, Calls
<1>4. ASSUME NEW c \in Conns PROVE LifeInv(c) /\ WorkInv(c)
  BY SMTT(30) DEF Init, LifeInv, WorkInv
<1> QED BY <1>1, <1>2, <1>3, <1>4 DEF IInv

LEMMA NewConnectionIInv ==
    ASSUME IInv, NEW t \in Threads, NEW c \in Conns, NewConnection(t, c)
    PROVE  IInv'
<1> USE HostAssumption
<1>0. /\ TypeOK /\ CtxInv
      /\ \A u \in Threads : CallInv(u)
      /\ \A e \in Conns : LifeInv(e) /\ WorkInv(e)
  BY DEF IInv
<1>1. TypeOK'
  BY <1>0 DEF NewConnection, lifeVars, cbVars, TypeOK
<1>2. CtxInv'
  BY <1>0 DEF NewConnection, CtxInv, CtxClosed
<1>3. ASSUME NEW u \in Threads PROVE CallInv(u)'
  BY SMTT(30), <1>0 DEF NewConnection, lifeVars, cbVars, CallInv
<1>4. ASSUME NEW e \in Conns PROVE LifeInv(e)'
  BY SMTT(30), <1>0 DEF NewConnection, lifeVars, TypeOK, LifeInv
<1>5. ASSUME NEW e \in Conns PROVE WorkInv(e)'
  BY SMTT(30), <1>0 DEF NewConnection, lifeVars, cbVars, WorkInv
<1> QED BY <1>1, <1>2, <1>3, <1>4, <1>5 DEF IInv

LEMMA ConnectedIInv ==
    ASSUME IInv, NEW t \in Threads, NEW c \in Conns, Connected(t, c)
    PROVE  IInv'
<1> USE HostAssumption
<1>0. /\ TypeOK /\ CtxInv
      /\ \A u \in Threads : CallInv(u)
      /\ \A e \in Conns : LifeInv(e) /\ WorkInv(e)
  BY DEF IInv
<1>1. TypeOK'
  BY <1>0 DEF Connected, Enter, Goto, ctxVars, poolVars, cbVars, TypeOK
<1>2. CtxInv'
  BY SMTT(30), <1>0 DEF Connected, Enter, Goto, ctxVars, CtxInv, CtxClosed, LifeInv
<1>3. ASSUME NEW u \in Threads PROVE CallInv(u)'
  BY SMTT(30), <1>0 DEF Connected, Enter, Goto, cbVars, TypeOK, CallInv, LifeInv, WorkInv
<1>4. ASSUME NEW e \in Conns PROVE LifeInv(e)'
  BY SMTT(30), <1>0 DEF Connected, Enter, Goto, ctxVars, poolVars, TypeOK, LifeInv
<1>5. ASSUME NEW e \in Conns PROVE WorkInv(e)'
  BY SMTT(30), <1>0 DEF Connected, poolVars, cbVars, WorkInv
<1> QED BY <1>1, <1>2, <1>3, <1>4, <1>5 DEF IInv

LEMMA RecvIInv ==
    ASSUME IInv, NEW t \in Threads, NEW c \in Conns, Recv(t, c)
    PROVE  IInv'
<1> USE HostAssumption
<1>0. /\ TypeOK /\ CtxInv
      /\ \A u \in Threads : CallInv(u)
      /\ \A e \in Conns : LifeInv(e) /\ WorkInv(e)
  BY DEF IInv
<1>1. TypeOK'
  BY <1>0 DEF Recv, Enter, Goto, ctxVars, poolVars, TypeOK
<1>2. CtxInv'
  BY SMTT(30), <1>0 DEF Recv, Enter, Goto, ctxVars, CtxInv, CtxClosed
<1>3. ASSUME NEW u \in Threads PROVE CallInv(u)'
  BY SMTT(30), <1>0 DEF Recv, Enter, Goto, TypeOK, CallInv, LifeInv, Calls
<1>4. ASSUME NEW e \in Conns PROVE LifeInv(e)'
  BY SMTT(30), <1>0 DEF Recv, Enter, Goto, ctxVars, poolVars, LifeInv
<1>5. ASSUME NEW e \in Conns PROVE WorkInv(e)'
  BY SMTT(30), <1>0 DEF Recv, poolVars, WorkInv
<1> QED BY <1>1, <1>2, <1>3, <1>4, <1>5 DEF IInv

LEMMA CloseIInv ==
    ASSUME IInv, NEW t \in Threads, NEW c \in Conns, Close(t, c)
    PROVE  IInv'
<1> USE HostAssumption
<1>0. /\ TypeOK /\ CtxInv
      /\ \A u \in Threads : CallInv(u)
      /\ \A e \in Conns : LifeInv(e) /\ WorkInv(e)
  BY DEF IInv
<1>1. /\ UNCHANGED <<ptr, closer, conns, native, open, pending, answering, sendCb, dispatchCb, received>>
      /\ mu[c] = Nobody /\ pc[t] \in {"idle", "closeAll"} /\ native[c] # "none"
      /\ todo' = [todo EXCEPT ![t] = @ \ {c}]
  BY <1>0 DEF Close, ctxVars, cbVars, LifeInv
<1>2. CASE closed[c]
  <2>1. UNCHANGED <<mu, closed, connected, accepting, pc, at>>
    BY <1>2 DEF Close, lifeVars
  <2>2. TypeOK'
    BY <1>0, <1>1, <2>1 DEF TypeOK
  <2>3. CtxInv'
    BY SMTT(30), <1>0, <1>1, <1>2, <2>1 DEF CtxInv, CtxClosed, LifeInv
  <2>4. ASSUME NEW u \in Threads PROVE CallInv(u)'
    BY <1>0, <1>1, <2>1 DEF CallInv
  <2>5. ASSUME NEW e \in Conns PROVE LifeInv(e)' /\ WorkInv(e)'
    BY SMTT(30), <1>0, <1>1, <2>1 DEF LifeInv, WorkInv
  <2> QED BY <2>2, <2>3, <2>4, <2>5 DEF IInv
<1>3. CASE ~closed[c]
  <2>1. /\ mu' = [mu EXCEPT ![c] = t] /\ closed' = [closed EXCEPT ![c] = TRUE]
        /\ accepting' = [accepting EXCEPT ![c] = FALSE]
        /\ pc' = [pc EXCEPT ![t] = "shutdown"] /\ at' = [at EXCEPT ![t] = c]
        /\ connected' = connected
    BY <1>3 DEF Close, Goto
  <2>2. TypeOK'
    BY <1>0, <1>1, <2>1 DEF TypeOK
  <2>3. CtxInv'
    BY <1>0, <1>1, <1>3, <2>1 DEF TypeOK, CtxInv, CtxClosed
  <2>4. ASSUME NEW u \in Threads PROVE CallInv(u)'
    BY SMTT(30), <1>0, <1>1, <1>3, <2>1 DEF TypeOK, CallInv, LifeInv, Calls
  <2>5. ASSUME NEW e \in Conns PROVE LifeInv(e)' /\ WorkInv(e)'
    BY SMTT(30), <1>0, <1>1, <1>3, <2>1 DEF TypeOK, LifeInv, WorkInv
  <2> QED BY <2>2, <2>3, <2>4, <2>5 DEF IInv
<1> QED BY <1>2, <1>3

LEMMA ConnectedReturnsIInv ==
    ASSUME IInv, NEW t \in Threads, ConnectedReturns(t)
    PROVE  IInv'
<1> USE HostAssumption
<1>0. /\ TypeOK /\ CtxInv
      /\ \A u \in Threads : CallInv(u)
      /\ \A e \in Conns : LifeInv(e) /\ WorkInv(e)
  BY DEF IInv
<1>1. TypeOK'
  BY <1>0 DEF ConnectedReturns, Return, Goto, ctxVars, poolVars, cbVars, TypeOK, CallInv, Calls
<1>2. CtxInv'
  BY SMTT(30), <1>0 DEF ConnectedReturns, Return, Goto, ctxVars, CtxInv, CtxClosed, CallInv
<1>3. ASSUME NEW u \in Threads PROVE CallInv(u)'
  BY <1>0 DEF ConnectedReturns, Return, Goto, cbVars, TypeOK, CallInv, Calls
<1>4. ASSUME NEW e \in Conns PROVE LifeInv(e)'
  BY SMTT(30), <1>0 DEF ConnectedReturns, Return, Goto, ctxVars, poolVars, CallInv, LifeInv
<1>5. ASSUME NEW e \in Conns PROVE WorkInv(e)'
  BY <1>0 DEF ConnectedReturns, Return, poolVars, cbVars, WorkInv
<1> QED BY <1>1, <1>2, <1>3, <1>4, <1>5 DEF IInv

LEMMA RecvReturnsIInv ==
    ASSUME IInv, NEW t \in Threads, RecvReturns(t)
    PROVE  IInv'
<1> USE HostAssumption
<1>0. /\ TypeOK /\ CtxInv
      /\ \A u \in Threads : CallInv(u)
      /\ \A e \in Conns : LifeInv(e) /\ WorkInv(e)
  BY DEF IInv
<1>1. TypeOK'
  BY <1>0 DEF RecvReturns, Return, Goto, ctxVars, poolVars, cbVars, TypeOK, CallInv, Calls
<1>2. CtxInv'
  BY SMTT(30), <1>0 DEF RecvReturns, Return, Goto, ctxVars, CtxInv, CtxClosed, CallInv
<1>3. ASSUME NEW u \in Threads PROVE CallInv(u)'
  BY ZenonT(40), <1>0 DEF RecvReturns, Return, Goto, cbVars, TypeOK, CallInv, Calls
<1>4. ASSUME NEW e \in Conns PROVE LifeInv(e)'
  BY SMTT(30), <1>0 DEF RecvReturns, Return, Goto, ctxVars, poolVars, CallInv, LifeInv
<1>5. ASSUME NEW e \in Conns PROVE WorkInv(e)'
  BY <1>0 DEF RecvReturns, Return, poolVars, cbVars, WorkInv
<1> QED BY <1>1, <1>2, <1>3, <1>4, <1>5 DEF IInv

LEMMA ShutdownReturnsIInv ==
    ASSUME IInv, NEW t \in Threads, ShutdownReturns(t)
    PROVE  IInv'
<1> USE HostAssumption
<1>0. /\ TypeOK /\ CtxInv
      /\ \A u \in Threads : CallInv(u)
      /\ \A e \in Conns : LifeInv(e) /\ WorkInv(e)
  BY DEF IInv
<1>1. TypeOK'
  BY <1>0 DEF ShutdownReturns, Goto, ctxVars, lifeVars, poolVars, cbVars, TypeOK, CallInv, Calls
<1>2. CtxInv'
  BY SMTT(30), <1>0 DEF ShutdownReturns, Goto, ctxVars, lifeVars, CtxInv, CtxClosed, CallInv
<1>3. ASSUME NEW u \in Threads PROVE CallInv(u)'
  BY SMTT(30), <1>0 DEF ShutdownReturns, Goto, lifeVars, cbVars, TypeOK, CallInv, Calls
<1>4. ASSUME NEW e \in Conns PROVE LifeInv(e)'
  BY SMTT(30), <1>0 DEF ShutdownReturns, Goto, ctxVars, lifeVars, poolVars, CallInv, LifeInv
<1>5. ASSUME NEW e \in Conns PROVE WorkInv(e)'
  BY SMTT(30), <1>0 DEF ShutdownReturns, lifeVars, poolVars, cbVars, WorkInv
<1> QED BY <1>1, <1>2, <1>3, <1>4, <1>5 DEF IInv

LEMMA DisconnectedReturnsIInv ==
    ASSUME IInv, NEW t \in Threads, DisconnectedReturns(t)
    PROVE  IInv'
<1> USE HostAssumption
<1>0. /\ TypeOK /\ CtxInv
      /\ \A u \in Threads : CallInv(u)
      /\ \A e \in Conns : LifeInv(e) /\ WorkInv(e)
  BY DEF IInv
<1>1. TypeOK'
  BY <1>0 DEF DisconnectedReturns, Goto, ctxVars, lifeVars, poolVars, cbVars, TypeOK, CallInv, Calls
<1>2. CtxInv'
  BY SMTT(30), <1>0 DEF DisconnectedReturns, Goto, ctxVars, lifeVars, CtxInv, CtxClosed, CallInv
<1>3. ASSUME NEW u \in Threads PROVE CallInv(u)'
  BY <1>0 DEF DisconnectedReturns, Goto, lifeVars, cbVars, TypeOK, CallInv, Calls
<1>4. ASSUME NEW e \in Conns PROVE LifeInv(e)'
  BY SMTT(30), <1>0 DEF DisconnectedReturns, Goto, ctxVars, lifeVars, poolVars, CallInv, LifeInv
<1>5. ASSUME NEW e \in Conns PROVE WorkInv(e)'
  BY SMTT(30), <1>0 DEF DisconnectedReturns, lifeVars, poolVars, cbVars, CallInv, WorkInv
<1> QED BY <1>1, <1>2, <1>3, <1>4, <1>5 DEF IInv

LEMMA FreeReturnsIInv ==
    ASSUME IInv, NEW t \in Threads, FreeReturns(t)
    PROVE  IInv'
<1> USE HostAssumption
<1>0. /\ TypeOK /\ CtxInv
      /\ \A u \in Threads : CallInv(u)
      /\ \A e \in Conns : LifeInv(e) /\ WorkInv(e)
  BY DEF IInv
<1>1. TypeOK'
  BY <1>0 DEF FreeReturns, Goto, ctxVars, lifeVars, poolVars, cbVars, TypeOK, CallInv, Calls
<1>2. CtxInv'
  BY SMTT(30), <1>0 DEF FreeReturns, Goto, ctxVars, lifeVars, CtxInv, CtxClosed
<1>3. ASSUME NEW u \in Threads PROVE CallInv(u)'
  BY ZenonT(40), <1>0 DEF FreeReturns, Goto, lifeVars, cbVars, TypeOK, CallInv, Calls
<1>4. ASSUME NEW e \in Conns PROVE LifeInv(e)'
  BY SMTT(30), <1>0 DEF FreeReturns, Goto, ctxVars, lifeVars, poolVars, TypeOK, CallInv, LifeInv
<1>5. ASSUME NEW e \in Conns PROVE WorkInv(e)'
  BY SMTT(30), <1>0 DEF FreeReturns, lifeVars, poolVars, cbVars, CallInv, WorkInv
<1> QED BY <1>1, <1>2, <1>3, <1>4, <1>5 DEF IInv

LEMMA ReleaseIInv ==
    ASSUME IInv, NEW t \in Threads, Release(t)
    PROVE  IInv'
<1> USE HostAssumption
<1>0. /\ TypeOK /\ CtxInv
      /\ \A u \in Threads : CallInv(u)
      /\ \A e \in Conns : LifeInv(e) /\ WorkInv(e)
  BY DEF IInv
<1>1. TypeOK'
  BY <1>0 DEF Release, Goto, ctxVars, poolVars, cbVars, TypeOK, CallInv, Calls
<1>2. CtxInv'
  BY SMTT(30), <1>0 DEF Release, Goto, ctxVars, CtxInv, CtxClosed, CallInv
<1>3. ASSUME NEW u \in Threads PROVE CallInv(u)'
  BY ZenonT(40), <1>0 DEF Release, Goto, cbVars, TypeOK, CallInv, Calls
<1>4. ASSUME NEW e \in Conns PROVE LifeInv(e)'
  BY SMTT(30), <1>0 DEF Release, Goto, ctxVars, poolVars, CallInv, LifeInv
<1>5. ASSUME NEW e \in Conns PROVE WorkInv(e)'
  BY <1>0 DEF Release, poolVars, cbVars, WorkInv
<1> QED BY <1>1, <1>2, <1>3, <1>4, <1>5 DEF IInv

LEMMA ForgetIInv ==
    ASSUME IInv, NEW t \in Threads, Forget(t)
    PROVE  IInv'
<1> USE HostAssumption
<1>0. /\ TypeOK /\ CtxInv
      /\ \A u \in Threads : CallInv(u)
      /\ \A e \in Conns : LifeInv(e) /\ WorkInv(e)
  BY DEF IInv
<1>1. TypeOK'
  BY <1>0 DEF Forget, Return, Goto, lifeVars, poolVars, cbVars, TypeOK
<1>2. CtxInv'
  BY SMTT(30), <1>0 DEF Forget, Return, Goto, lifeVars, CtxInv, CtxClosed
<1>3. ASSUME NEW u \in Threads PROVE CallInv(u)'
  BY <1>0 DEF Forget, Return, Goto, lifeVars, cbVars, TypeOK, CallInv, Calls
<1>4. ASSUME NEW e \in Conns PROVE LifeInv(e)'
  BY SMTT(30), <1>0 DEF Forget, Return, Goto, lifeVars, poolVars, CallInv, LifeInv
<1>5. ASSUME NEW e \in Conns PROVE WorkInv(e)'
  BY <1>0 DEF Forget, Return, lifeVars, poolVars, cbVars, WorkInv
<1> QED BY <1>1, <1>2, <1>3, <1>4, <1>5 DEF IInv

LEMMA CloseContextIInv ==
    ASSUME IInv, NEW t \in Threads, CloseContext(t)
    PROVE  IInv'
<1> USE HostAssumption
<1>0. /\ TypeOK /\ CtxInv
      /\ \A u \in Threads : CallInv(u)
      /\ \A e \in Conns : LifeInv(e) /\ WorkInv(e)
  BY DEF IInv
<1>1. TypeOK'
  BY <1>0 DEF CloseContext, Goto, lifeVars, poolVars, cbVars, TypeOK
<1>2. CtxInv'
  BY SMTT(30), <1>0 DEF CloseContext, Goto, TypeOK, CtxInv, CtxClosed, LifeInv
<1>3. ASSUME NEW u \in Threads PROVE CallInv(u)'
  BY SMTT(30), <1>0 DEF CloseContext, Goto, lifeVars, cbVars, CallInv, Calls
<1>4. ASSUME NEW e \in Conns PROVE LifeInv(e)'
  BY SMTT(30), <1>0 DEF CloseContext, Goto, lifeVars, poolVars, LifeInv
<1>5. ASSUME NEW e \in Conns PROVE WorkInv(e)'
  BY <1>0 DEF CloseContext, lifeVars, poolVars, cbVars, WorkInv
<1> QED BY <1>1, <1>2, <1>3, <1>4, <1>5 DEF IInv

LEMMA FreeContextIInv ==
    ASSUME IInv, NEW t \in Threads, FreeContext(t)
    PROVE  IInv'
<1> USE HostAssumption
<1>0. /\ TypeOK /\ CtxInv
      /\ \A u \in Threads : CallInv(u)
      /\ \A e \in Conns : LifeInv(e) /\ WorkInv(e)
  BY DEF IInv
<1>1. TypeOK'
  BY <1>0 DEF FreeContext, Goto, lifeVars, poolVars, cbVars, TypeOK
<1>2. CtxInv'
  BY SMTT(30), <1>0 DEF FreeContext, Goto, TypeOK, CtxInv, CtxClosed, LifeInv
<1>3. ASSUME NEW u \in Threads PROVE CallInv(u)'
  BY SMTT(30), <1>0 DEF FreeContext, Goto, lifeVars, cbVars, CallInv, Calls
<1>4. ASSUME NEW e \in Conns PROVE LifeInv(e)'
  BY SMTT(30), <1>0 DEF FreeContext, Goto, lifeVars, poolVars, LifeInv
<1>5. ASSUME NEW e \in Conns PROVE WorkInv(e)'
  BY <1>0 DEF FreeContext, lifeVars, poolVars, cbVars, WorkInv
<1> QED BY <1>1, <1>2, <1>3, <1>4, <1>5 DEF IInv

LEMMA SendCbCalledIInv ==
    ASSUME IInv, NEW c \in Conns, SendCbCalled(c)
    PROVE  IInv'
<1> USE HostAssumption
<1>0. /\ TypeOK /\ CtxInv
      /\ \A u \in Threads : CallInv(u)
      /\ \A e \in Conns : LifeInv(e) /\ WorkInv(e)
  BY DEF IInv
<1>1. TypeOK'
  BY <1>0 DEF SendCbCalled, ctxVars, lifeVars, poolVars, TypeOK
<1>2. CtxInv'
  BY <1>0 DEF SendCbCalled, ctxVars, lifeVars, CtxInv, CtxClosed
<1>3. ASSUME NEW u \in Threads PROVE CallInv(u)'
  BY <1>0 DEF SendCbCalled, lifeVars, CallInv
<1>4. ASSUME NEW e \in Conns PROVE LifeInv(e)'
  BY <1>0 DEF SendCbCalled, ctxVars, lifeVars, poolVars, LifeInv
<1>5. ASSUME NEW e \in Conns PROVE WorkInv(e)'
  BY SMTT(30), <1>0 DEF SendCbCalled, lifeVars, poolVars, WorkInv
<1> QED BY <1>1, <1>2, <1>3, <1>4, <1>5 DEF IInv

LEMMA SendCbReturnsIInv ==
    ASSUME IInv, NEW c \in Conns, SendCbReturns(c)
    PROVE  IInv'
<1> USE HostAssumption
<1>0. /\ TypeOK /\ CtxInv
      /\ \A u \in Threads : CallInv(u)
      /\ \A e \in Conns : LifeInv(e) /\ WorkInv(e)
  BY DEF IInv
<1>1. TypeOK'
  BY <1>0 DEF SendCbReturns, ctxVars, lifeVars, poolVars, TypeOK
<1>2. CtxInv'
  BY <1>0 DEF SendCbReturns, ctxVars, lifeVars, CtxInv, CtxClosed
<1>3. ASSUME NEW u \in Threads PROVE CallInv(u)'
  BY <1>0 DEF SendCbReturns, lifeVars, CallInv
<1>4. ASSUME NEW e \in Conns PROVE LifeInv(e)'
  BY <1>0 DEF SendCbReturns, ctxVars, lifeVars, poolVars, LifeInv
<1>5. ASSUME NEW e \in Conns PROVE WorkInv(e)'
  BY SMTT(30), <1>0 DEF SendCbReturns, lifeVars, poolVars, WorkInv
<1> QED BY <1>1, <1>2, <1>3, <1>4, <1>5 DEF IInv

LEMMA DispatchCbCalledIInv ==
    ASSUME IInv, NEW c \in Conns, DispatchCbCalled(c)
    PROVE  IInv'
<1> USE HostAssumption
<1>0. /\ TypeOK /\ CtxInv
      /\ \A u \in Threads : CallInv(u)
      /\ \A e \in Conns : LifeInv(e) /\ WorkInv(e)
  BY DEF IInv
<1>1. TypeOK'
  BY <1>0 DEF DispatchCbCalled, ctxVars, lifeVars, poolVars, TypeOK
<1>2. CtxInv'
  BY <1>0 DEF DispatchCbCalled, ctxVars, lifeVars, CtxInv, CtxClosed
<1>3. ASSUME NEW u \in Threads PROVE CallInv(u)'
  BY <1>0 DEF DispatchCbCalled, lifeVars, CallInv
<1>4. ASSUME NEW e \in Conns PROVE LifeInv(e)'
  BY <1>0 DEF DispatchCbCalled, ctxVars, lifeVars, poolVars, LifeInv
<1>5. ASSUME NEW e \in Conns PROVE WorkInv(e)'
  BY SMTT(30), <1>0 DEF DispatchCbCalled, lifeVars, poolVars, WorkInv
<1> QED BY <1>1, <1>2, <1>3, <1>4, <1>5 DEF IInv

LEMMA DispatchCbReturnsIInv ==
    ASSUME IInv, NEW c \in Conns, DispatchCbReturns(c)
    PROVE  IInv'
<1> USE HostAssumption
<1>0. /\ TypeOK /\ CtxInv
      /\ \A u \in Threads : CallInv(u)
      /\ \A e \in Conns : LifeInv(e) /\ WorkInv(e)
  BY DEF IInv
<1>1. TypeOK'
  BY SMTT(30), <1>0 DEF DispatchCbReturns, ctxVars, lifeVars, TypeOK
<1>2. CtxInv'
  BY <1>0 DEF DispatchCbReturns, ctxVars, lifeVars, CtxInv, CtxClosed
<1>3. ASSUME NEW u \in Threads PROVE CallInv(u)'
  BY <1>0 DEF DispatchCbReturns, lifeVars, CallInv
<1>4. ASSUME NEW e \in Conns PROVE LifeInv(e)'
  BY <1>0 DEF DispatchCbReturns, ctxVars, lifeVars, LifeInv
<1>5. ASSUME NEW e \in Conns PROVE WorkInv(e)'
  BY SMTT(30), <1>0 DEF DispatchCbReturns, lifeVars, TypeOK, LifeInv, WorkInv
<1> QED BY <1>1, <1>2, <1>3, <1>4, <1>5 DEF IInv

LEMMA AnswerStartsIInv ==
    ASSUME IInv, NEW c \in Conns, AnswerStarts(c)
    PROVE  IInv'
<1> USE HostAssumption
<1>0. /\ TypeOK /\ CtxInv
      /\ \A u \in Threads : CallInv(u)
      /\ \A e \in Conns : LifeInv(e) /\ WorkInv(e)
  BY DEF IInv
<1>1. TypeOK'
  BY SMTT(30), <1>0 DEF AnswerStarts, ctxVars, lifeVars, cbVars, TypeOK
<1>2. CtxInv'
  BY <1>0 DEF AnswerStarts, ctxVars, lifeVars, CtxInv, CtxClosed
<1>3. ASSUME NEW u \in Threads PROVE CallInv(u)'
  BY <1>0 DEF AnswerStarts, lifeVars, cbVars, CallInv
<1>4. ASSUME NEW e \in Conns PROVE LifeInv(e)'
  BY <1>0 DEF AnswerStarts, ctxVars, lifeVars, LifeInv
<1>5. ASSUME NEW e \in Conns PROVE WorkInv(e)'
  BY SMTT(30), <1>0 DEF AnswerStarts, lifeVars, cbVars, TypeOK, WorkInv
<1> QED BY <1>1, <1>2, <1>3, <1>4, <1>5 DEF IInv

LEMMA AnswerEndsIInv ==
    ASSUME IInv, NEW c \in Conns, AnswerEnds(c)
    PROVE  IInv'
<1> USE HostAssumption
<1>0. /\ TypeOK /\ CtxInv
      /\ \A u \in Threads : CallInv(u)
      /\ \A e \in Conns : LifeInv(e) /\ WorkInv(e)
  BY DEF IInv
<1>1. TypeOK'
  <2>1. answering[c] \in 1..MaxJobs /\ pending[c] \in 1..MaxJobs
    BY SMTT(30), <1>0 DEF AnswerEnds, TypeOK, WorkInv
  <2>2. answering[c] - 1 \in 0..MaxJobs /\ pending[c] - 1 \in 0..MaxJobs
    BY SMTT(30), <2>1
  <2> QED BY <1>0, <2>2 DEF AnswerEnds, ctxVars, lifeVars, cbVars, TypeOK
<1>2. CtxInv'
  BY <1>0 DEF AnswerEnds, ctxVars, lifeVars, CtxInv, CtxClosed
<1>3. ASSUME NEW u \in Threads PROVE CallInv(u)'
  BY <1>0 DEF AnswerEnds, lifeVars, cbVars, CallInv
<1>4. ASSUME NEW e \in Conns PROVE LifeInv(e)'
  BY <1>0 DEF AnswerEnds, ctxVars, lifeVars, LifeInv
<1>5. ASSUME NEW e \in Conns PROVE WorkInv(e)'
  BY SMTT(30), <1>0 DEF AnswerEnds, lifeVars, cbVars, TypeOK, WorkInv
<1> QED BY <1>1, <1>2, <1>3, <1>4, <1>5 DEF IInv

LEMMA NextIInv == IInv /\ [Next]_vars => IInv'
<1> SUFFICES ASSUME IInv, [Next]_vars PROVE IInv'
  OBVIOUS
<1>1. ASSUME NEW t \in Threads, Running(t) \/ CloseContext(t) PROVE IInv'
  BY <1>1, ConnectedReturnsIInv, RecvReturnsIInv, ShutdownReturnsIInv, DisconnectedReturnsIInv,
     FreeReturnsIInv, ReleaseIInv, ForgetIInv, CloseContextIInv, FreeContextIInv DEF Running
<1>2. ASSUME NEW t \in Threads, NEW c \in Conns,
             NewConnection(t, c) \/ Connected(t, c) \/ Recv(t, c) \/ Close(t, c)
      PROVE  IInv'
  BY <1>2, NewConnectionIInv, ConnectedIInv, RecvIInv, CloseIInv
<1>3. ASSUME NEW c \in Conns, Library(c) \/ SendCbCalled(c) \/ DispatchCbCalled(c) PROVE IInv'
  BY <1>3, SendCbCalledIInv, SendCbReturnsIInv, DispatchCbCalledIInv, DispatchCbReturnsIInv,
     AnswerStartsIInv, AnswerEndsIInv DEF Library
<1>4. CASE UNCHANGED vars
  BY <1>4 DEF vars, ctxVars, lifeVars, poolVars, cbVars, IInv, TypeOK, CtxInv, CtxClosed, CallInv,
              LifeInv, WorkInv
<1> QED BY <1>1, <1>2, <1>3, <1>4 DEF Next, Finished

\* The mutexes, the native connections, the pool and the context are related as IInv
\* says, however Connected, Recv, Close, X509Context.Close and the callbacks interleave.
THEOREM HostInvariant == Spec => []IInv
  BY InitIInv, NextIInv, PTL DEF Spec

\* rc_conn_connected, _disconnected and _free exclude each other and every other call,
\* and no goroutine calls into a connection or a context that was freed.
THEOREM HostNeverUsesFreed == Spec => []NoUseAfterFree
<1>1. IInv => NoUseAfterFree
  BY SMTT(30) DEF IInv, TypeOK, CtxInv, CallInv, WorkInv, Calls, NoUseAfterFree, InShared, InExclusive
<1> QED BY <1>1, HostInvariant, PTL

\* goSendCb and goDispatchCb find the pinned handle valid and the channel open.
THEOREM HostCallbacksFindState == Spec => []CallbacksFindTheirState
<1>1. IInv => CallbacksFindTheirState
  BY DEF IInv, LifeInv, WorkInv, CallbacksFindTheirState
<1> QED BY <1>1, HostInvariant, PTL

\* A job the pool accepted is answered while the connection is still connected.
THEOREM HostAnswersInTime == Spec => []AnswersReachTheLibrary
<1>1. IInv => AnswersReachTheLibrary
  BY DEF IInv, WorkInv, AnswersReachTheLibrary
<1> QED BY <1>1, HostInvariant, PTL
===============================================================================
