-------------------------- MODULE TokenStub_proofs --------------------------
(***************************************************************************)
(* The token stub for any number of connections, every kind of request and *)
(* every setting: what it hands out, and how it ends.                      *)
(***************************************************************************)
EXTENDS TokenStub, TLAPS, SequenceTheorems

\* The invariant and what it is for: how the process may end.
StubSafe == StubInv /\ GracefulExit

\* What may be in the channel: one value, or none.
Sent == errs \in Seq({"nil", "error"}) /\ Len(errs) <= 1

\* The types of the other variables.
Rest ==
    /\ setting \in Settings
    /\ main \in {"start", "select", "shutdown", "exit 0", "exit 1"}
    /\ server \in {"starting", "listening", "returned"}
    /\ closing \in BOOLEAN /\ signalled \in BOOLEAN
    /\ conn \in [Clients -> {"none", "new", "active", "idle", "closed"}]
    /\ reply \in [Clients -> [status : Nat, expires_in : Int]]
    /\ waited \in Nat

\* The type invariant is those two.
LEMMA TypeParts == TypeOK <=> Rest /\ Sent
  BY DEF TypeOK, Rest, Sent

\* The channel's capacity is 1: a value sent to the empty channel fills it.
LEMMA SendOnce ==
    ASSUME Sent, errs = <<>>, NEW e \in {"nil", "error"}, errs' = Append(errs, e)
    PROVE  Sent' /\ errs' # <<>> /\ Head(errs') = e
  <1>1. errs' \in Seq({"nil", "error"}) /\ Len(errs') = 1 /\ Head(errs') = e
    BY DEF Sent
  <1> QED
    BY <1>1 DEF Sent

\* Receiving empties it.
LEMMA ReceiveOnce ==
    ASSUME Sent, errs # <<>>, errs' = Tail(errs)
    PROVE  Sent' /\ errs' = <<>>
  <1>1. errs' \in Seq({"nil", "error"}) /\ Len(errs') = Len(errs) - 1
    BY HeadTailProperties DEF Sent
  <1>2. Len(errs) \in Nat /\ Len(errs) # 0
    BY EmptySeq, LenProperties DEF Sent
  <1> QED
    <2>1. Len(errs') = 0
      BY <1>1, <1>2 DEF Sent
    <2> QED
      BY <1>1, <2>1, EmptySeq DEF Sent

\* The lifetime main reads from the setting is a number, and stays what it is.
LEMMA Lifetime ==
    ASSUME Rest, setting' = setting
    PROVE  expiresIn \in Int /\ expiresIn' = expiresIn
  <1>1. setting \in Setting
    BY TokenStubAssumption DEF Rest
  <1> QED
    BY <1>1 DEF expiresIn, Setting, defaultExpiresIn

\* The process begins in the invariant: nothing listens, nothing is sent.
LEMMA StubInit == Init => StubSafe
  <1> SUFFICES ASSUME Init PROVE StubSafe
    OBVIOUS
  <1>1. Rest
    <2>1. closing \in BOOLEAN /\ signalled \in BOOLEAN
      BY DEF Init
    <2>2. reply \in [Clients -> [status : Nat, expires_in : Int]]
      BY DEF Init
    <2>3. conn \in [Clients -> {"none", "new", "active", "idle", "closed"}]
      BY DEF Init
    <2> QED
      BY <2>1, <2>2, <2>3 DEF Init, Rest
  <1>2. errs = <<>>
    BY DEF Init
  <1>3. Sent
    BY <1>2 DEF Sent
  <1>4. InOrder
    BY <1>2 DEF Init, InOrder
  <1>5. TokensLast /\ GracefulExit
    BY DEF Init, TokensLast, GracefulExit
  <1> QED
    BY <1>1, <1>3, <1>4, <1>5, TypeParts DEF StubSafe, StubInv

\* main: reading the setting, the select with its two cases, and the return of
\* Shutdown.  Only the last, with no request in progress, ends with success.
LEMMA MainStep == StubSafe /\ Main => StubSafe'
  <1> SUFFICES ASSUME StubSafe, Main
           PROVE Rest' /\ Sent' /\ InOrder' /\ TokensLast' /\ GracefulExit'
    BY TypeParts DEF StubSafe, StubInv, TypeOK, Rest, Sent
  <1>0. Rest /\ Sent /\ InOrder /\ TokensLast /\ GracefulExit
    BY TypeParts DEF StubSafe, StubInv
  <1>1. setting' = setting /\ reply' = reply /\ expiresIn \in Int /\ expiresIn' = expiresIn
    <2>1. setting' = setting /\ reply' = reply
      BY DEF Main, Parse, SelectErrs, SelectDone, ShutdownReturns
    <2> QED
      BY <1>0, <2>1, Lifetime
  <1>2. TokensLast'
    BY <1>0, <1>1 DEF TokensLast
  <1>3. CASE Parse
    <2>1. Rest' /\ Sent'
      BY <1>0, <1>3 DEF Parse, Rest, Sent
    <2>2. main' = "select" => expiresIn > 0
      <3>1. setting \in Setting
        BY <1>0, TokenStubAssumption DEF Rest
      <3> QED
        BY <1>3, <3>1 DEF Parse, expiresIn, Setting, defaultExpiresIn
    <2>3. InOrder' /\ GracefulExit'
      BY <1>0, <1>1, <1>3, <2>2 DEF Parse, InOrder, GracefulExit
    <2> QED
      BY <1>2, <2>1, <2>3
  <1>4. CASE SelectErrs
    <2>1. Sent' /\ errs' = <<>>
      BY <1>0, <1>4, ReceiveOnce DEF SelectErrs
    <2>2. main' = "exit 1"
      BY <1>0, <1>4 DEF SelectErrs, InOrder
    <2>3. Rest' /\ InOrder' /\ GracefulExit'
      BY <1>0, <1>1, <1>4, <2>1, <2>2 DEF SelectErrs, Rest, InOrder, GracefulExit
    <2> QED
      BY <1>2, <2>1, <2>3
  <1>5. CASE SelectDone
    <2>1. Rest' /\ Sent'
      BY <1>0, <1>5 DEF SelectDone, Rest, Sent
    <2>2. InOrder' /\ GracefulExit'
      BY <1>0, <1>1, <1>5 DEF SelectDone, InOrder, GracefulExit
    <2> QED
      BY <1>2, <2>1, <2>2
  <1>6. CASE ShutdownReturns
    <2>1. Rest' /\ Sent'
      BY <1>0, <1>6 DEF ShutdownReturns, Rest, Sent
    <2>2. InOrder' /\ GracefulExit'
      BY <1>0, <1>1, <1>6 DEF ShutdownReturns, Busy, InOrder, GracefulExit
    <2> QED
      BY <1>2, <2>1, <2>2
  <1> QED
    BY <1>3, <1>4, <1>5, <1>6 DEF Main

\* The goroutine sends to an empty channel, as it sends once and then ends.
LEMMA ServerStep == StubSafe /\ (Listen \/ ServerClosed \/ AcceptFails) => StubSafe'
  <1> SUFFICES ASSUME StubSafe, Listen \/ ServerClosed \/ AcceptFails
           PROVE Rest' /\ Sent' /\ InOrder' /\ TokensLast' /\ GracefulExit'
    BY TypeParts DEF StubSafe, StubInv, TypeOK, Rest, Sent
  <1>0. Rest /\ Sent /\ InOrder /\ TokensLast /\ GracefulExit
    BY TypeParts DEF StubSafe, StubInv
  <1>1. UNCHANGED <<setting, main, closing, signalled, conn, reply, waited>>
    BY DEF Listen, ServerClosed, AcceptFails
  <1>2. errs = <<>>
    BY <1>0 DEF Listen, ServerClosed, AcceptFails, InOrder
  <1>3. expiresIn \in Int /\ expiresIn' = expiresIn
    BY <1>0, <1>1, Lifetime
  <1>4. TokensLast' /\ GracefulExit'
    BY <1>0, <1>1 DEF TokensLast, GracefulExit
  <1>5. Rest'
    BY <1>0, <1>1 DEF Listen, ServerClosed, AcceptFails, Rest
  <1>6. main \in {"select", "shutdown"}
    BY <1>0 DEF Listen, ServerClosed, AcceptFails, Exited, Rest, InOrder
  <1>7. CASE errs' = errs
    BY <1>0, <1>1, <1>2, <1>3, <1>4, <1>5, <1>6, <1>7 DEF Sent, InOrder
  <1>8. CASE closing /\ server' = "returned" /\ errs' = Append(errs, "nil")
    <2>1. Sent'
      BY <1>0, <1>2, <1>8, SendOnce
    <2>2. InOrder'
      BY <1>0, <1>1, <1>3, <1>6, <1>8 DEF InOrder
    <2> QED
      BY <1>4, <1>5, <2>1, <2>2
  <1>9. CASE ~closing /\ server' = "returned" /\ errs' = Append(errs, "error")
    <2>1. Sent' /\ Head(errs') = "error"
      BY <1>0, <1>2, <1>9, SendOnce
    <2>2. InOrder'
      BY <1>0, <1>1, <1>3, <1>6, <1>9, <2>1 DEF InOrder
    <2> QED
      BY <1>4, <1>5, <2>1, <2>2
  <1> QED
    BY <1>7, <1>8, <1>9 DEF Listen, ServerClosed, AcceptFails

\* A connection moves only while the process runs, and a reply with a token
\* is given only after the setting was accepted.
LEMMA ConnectionStep ==
    ASSUME NEW c \in Clients, StubSafe,
           Connect(c) \/ SendsHeaders(c) \/ Closes(c) \/ Handle(c)
    PROVE  StubSafe'
  <1> SUFFICES Rest' /\ Sent' /\ InOrder' /\ TokensLast' /\ GracefulExit'
    BY TypeParts DEF StubSafe, StubInv, TypeOK, Rest, Sent
  <1>0. Rest /\ Sent /\ InOrder /\ TokensLast /\ GracefulExit
    BY TypeParts DEF StubSafe, StubInv
  <1>1. UNCHANGED <<setting, main, server, errs, closing, signalled, waited>>
    BY DEF Connect, SendsHeaders, Closes, Handle
  <1>2. expiresIn \in Int /\ expiresIn' = expiresIn
    BY <1>0, <1>1, Lifetime
  <1>3. Sent'
    BY <1>0, <1>1 DEF Sent
  <1>4. ~Exited /\ main # "start"
    BY <1>0 DEF Connect, SendsHeaders, Closes, Handle, Serving, InOrder
  <1>5. InOrder' /\ GracefulExit'
    BY <1>0, <1>1, <1>2, <1>4 DEF InOrder, GracefulExit, Exited
  <1>6. CASE Connect(c) \/ SendsHeaders(c) \/ Closes(c)
    BY <1>0, <1>3, <1>5, <1>6 DEF Connect, SendsHeaders, Closes, Rest, TokensLast
  <1>7. CASE Handle(c)
    <2>1. expiresIn > 0
      BY <1>0, <1>4 DEF Exited, Rest, InOrder
    <2>2. PICK r \in Requests : reply' = [reply EXCEPT ![c] =
            [status |-> Status(r),
             expires_in |-> IF Status(r) = 200 THEN expiresIn ELSE 0]]
      BY <1>7 DEF Handle
    <2>3. Status(r) \in Nat
      BY DEF Status
    <2> DEFINE answer == [status |-> Status(r),
                          expires_in |-> IF Status(r) = 200 THEN expiresIn ELSE 0]
    <2>a. answer \in [status : Nat, expires_in : Int]
      BY <1>2, <2>3
    <2>b. answer.status = 200 => answer.expires_in > 0
      BY <2>1
    <2>c. reply \in [Clients -> [status : Nat, expires_in : Int]]
      BY <1>0 DEF Rest
    <2>d. reply' = [reply EXCEPT ![c] = answer]
      BY <2>2
    <2> HIDE DEF answer
    <2>4. reply' \in [Clients -> [status : Nat, expires_in : Int]]
      BY <2>a, <2>c, <2>d
    <2>5. conn' \in [Clients -> {"none", "new", "active", "idle", "closed"}]
      BY <1>0, <1>7 DEF Handle, Rest
    <2>6. Rest'
      BY <1>0, <1>1, <2>4, <2>5 DEF Rest
    <2>7. TokensLast'
      BY <1>0, <2>b, <2>c, <2>d DEF TokensLast
    <2> QED
      BY <1>3, <1>5, <2>6, <2>7
  <1> QED
    BY <1>6, <1>7

\* Every step keeps the invariant.
LEMMA StubNext == StubSafe /\ [Next]_vars => StubSafe'
  <1> SUFFICES ASSUME StubSafe, [Next]_vars PROVE StubSafe'
    OBVIOUS
  <1>1. CASE ShutdownWaits \/ Signal \/ UNCHANGED vars
    <2>1. Rest /\ Sent /\ InOrder /\ TokensLast /\ GracefulExit
      BY TypeParts DEF StubSafe, StubInv
    <2>2. UNCHANGED <<setting, main, server, errs, closing, conn, reply>>
      BY <1>1 DEF ShutdownWaits, Signal, vars
    <2>3. Rest' /\ (signalled => signalled')
      <3>1. signalled' \in BOOLEAN /\ (signalled => signalled')
        BY <1>1, <2>1 DEF ShutdownWaits, Signal, vars, Rest
      <3>2. waited' \in Nat
        <4>1. waited \in Nat
          BY <2>1 DEF Rest
        <4>2. waited' = waited + 1 \/ waited' = waited
          BY <1>1 DEF ShutdownWaits, Signal, vars
        <4> QED
          BY <4>1, <4>2
      <3> QED
        BY <2>1, <2>2, <3>1, <3>2 DEF Rest
    <2>4. expiresIn' = expiresIn /\ Sent' /\ TokensLast'
      BY <2>1, <2>2 DEF expiresIn, Sent, TokensLast
    <2>5. InOrder' /\ GracefulExit'
      BY <2>1, <2>2, <2>3, <2>4 DEF InOrder, GracefulExit
    <2> QED
      BY <2>3, <2>4, <2>5 DEF StubSafe, StubInv, TypeOK, Rest, Sent
  <1> QED
    BY <1>1, MainStep, ServerStep, ConnectionStep DEF Next

\* The goroutine never waits for main on its channel, and no token without a
\* lifetime is handed out, for any number of clients and any setting.
THEOREM StubInvariant == Spec => []StubInv
  <1>1. StubSafe => StubInv
    BY DEF StubSafe
  <1> QED
    BY <1>1, StubInit, StubNext, PTL DEF Spec

\* The process ends with success only on a signal and with no request it had
\* begun left without a reply, however many connections are open.
THEOREM ExitIsGraceful == Spec => []GracefulExit
  <1>1. StubSafe => GracefulExit
    BY DEF StubSafe
  <1> QED
    BY <1>1, StubInit, StubNext, PTL DEF Spec
=============================================================================
