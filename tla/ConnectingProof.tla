-------------------------- MODULE ConnectingProof --------------------------
(***************************************************************************)
(* Theorems about Connecting, for every set of descriptors, every interval  *)
(* and every timeout.                                                       *)
(***************************************************************************)
EXTENDS Connecting, FiniteSetTheorems, TLAPS

Establishing == {"setup", "connect", "blocking"}

\* The mutex is free exactly when nobody is in connect.
MutexInv == mutex = NoThread <=> pc = "none"

\* The client's socket and the one being made are open, and two.
SocketInv ==
    /\ made # None <=> pc \in Establishing
    /\ made # None => file[made] = "client" /\ made # sock
    /\ sock # None => file[sock] = "client"

\* Open and in nobody's hands are as many as were replaced.
LeakInv == Cardinality(Ours \ InUse) = replaced

\* The loop counts its failures, and the attempt under way or successful is one more.
CountInv ==
    /\ tries <= max_retry_count
    /\ pc \in {"loop", "sleep"} /\ ~is_success => tries = retry
    /\ pc \in Establishing => tries = retry + 1 /\ ~is_success
    /\ pc # "none" /\ is_success => pc = "loop" /\ tries = retry + 1
    /\ pc = "none" /\ told = "timeout" => tries = max_retry_count /\ ~is_success
    /\ pc = "none" /\ told = "connected" => is_success

\* Until an attempt has succeeded the client has the socket it had.
BeforeInv ==
    /\ pc # "none" /\ ~is_success => sock = before
    /\ pc = "none" /\ told \in {"timeout", "invalid"} => sock \in {before, None}

CInv == TypeOK /\ MutexInv /\ SocketInv /\ LeakInv /\ CountInv /\ BeforeInv

-----------------------------------------------------------------------------

\* The number of attempts is a natural number.
LEMMA RetryCountNat ==
    ASSUME NEW T \in Nat, NEW n \in Nat
    PROVE  calc_retry_count(T, n) \in Nat
<1> DEFINE sec == n \div Second
<1>1. sec \in Nat
    BY DEF Second
<1> HIDE DEF sec
<1>2. sec # 0 => T \div sec \in Nat
    BY <1>1
<1>3. calc_retry_count(T, n) = IF sec # 0 THEN T \div sec ELSE 1
    BY DEF calc_retry_count, sec
<1> QED BY <1>2, <1>3

\* ... with the arguments of the present call.
LEMMA MaxRetryNat == ASSUME TypeOK PROVE max_retry_count \in Nat
<1>1. option.interval \in Nat /\ option.timeout \in Nat
    BY OptionsAssumption DEF TypeOK, Option
<1> QED BY <1>1, RetryCountNat DEF max_retry_count

\* Descriptors that are open and not in use are finitely many.
LEMMA OrphansFinite == IsFiniteSet(Ours \ InUse)
<1>1. Ours \ InUse \subseteq Fds
    BY DEF Ours
<1> QED BY <1>1, FdNamesAssumption, FS_Subset

\* Init establishes the invariant.
LEMMA CInit == Init => CInv
<1> SUFFICES ASSUME Init PROVE CInv
    OBVIOUS
<1>1. TypeOK
  <2>1. 0 \in 0 .. MaxConnects
      BY MaxConnectsAssumption
  <2> QED BY <2>1 DEF Init, TypeOK, Places
<1>2. MutexInv /\ SocketInv /\ BeforeInv
  <2>1. mutex = NoThread /\ pc = "none" /\ made = None /\ sock = None /\ told = "nothing"
      BY DEF Init
  <2>2. MutexInv
      BY <2>1 DEF MutexInv
  <2>3. SocketInv
      BY <2>1 DEF SocketInv, Establishing
  <2>4. BeforeInv
      BY <2>1 DEF BeforeInv
  <2> QED BY <2>2, <2>3, <2>4
<1>3. LeakInv
  <2>1. Ours \ InUse = {}
      BY FdNamesAssumption DEF Init, Ours
  <2> QED BY <2>1, FS_EmptySet DEF LeakInv, Init
<1>4. CountInv
    BY <1>1, MaxRetryNat DEF Init, CountInv, Establishing
<1> QED BY <1>1, <1>2, <1>3, <1>4 DEF CInv

\* A thread calls connect.
LEMMA CLock == ASSUME CInv, NEW t \in Threads, Lock(t) PROVE CInv'
<1> USE DEF CInv
<1>1. /\ pc = "none" /\ pc' = "loop" /\ mutex' = t /\ option' \in Option
      /\ retry' = 0 /\ is_success' = FALSE /\ tries' = 0 /\ before' = sock
      /\ connects' = connects + 1 /\ connects < MaxConnects
      /\ UNCHANGED <<made, sock, file, replaced, told>>
    BY DEF Lock, MutexInv, fdVars
<1>2. TypeOK'
  <2>1. connects + 1 \in 0 .. MaxConnects
      BY <1>1, MaxConnectsAssumption DEF TypeOK
  <2>2. mutex' \in Threads \cup {NoThread} /\ pc' \in Places
      BY <1>1 DEF Places
  <2> QED BY <1>1, <2>1, <2>2 DEF TypeOK
<1>3. MutexInv'
    BY <1>1, ThreadNamesAssumption DEF MutexInv
<1>4. SocketInv' /\ BeforeInv'
    BY <1>1 DEF SocketInv, BeforeInv, Establishing
<1>5. LeakInv'
    BY <1>1 DEF LeakInv, Ours, InUse
<1>6. CountInv'
  <2>1. max_retry_count' \in Nat
    <3>1. option'.interval \in Nat /\ option'.timeout \in Nat
        BY <1>1, OptionsAssumption DEF Option
    <3> QED BY <3>1, RetryCountNat DEF max_retry_count
  <2> QED BY <1>1, <2>1 DEF CountInv, Establishing
<1> QED BY <1>2, <1>3, <1>4, <1>5, <1>6

\* connect ends.
LEMMA CUnlock ==
    ASSUME CInv, NEW what \in {"connected", "timeout", "invalid"},
           pc = "loop", Unlock(what), UNCHANGED fdVars,
           what = "timeout" => ~is_success /\ retry = max_retry_count,
           what = "connected" => is_success,
           what = "invalid" => ~is_success
    PROVE  CInv'
<1> USE DEF CInv
<1>1. /\ pc' = "none" /\ mutex' = NoThread /\ told' = what
      /\ UNCHANGED <<option, retry, is_success, connects, tries, before, replaced>>
      /\ UNCHANGED <<made, sock, file>>
    BY DEF Unlock, fdVars
<1>2. TypeOK'
    BY <1>1 DEF TypeOK, Places
<1>3. MutexInv'
    BY <1>1 DEF MutexInv
<1>4. SocketInv' /\ BeforeInv'
    BY <1>1 DEF SocketInv, BeforeInv, Establishing
<1>5. LeakInv'
    BY <1>1 DEF LeakInv, Ours, InUse
<1>6. CountInv'
  <2>1. max_retry_count' = max_retry_count
      BY <1>1 DEF max_retry_count
  <2> QED BY <1>1, <2>1 DEF CountInv, Establishing
<1> QED BY <1>2, <1>3, <1>4, <1>5, <1>6

\* The port is out of range.
LEMMA CInvalidPort == ASSUME CInv, InvalidPort PROVE CInv'
BY CUnlock DEF InvalidPort, Again

\* The loop ends: with success and attempts to spare, or with all of them used.
LEMMA CLeave == ASSUME CInv, Leave PROVE CInv'
<1> DEFINE what == IF max_retry_count > retry THEN "connected" ELSE "timeout"
<1>1. pc = "loop" /\ ~Again /\ Unlock(what) /\ UNCHANGED fdVars
    BY DEF Leave
<1>2. max_retry_count \in Nat /\ retry \in Nat /\ is_success \in BOOLEAN
    BY MaxRetryNat DEF CInv, TypeOK
<1>3. CASE is_success
  <2>1. tries = retry + 1 /\ tries <= max_retry_count
      BY <1>1, <1>3 DEF CInv, CountInv
  <2>2. max_retry_count > retry
      BY <1>2, <2>1
  <2>3. what = "connected"
      BY <2>2
  <2> QED BY <1>1, <1>3, <2>3, CUnlock
<1>4. CASE ~is_success
  <2>1. tries = retry /\ tries <= max_retry_count
      BY <1>1, <1>4 DEF CInv, CountInv
  <2>2. ~(max_retry_count > retry)
      BY <1>1, <1>4 DEF Again
  <2>3. retry = max_retry_count
      BY <1>2, <2>1, <2>2
  <2>4. what = "timeout"
      BY <2>2
  <2> QED BY <1>1, <1>4, <2>3, <2>4, CUnlock
<1> QED BY <1>3, <1>4


\* A failure is counted; nothing else of the loop changes.
LEMMA CCaught ==
    ASSUME CInv, TypeOK', SocketInv', LeakInv', Caught,
           tries' = retry + 1, tries' <= max_retry_count,
           pc # "none", ~is_success
    PROVE  CInv'
<1> USE DEF CInv
<1>1. /\ pc' = "sleep" /\ retry' = retry + 1
      /\ UNCHANGED <<mutex, option, is_success, sock, connects, before, replaced, told>>
    BY DEF Caught
<1>2. MutexInv' /\ BeforeInv'
    BY <1>1 DEF MutexInv, BeforeInv
<1>3. CountInv'
  <2>1. max_retry_count' = max_retry_count
      BY <1>1 DEF max_retry_count
  <2> QED BY <1>1, <2>1 DEF CountInv, Establishing
<1> QED BY <1>2, <1>3

\* An attempt begins and there is no descriptor for it.
LEMMA CSocketFails == ASSUME CInv, SocketFails PROVE CInv'
<1> USE DEF CInv
<1>1. /\ pc = "loop" /\ ~is_success /\ max_retry_count > retry
      /\ tries' = tries + 1 /\ Caught /\ UNCHANGED <<made, file>>
    BY DEF SocketFails, Again
<1>2. max_retry_count \in Nat /\ retry \in Nat /\ tries \in Nat
    BY MaxRetryNat DEF TypeOK
<1>3. tries' = retry + 1 /\ tries' <= max_retry_count
    BY <1>1, <1>2 DEF CountInv
<1>4. TypeOK'
    BY <1>1, <1>2 DEF TypeOK, Caught, Places
<1>5. SocketInv'
    BY <1>1 DEF SocketInv, Caught, Establishing
<1>6. LeakInv'
    BY <1>1 DEF LeakInv, Ours, InUse, Caught
<1> QED BY <1>1, <1>3, <1>4, <1>5, <1>6, CCaught

\* An attempt begins with a new descriptor, which is in use.
LEMMA CMakeSocket == ASSUME CInv, MakeSocket PROVE CInv'
<1> USE DEF CInv
<1>1. PICK f \in Fds : /\ file[f] = None
                       /\ file' = [file EXCEPT ![f] = "client"]
                       /\ made' = f
    BY DEF MakeSocket
<1>2. /\ pc = "loop" /\ ~is_success /\ max_retry_count > retry
      /\ pc' = "setup" /\ tries' = tries + 1
      /\ UNCHANGED <<mutex, option, retry, is_success, sock, connects, before, replaced, told>>
    BY DEF MakeSocket, Again
<1>3. max_retry_count \in Nat /\ retry \in Nat /\ tries \in Nat
    BY MaxRetryNat DEF TypeOK
<1>4. made = None /\ f # None /\ f # sock
    BY <1>1, <1>2, FdNamesAssumption DEF SocketInv, Establishing
<1>5. TypeOK'
    BY <1>1, <1>2, <1>3 DEF TypeOK, Places
<1>6. MutexInv' /\ BeforeInv'
    BY <1>2 DEF MutexInv, BeforeInv
<1>7. SocketInv'
    BY <1>1, <1>2, <1>4 DEF SocketInv, Establishing, TypeOK
<1>8. LeakInv'
  <2>1. Ours' = Ours \cup {f}
      BY <1>1 DEF Ours, TypeOK
  <2>2. InUse' = InUse \cup {f}
      BY <1>1, <1>2, <1>4 DEF InUse
  <2>3. f \notin Ours
      BY <1>1, FdNamesAssumption DEF Ours
  <2>4. Ours' \ InUse' = Ours \ InUse
      BY <2>1, <2>2, <2>3
  <2> QED BY <1>2, <2>4 DEF LeakInv
<1>9. CountInv'
  <2>1. max_retry_count' = max_retry_count
      BY <1>2 DEF max_retry_count
  <2>2. tries = retry
      BY <1>2 DEF CountInv
  <2> QED BY <1>2, <1>3, <2>1, <2>2 DEF CountInv, Establishing
<1> QED BY <1>5, <1>6, <1>7, <1>8, <1>9

\* An attempt fails and its descriptor is closed.
LEMMA CEstablishFails == ASSUME CInv, EstablishFails PROVE CInv'
<1> USE DEF CInv
<1>1. /\ pc \in Establishing
      /\ file' = [file EXCEPT ![made] = None] /\ made' = None
      /\ Caught /\ tries' = tries
    BY DEF EstablishFails, Establishing
<1>2. /\ pc' = "sleep" /\ retry' = retry + 1
      /\ UNCHANGED <<mutex, option, is_success, sock, connects, before, replaced, told>>
    BY <1>1 DEF Caught
<1>3. made \in Fds /\ made # None /\ made # sock /\ file[made] = "client"
    BY <1>1 DEF SocketInv, TypeOK
<1>4. tries' = retry + 1 /\ tries' <= max_retry_count /\ ~is_success /\ pc # "none"
    BY <1>1 DEF CountInv, Establishing
<1>5. TypeOK'
  <2>1. file' \in [Fds -> {"client", "other", None}] /\ made' \in Fds \cup {None}
      BY <1>1 DEF TypeOK
  <2>2. retry' \in Nat /\ tries' \in Nat
      BY <1>1, <1>2 DEF TypeOK
  <2>3. pc' \in Places
      BY <1>2 DEF Places
  <2> QED BY <1>2, <2>1, <2>2, <2>3 DEF TypeOK
<1>6. SocketInv'
    BY <1>1, <1>2, <1>3 DEF SocketInv, Establishing, TypeOK
<1>7. LeakInv'
  <2>1. Ours' = Ours \ {made}
      BY <1>1, <1>3, FdNamesAssumption DEF Ours, TypeOK
  <2>2. InUse' = InUse \ {made} /\ made \in InUse
      BY <1>1, <1>2, <1>3 DEF InUse
  <2>3. Ours' \ InUse' = Ours \ InUse
      BY <2>1, <2>2
  <2> QED BY <1>2, <2>3 DEF LeakInv
<1> QED BY <1>1, <1>4, <1>5, <1>6, <1>7, CCaught

\* An attempt succeeds: its socket becomes the client's; the old one, if any, is left.
LEMMA CEstablished == ASSUME CInv, Established PROVE CInv'
<1> USE DEF CInv
<1>1. /\ pc = "blocking" /\ pc' = "loop" /\ is_success' = TRUE
      /\ sock' = made /\ made' = None
      /\ replaced' = IF sock # None THEN replaced + 1 ELSE replaced
      /\ UNCHANGED <<mutex, option, retry, file, connects, tries, before, told>>
    BY DEF Established
<1>2. made \in Fds /\ made # None /\ made # sock /\ file[made] = "client"
    BY <1>1 DEF SocketInv, TypeOK, Establishing
<1>3. TypeOK'
    BY <1>1 DEF TypeOK, Places
<1>4. MutexInv' /\ BeforeInv' /\ SocketInv'
  <2>1. MutexInv'
      BY <1>1 DEF MutexInv
  <2>2. BeforeInv'
      BY <1>1 DEF BeforeInv
  <2>3. SocketInv'
      BY <1>1, <1>2 DEF SocketInv, Establishing
  <2> QED BY <2>1, <2>2, <2>3
<1>5. LeakInv'
  <2>1. Ours' = Ours /\ InUse' = {made}
      BY <1>1, <1>2 DEF Ours, InUse
  <2>2. CASE sock = None
    <3>1. Ours' \ InUse' = Ours \ InUse
        BY <2>1, <2>2, <1>2 DEF InUse
    <3> QED BY <1>1, <2>2, <3>1 DEF LeakInv
  <2>3. CASE sock # None
    <3>1. sock \in Ours
        BY <2>3 DEF SocketInv, TypeOK, Ours
    <3>2. Ours' \ InUse' = (Ours \ InUse) \cup {sock} /\ sock \notin Ours \ InUse
        BY <2>1, <2>3, <3>1, <1>2 DEF InUse
    <3>3. Cardinality(Ours' \ InUse') = Cardinality(Ours \ InUse) + 1
        BY <3>2, OrphansFinite, FS_AddElement
    <3> QED BY <1>1, <2>3, <3>3 DEF LeakInv
  <2> QED BY <2>2, <2>3
<1>6. CountInv'
  <2>1. max_retry_count' = max_retry_count
      BY <1>1 DEF max_retry_count
  <2> QED BY <1>1, <2>1 DEF CountInv, Establishing
<1> QED BY <1>3, <1>4, <1>5, <1>6

\* A step within an attempt, or the end of a sleep.
LEMMA CMove ==
    ASSUME CInv,
           \/ pc \in Establishing /\ pc' \in Establishing
           \/ pc = "sleep" /\ pc' = "loop",
           UNCHANGED <<mutex, option, retry, is_success, fdVars, historyVars>>
    PROVE  CInv'
<1> USE DEF CInv, fdVars, historyVars
<1>1. TypeOK'
    BY DEF TypeOK, Places, Establishing
<1>2. MutexInv' /\ SocketInv' /\ BeforeInv'
    BY DEF MutexInv, SocketInv, BeforeInv, Establishing
<1>3. LeakInv'
    BY DEF LeakInv, Ours, InUse
<1>4. CountInv'
  <2>1. max_retry_count' = max_retry_count
      BY DEF max_retry_count
  <2> QED BY <2>1 DEF CountInv, Establishing
<1> QED BY <1>1, <1>2, <1>3, <1>4

\* The client is closed.
LEMMA CClose == ASSUME CInv, Close PROVE CInv'
<1> USE DEF CInv
<1>1. /\ mutex = NoThread /\ sock # None
      /\ file' = [file EXCEPT ![sock] = None] /\ sock' = None
      /\ UNCHANGED <<made, mutex, pc, option, retry, is_success>>
      /\ UNCHANGED <<connects, tries, before, replaced, told>>
    BY DEF Close, loopVars, historyVars
<1>2. pc = "none" /\ made = None
    BY <1>1 DEF MutexInv, SocketInv, Establishing
<1>3. TypeOK'
    BY <1>1 DEF TypeOK
<1>4. MutexInv' /\ SocketInv' /\ BeforeInv'
    BY <1>1, <1>2 DEF MutexInv, SocketInv, BeforeInv, Establishing
<1>5. LeakInv'
  <2>1. Ours' = Ours \ {sock}
      BY <1>1, FdNamesAssumption DEF Ours, TypeOK
  <2>2. InUse = {sock} /\ InUse' = {}
      BY <1>1, <1>2 DEF InUse
  <2>3. Ours' \ InUse' = Ours \ InUse
      BY <2>1, <2>2
  <2> QED BY <1>1, <2>3 DEF LeakInv
<1>6. CountInv'
  <2>1. max_retry_count' = max_retry_count
      BY <1>1 DEF max_retry_count
  <2> QED BY <1>1, <2>1 DEF CountInv, Establishing
<1> QED BY <1>3, <1>4, <1>5, <1>6

\* The rest of the process uses its own descriptors.
LEMMA COthers ==
    ASSUME CInv, NEW f \in Fds, OtherOpens(f) \/ OtherCloses(f)
    PROVE  CInv'
<1> USE DEF CInv
<1>1. PICK g \in {"other", None} : file' = [file EXCEPT ![f] = g]
    BY DEF OtherOpens, OtherCloses
<1>2. /\ file[f] # "client" /\ g # "client"
      /\ UNCHANGED <<made, sock, mutex, pc, option, retry, is_success>>
      /\ UNCHANGED <<connects, tries, before, replaced, told>>
    BY FdNamesAssumption DEF OtherOpens, OtherCloses, loopVars, historyVars
<1>3. Ours' = Ours
    BY <1>1, <1>2 DEF Ours, TypeOK
<1>4. TypeOK'
    BY <1>1, <1>2 DEF TypeOK
<1>5. SocketInv'
    BY <1>1, <1>2 DEF SocketInv, TypeOK, Establishing
<1>6. MutexInv' /\ BeforeInv'
    BY <1>2 DEF MutexInv, BeforeInv
<1>7. LeakInv'
    BY <1>2, <1>3 DEF LeakInv, InUse
<1>8. CountInv'
  <2>1. max_retry_count' = max_retry_count
      BY <1>2 DEF max_retry_count
  <2> QED BY <1>2, <2>1 DEF CountInv, Establishing
<1> QED BY <1>4, <1>5, <1>6, <1>7, <1>8

\* A step that changes nothing.
LEMMA CStutter == ASSUME CInv, UNCHANGED vars PROVE CInv'
<1> USE DEF CInv, vars, loopVars, fdVars, historyVars
<1>1. TypeOK' /\ MutexInv' /\ SocketInv' /\ BeforeInv'
    BY DEF TypeOK, MutexInv, SocketInv, BeforeInv
<1>2. LeakInv'
    BY DEF LeakInv, Ours, InUse
<1>3. CountInv'
  <2>1. max_retry_count' = max_retry_count
      BY DEF max_retry_count
  <2> QED BY <2>1 DEF CountInv
<1> QED BY <1>1, <1>2, <1>3

\* The inductive invariant: the socket in hand, the client's and the count of attempts
\* follow the place in the loop.
THEOREM ConnectingInvariant == Spec => []CInv
<1>1. Init => CInv
    BY CInit
<1>2. CInv /\ [Next]_vars => CInv'
  <2> SUFFICES ASSUME CInv, [Next]_vars PROVE CInv'
      OBVIOUS
  <2>1. CASE UNCHANGED vars
      BY <2>1, CStutter
  <2>2. CASE \E t \in Threads : Lock(t)
      BY <2>2, CLock
  <2>3. CASE Close
      BY <2>3, CClose
  <2>4. CASE Others
      BY <2>4, COthers DEF Others
  <2>5. CASE Step
    <3>1. CASE InvalidPort \/ MakeSocket \/ SocketFails \/ EstablishFails
        BY <3>1, CInvalidPort, CMakeSocket, CSocketFails, CEstablishFails
    <3>2. CASE SetUp
        BY <3>2, CMove DEF SetUp, Establishing
    <3>3. CASE Connect
        BY <3>3, CMove DEF Connect, Establishing
    <3>4. CASE Sleep
        BY <3>4, CMove DEF Sleep
    <3>5. CASE Established \/ Leave
        BY <3>5, CEstablished, CLeave
    <3> QED BY <2>5, <3>1, <3>2, <3>3, <3>4, <3>5 DEF Step
  <2> QED BY <2>1, <2>2, <2>3, <2>4, <2>5 DEF Next
<1> QED BY <1>1, <1>2, PTL DEF Spec

\* Every variable keeps its type.
THEOREM ConnectingTypes == Spec => []TypeOK
<1>1. CInv => TypeOK
    BY DEF CInv
<1> QED BY <1>1, ConnectingInvariant, PTL

\* No attempt leaves a descriptor behind.
THEOREM NoLeak == Spec => []NothingLeaks
<1>1. CInv => NothingLeaks
    BY DEF CInv, NothingLeaks, LeakInv, SocketInv, TypeOK, Ours, InUse
<1> QED BY <1>1, ConnectingInvariant, PTL

\* A connect that throws leaves the client as it was.
THEOREM FailureClean == Spec => []FailureHasNoEffect
<1>1. CInv => FailureHasNoEffect
    BY DEF CInv, FailureHasNoEffect, BeforeInv, MutexInv
<1> QED BY <1>1, ConnectingInvariant, PTL

\* connect uses up its attempts before it throws "Connection time out".
THEOREM AttemptsCounted == Spec => []AttemptsUsed
<1>1. CInv => AttemptsUsed
    BY DEF CInv, AttemptsUsed, CountInv, MutexInv
<1> QED BY <1>1, ConnectingInvariant, PTL

\* No descriptor of another part of the process is closed.
THEOREM OwnDescriptorsOnly == Spec => OthersUntouched
<1> DEFINE Kept == \A f \in Fds : file[f] = "other" => file'[f] = "other"
<1>1. CInv /\ [Next]_vars => [Step \/ Close => Kept]_vars
  <2> SUFFICES ASSUME CInv, Step \/ Close PROVE Kept
      OBVIOUS
  <2>1. CASE file' = file
      BY <2>1
  <2>2. ASSUME NEW g \in Fds, NEW x \in {"client", None}, file[g] # "other",
               file' = [file EXCEPT ![g] = x]
        PROVE  Kept
      BY <2>2 DEF CInv, TypeOK
  <2>3. CASE MakeSocket
      BY <2>3, <2>2, FdNamesAssumption DEF MakeSocket
  <2>4. CASE EstablishFails
    <3>1. made \in Fds /\ file[made] = "client"
        BY <2>4 DEF EstablishFails, CInv, SocketInv, TypeOK, Establishing
    <3> QED BY <2>2, <2>4, <3>1 DEF EstablishFails
  <2>5. CASE Close
    <3>1. sock \in Fds /\ file[sock] = "client"
        BY <2>5 DEF Close, CInv, SocketInv, TypeOK
    <3> QED BY <2>2, <2>5, <3>1 DEF Close
  <2> QED BY <2>1, <2>3, <2>4, <2>5
          DEF Step, InvalidPort, SocketFails, SetUp, Connect, Established,
              Sleep, Leave, fdVars
<1> QED BY <1>1, ConnectingInvariant, PTL DEF Spec, OthersUntouched

-----------------------------------------------------------------------------
(* connect comes to an end.                                                 *)

\* How many steps the present connect has left at most: five for every attempt that
\* fails, one to leave the loop.
StepsLeft ==
    LET n == 5 * (max_retry_count - retry)
    IN  CASE pc = "loop" -> IF is_success THEN 1 ELSE n + 1
          [] pc = "setup" -> n
          [] pc = "connect" -> n - 1
          [] pc = "blocking" -> n - 2
          [] pc = "sleep" -> n + 2
          [] OTHER -> 0

\* Every step of connect takes something off, and nobody else adds to it while the
\* thread has the mutex.
Advances ==
    /\ StepsLeft' \in Nat
    /\ Step => StepsLeft' < StepsLeft
    /\ mutex # NoThread => StepsLeft' <= StepsLeft

LEMMA LeftTypes ==
    ASSUME CInv
    PROVE  /\ max_retry_count \in Nat /\ retry \in Nat /\ is_success \in BOOLEAN
           /\ pc \in Establishing => max_retry_count >= retry + 1 /\ ~is_success
           /\ pc \in {"loop", "sleep"} /\ ~is_success => max_retry_count >= retry
           /\ pc # "none" /\ is_success => pc = "loop"
           /\ pc \in Places
<1>1. TypeOK /\ CountInv
    BY DEF CInv
<1> QED BY <1>1, MaxRetryNat DEF TypeOK, CountInv

LEMMA LeftNat == ASSUME CInv PROVE StepsLeft \in Nat
<1> DEFINE n == 5 * (max_retry_count - retry)
<1>1. /\ pc \in Establishing => n \in Nat /\ n >= 5
      /\ pc \in {"loop", "sleep"} /\ ~is_success => n \in Nat
    BY LeftTypes
<1>2. StepsLeft = CASE pc = "loop" -> IF is_success THEN 1 ELSE n + 1
                    [] pc = "setup" -> n
                    [] pc = "connect" -> n - 1
                    [] pc = "blocking" -> n - 2
                    [] pc = "sleep" -> n + 2
                    [] OTHER -> 0
    BY DEF StepsLeft
<1> HIDE DEF n
<1> QED BY <1>1, <1>2, LeftTypes DEF Establishing

\* A connect makes at most 5 * max_retry_count + 1 steps with the mutex, whatever fails:
\* this is what makes ConnectReturns true as soon as its thread runs.
THEOREM ConnectEnds == Spec => [][Advances]_vars
<1>1. ASSUME CInv, StepsLeft \in Nat, (StepsLeft \in Nat)', Next
      PROVE  Advances
  <2>1. StepsLeft \in Nat /\ StepsLeft' \in Nat
      BY <1>1
  <2>2. /\ max_retry_count \in Nat /\ retry \in Nat /\ is_success \in BOOLEAN
        /\ pc \in Establishing => max_retry_count >= retry + 1 /\ ~is_success
        /\ pc \in {"loop", "sleep"} /\ ~is_success => max_retry_count >= retry
        /\ pc # "none" /\ is_success => pc = "loop"
      BY <1>1, LeftTypes
  <2>3. ASSUME Step PROVE StepsLeft' < StepsLeft
    <3>1. max_retry_count' = max_retry_count
        BY <2>3 DEF Step, InvalidPort, MakeSocket, SocketFails, EstablishFails, SetUp, Connect,
                    Established, Sleep, Leave, Unlock, Caught, historyVars, max_retry_count
    <3>2. CASE InvalidPort \/ Leave
      <4>1. pc = "loop" /\ pc' = "none"
          BY <3>2 DEF InvalidPort, Leave, Unlock
      <4> QED BY <2>2, <4>1 DEF StepsLeft
    <3>3. CASE MakeSocket
        BY <2>2, <3>1, <3>3 DEF MakeSocket, Again, StepsLeft
    <3>4. CASE SocketFails
        BY <2>2, <3>1, <3>4 DEF SocketFails, Caught, Again, StepsLeft
    <3>5. CASE EstablishFails
        BY <2>2, <3>1, <3>5 DEF EstablishFails, Caught, Establishing, StepsLeft
    <3>6. CASE SetUp \/ Connect
        BY <2>2, <3>1, <3>6 DEF SetUp, Connect, Establishing, StepsLeft
    <3>7. CASE Established
        BY <2>2, <3>1, <3>7 DEF Established, Establishing, StepsLeft
    <3>8. CASE Sleep
        BY <2>2, <3>1, <3>8 DEF Sleep, StepsLeft
    <3> QED BY <2>3, <3>2, <3>3, <3>4, <3>5, <3>6, <3>7, <3>8 DEF Step
  <2>4. ASSUME mutex # NoThread, ~Step PROVE StepsLeft' = StepsLeft
    <3>1. UNCHANGED <<mutex, pc, option, retry, is_success>>
        BY <1>1, <2>4 DEF Next, Lock, Close, Others, OtherOpens, OtherCloses, loopVars
    <3> QED BY <3>1 DEF StepsLeft, max_retry_count
  <2> QED BY <2>1, <2>3, <2>4 DEF Advances
<1>2. CInv /\ StepsLeft \in Nat /\ (StepsLeft \in Nat)' /\ [Next]_vars => [Advances]_vars
    BY <1>1
<1>3. CInv => StepsLeft \in Nat
    BY LeftNat
<1> QED BY <1>2, <1>3, ConnectingInvariant, PTL DEF Spec

=============================================================================
