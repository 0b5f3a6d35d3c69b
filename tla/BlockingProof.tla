--------------------------- MODULE BlockingProof ---------------------------
(***************************************************************************)
(* Theorems about Blocking, for every number of operations and attempts and *)
(* for all intervals and timeouts.                                          *)
(***************************************************************************)
EXTENDS Blocking, TLAPS

Answered == {"accepted", "rejected"}

\* What the connection guarantees of the calls made so far.
WireInv ==
    /\ \A i \in Calls : outcome[i] = "rejected" => status[i] = "refused"
    /\ \A i \in Calls : i > issued => by[i] = NoOp

\* Every attempt of an operation was refused, except its latest one while that is
\* under way or when it has ended the operation.
AttemptInv ==
    /\ \A op \in Ops : phase[op] = "call" => current[op] \in Calls
    /\ \A op \in Ops, i \in Calls :
        by[i] = op =>
            \/ outcome[i] = "rejected"
            \/ phase[op] \in {"call", "done"} /\ i = current[op]

\* calc_retry_count attempts, each followed by one interval of sleep.
SleepInv ==
    \A op \in Ops :
        /\ slept[op] = retry[op] * option[op].interval
        /\ retry[op] # 0 => retry[op] <= max_retry_count(op)
        /\ phase[op] = "call" => retry[op] < max_retry_count(op)

IInv == TypeOK /\ WireInv /\ AttemptInv /\ SleepInv

-----------------------------------------------------------------------------
(* The retry count.                                                         *)

\* The number of attempts is a number, and their sleeps stay within the bound of
\* SleepBounded.
LEMMA RetryCount ==
    ASSUME NEW T \in Nat, NEW n \in Nat
    PROVE  /\ calc_retry_count(T, n) \in Nat
           /\ n < Second => calc_retry_count(T, n) = 1
           /\ n >= Second => calc_retry_count(T, n) * (n \div Second) <= T
                             /\ calc_retry_count(T, n) <= T
<1> DEFINE d == n \div Second
<1>1. d \in Nat
  BY DEF Second
<1>2. n < Second => d = 0
  BY DEF Second
<1>3. n >= Second => d >= 1
  BY DEF Second
<1>4. calc_retry_count(T, n) = IF d # 0 THEN T \div d ELSE 1
  BY DEF calc_retry_count
<1> HIDE DEF d
<1>5. CASE n < Second
  BY <1>2, <1>4, <1>5 DEF Second
<1>6. CASE n >= Second
  <2>1. T \div d \in Int /\ T \div d >= 0 /\ (T \div d) * d <= T
    BY <1>1, <1>3, <1>6
  <2>2. T \div d <= (T \div d) * d
    BY <1>1, <1>3, <1>6, <2>1
  <2> QED BY <1>1, <1>3, <1>4, <1>6, <2>1, <2>2 DEF d, Second
<1> QED BY <1>5, <1>6 DEF Second


LEMMA SleepLimit ==
    ASSUME NEW T \in Nat, NEW n \in Nat, NEW r \in Nat, r <= calc_retry_count(T, n)
    PROVE  r * n <= IF n < Second THEN n ELSE T * (Second + (n % Second))
<1>1. CASE n < Second
  <2>1. r <= 1
    BY <1>1, RetryCount
  <2> QED BY <1>1, <2>1
<1>2. CASE n >= Second
  <2> DEFINE d == n \div Second
             m == n % Second
  <2>1. d \in Nat /\ m \in Nat /\ n = d * Second + m
    BY DEF Second
  <2>12. m = n % Second
    OBVIOUS
  <2> DEFINE k == calc_retry_count(T, n)
  <2>2. k \in Nat /\ k * d <= T /\ k <= T
    BY <1>2, RetryCount
  <2> HIDE DEF d, m, k
  <2>3. Second \in Nat
    BY DEF Second
  <2>4. r * n <= k * n
    BY <2>2 DEF k
  <2>5. k * n = (k * d) * Second + k * m
    BY <2>1, <2>2, <2>3
  <2>6. (k * d) * Second <= T * Second /\ k * m <= T * m
    BY <2>1, <2>2, <2>3
  <2>7. T * Second + T * m = T * (Second + m)
    BY <2>1, <2>3
  <2>8. /\ r * n \in Nat /\ k * n \in Nat /\ k * m \in Nat /\ T * m \in Nat
        /\ (k * d) * Second \in Nat /\ T * Second \in Nat
    BY <2>1, <2>2, <2>3
  <2>9. r * n <= T * (Second + m)
    BY <2>4, <2>5, <2>6, <2>7, <2>8
  <2>10. ~(n < Second)
    BY <1>2, <2>3
  <2> QED BY <2>9, <2>10, <2>12
<1> QED BY <1>1, <1>2 DEF Second

-----------------------------------------------------------------------------
(* The invariant.                                                           *)

LEMMA OptionTypes ==
    ASSUME TypeOK, NEW op \in Ops
    PROVE  /\ option[op].interval \in Nat /\ option[op].timeout \in Nat
           /\ max_retry_count(op) \in Nat
           /\ retry[op] \in Nat /\ slept[op] \in Nat /\ current[op] \in 0 .. MaxCalls
<1>1. option[op].interval \in Nat /\ option[op].timeout \in Nat
  BY TimesAssumption DEF TypeOK, Option
<1> QED BY <1>1, RetryCount DEF TypeOK, max_retry_count

LEMMA InitInv == Init => IInv
<1> SUFFICES ASSUME Init PROVE IInv
  OBVIOUS
<1> USE DEF Init, Wire!Init, Wire!Calls, Calls
<1>1. TypeOK
  BY MaxCallsAssumption
     DEF TypeOK, Wire!TypeOK, Wire!Statuses, Wire!Outcomes, Phases
<1>2. WireInv /\ AttemptInv
  BY <1>1, OpsAssumption DEF WireInv, AttemptInv
<1>3. SleepInv
  <2> SUFFICES ASSUME NEW op \in Ops
               PROVE  slept[op] = retry[op] * option[op].interval
    BY DEF SleepInv
  <2>1. option[op].interval \in Nat
    BY <1>1, OptionTypes
  <2> QED BY <2>1
<1> QED BY <1>1, <1>2, <1>3 DEF IInv


\* The return of a call: what Rpc says of it, spelt out for an operation.
LEMMA ReturnFacts ==
    ASSUME IInv, NEW op \in Ops, phase[op] = "call", Wire!Return(current[op])
    PROVE  /\ current[op] \in Calls /\ outcome[current[op]] = "none"
           /\ UNCHANGED <<issued, status>>
           /\ \E o \in {"accepted", "rejected", "lost"} :
                /\ outcome' = [outcome EXCEPT ![current[op]] = o]
                /\ outcome'[current[op]] = o
                /\ o = "rejected" => status[current[op]] = "refused"
           /\ outcome' \in [Calls -> Wire!Outcomes]
<1>1. current[op] \in Calls
  BY DEF IInv, AttemptInv
<1> QED BY <1>1 DEF IInv, TypeOK, Wire!TypeOK, Wire!Return, Wire!Outcomes, Wire!Calls, Calls


LEMMA AttemptKeeps ==
    ASSUME IInv, NEW op \in Ops, Attempt(op)
    PROVE  IInv'
<1>1. /\ phase[op] = "loop" /\ max_retry_count(op) > retry[op]
      /\ phase' = [phase EXCEPT ![op] = "call"]
      /\ current' = [current EXCEPT ![op] = issued']
      /\ by' = [by EXCEPT ![issued'] = op]
      /\ UNCHANGED <<option, retry, slept>>
      /\ issued < MaxCalls /\ issued' = issued + 1 /\ UNCHANGED <<status, outcome>>
  BY DEF Attempt, Wire!Issue
<1>2. issued \in Nat /\ issued' \in Calls /\ issued' > issued
  BY <1>1, MaxCallsAssumption DEF IInv, TypeOK, Wire!TypeOK, Calls
<1>3. TypeOK'
  BY <1>1, <1>2, MaxCallsAssumption DEF IInv, TypeOK, Wire!TypeOK, Calls, Phases
<1>4. /\ by' \in [Calls -> Ops \cup {NoOp}] /\ by'[issued'] = op
      /\ \A i \in Calls : i # issued' => by'[i] = by[i]
  BY <1>1, <1>2 DEF IInv, TypeOK
<1>5. WireInv'
  <2>1. \A i \in Calls : i > issued' => i > issued /\ i # issued'
    BY <1>1, <1>2 DEF Calls
  <2> QED BY <1>1, <1>4, <2>1 DEF IInv, WireInv
<1>6. AttemptInv'
  <2>1. \A p \in Ops : phase'[p] = "call" => current'[p] \in Calls
    BY <1>1, <1>2 DEF IInv, AttemptInv, TypeOK
  <2>2. ASSUME NEW p \in Ops, NEW i \in Calls, by'[i] = p
        PROVE  \/ outcome'[i] = "rejected"
               \/ phase'[p] \in {"call", "done"} /\ i = current'[p]
    <3>1. CASE i = issued'
      BY <1>1, <1>2, <1>4, <2>2, <3>1 DEF IInv, TypeOK
    <3>2. CASE i # issued' /\ p = op
      BY <1>1, <1>4, <2>2, <3>2 DEF IInv, AttemptInv
    <3>3. CASE i # issued' /\ p # op
      BY <1>1, <1>4, <2>2, <3>3 DEF IInv, AttemptInv, TypeOK
    <3> QED BY <3>1, <3>2, <3>3
  <2> QED BY <2>1, <2>2 DEF AttemptInv
<1>7. SleepInv'
  <2> SUFFICES ASSUME NEW p \in Ops
               PROVE  /\ slept[p] = retry[p] * option[p].interval
                      /\ retry[p] # 0 => retry[p] <= max_retry_count(p)
                      /\ phase'[p] = "call" => retry[p] < max_retry_count(p)
    BY <1>1 DEF SleepInv, max_retry_count
  <2>1. retry[p] \in Nat /\ max_retry_count(p) \in Nat
    BY OptionTypes DEF IInv
  <2> QED BY <1>1, <2>1 DEF IInv, SleepInv, TypeOK
<1> QED BY <1>3, <1>5, <1>6, <1>7 DEF IInv

\* An attempt comes back: only the outcome of the current call changes.
LEMMA ReturnKeeps ==
    ASSUME IInv, NEW op \in Ops, Succeed(op) \/ Reject(op)
    PROVE  IInv'
<1>1. /\ phase[op] = "call" /\ Wire!Return(current[op])
      /\ UNCHANGED <<option, current, by>>
      /\ \/ /\ phase' = [phase EXCEPT ![op] = "done"]
            /\ UNCHANGED <<retry, slept>>
         \/ /\ outcome'[current[op]] = "rejected"
            /\ phase' = [phase EXCEPT ![op] = "loop"]
            /\ retry' = [retry EXCEPT ![op] = @ + 1]
            /\ slept' = [slept EXCEPT ![op] = @ + option[op].interval]
  BY DEF Succeed, Reject
<1> DEFINE c == current[op]
<1>2. /\ c \in Calls /\ outcome[c] = "none"
      /\ UNCHANGED <<issued, status>>
      /\ outcome' \in [Calls -> Wire!Outcomes]
  BY <1>1, ReturnFacts
<1>3. PICK o \in {"accepted", "rejected", "lost"} :
        /\ outcome' = [outcome EXCEPT ![c] = o]
        /\ outcome'[c] = o
        /\ o = "rejected" => status[c] = "refused"
  BY <1>1, ReturnFacts
<1>4. \A i \in Calls : i # c => outcome'[i] = outcome[i]
  BY <1>2, <1>3 DEF IInv, TypeOK, Wire!TypeOK
<1>5. TypeOK'
  <2>1. retry' \in [Ops -> Nat] /\ slept' \in [Ops -> Nat]
    BY <1>1, OptionTypes DEF IInv, TypeOK
  <2>2. phase' \in [Ops -> Phases]
    BY <1>1 DEF IInv, TypeOK, Phases
  <2>3. Wire!TypeOK'
    BY <1>2 DEF IInv, TypeOK, Wire!TypeOK, Wire!Calls, Calls
  <2> QED BY <1>1, <2>1, <2>2, <2>3 DEF IInv, TypeOK
<1>6. WireInv'
  BY <1>1, <1>2, <1>3, <1>4 DEF IInv, WireInv
<1>7. AttemptInv'
  <2>1. \A p \in Ops : phase'[p] = "call" => current'[p] \in Calls
    BY <1>1 DEF IInv, AttemptInv, TypeOK
  <2>2. ASSUME NEW p \in Ops, NEW i \in Calls, by'[i] = p
        PROVE  \/ outcome'[i] = "rejected"
               \/ phase'[p] \in {"call", "done"} /\ i = current'[p]
    <3>1. \/ outcome[i] = "rejected"
          \/ phase[p] \in {"call", "done"} /\ i = current[p]
      BY <1>1, <2>2 DEF IInv, AttemptInv
    <3>2. CASE outcome[i] = "rejected"
      BY <1>2, <1>4, <3>2
    <3>3. CASE p # op /\ phase[p] \in {"call", "done"} /\ i = current[p]
      BY <1>1, <3>3 DEF IInv, TypeOK
    <3>4. CASE p = op /\ i = current[p]
      BY <1>1, <3>4 DEF IInv, TypeOK
    <3> QED BY <3>1, <3>2, <3>3, <3>4
  <2> QED BY <2>1, <2>2 DEF AttemptInv
<1>8. SleepInv'
  <2> SUFFICES ASSUME NEW p \in Ops
               PROVE  /\ slept'[p] = retry'[p] * option[p].interval
                      /\ retry'[p] # 0 => retry'[p] <= max_retry_count(p)
                      /\ phase'[p] = "call" => retry'[p] < max_retry_count(p)
    BY <1>1 DEF SleepInv, max_retry_count
  <2>1. /\ retry[p] \in Nat /\ slept[p] \in Nat /\ max_retry_count(p) \in Nat
        /\ option[p].interval \in Nat
    BY OptionTypes DEF IInv
  <2>2. /\ slept[p] = retry[p] * option[p].interval
        /\ retry[p] # 0 => retry[p] <= max_retry_count(p)
        /\ phase[p] = "call" => retry[p] < max_retry_count(p)
    BY DEF IInv, SleepInv
  <2>3. CASE p # op \/ UNCHANGED <<retry, slept>>
    BY <1>1, <2>1, <2>2, <2>3 DEF IInv, TypeOK
  <2>4. CASE p = op /\ ~UNCHANGED <<retry, slept>>
    <3>1. /\ retry'[p] = retry[p] + 1 /\ slept'[p] = slept[p] + option[p].interval
          /\ phase'[p] = "loop" /\ phase[p] = "call"
      BY <1>1, <2>4 DEF IInv, TypeOK
    <3>2. (retry[p] + 1) * option[p].interval = retry[p] * option[p].interval + option[p].interval
      BY <2>1
    <3> QED BY <2>1, <2>2, <3>1, <3>2
  <2> QED BY <2>3, <2>4
<1> QED BY <1>5, <1>6, <1>7, <1>8 DEF IInv

LEMMA OtherKeeps ==
    ASSUME IInv,
           \/ Execute
           \/ \E op \in Ops : Begin(op) \/ Expire(op)
           \/ UNCHANGED vars
    PROVE  IInv'
<1>1. CASE Execute
  <2>1. PICK i \in Calls : Wire!Serve(i) /\ UNCHANGED <<phase, option, retry, current, slept, by>>
    BY <1>1 DEF Execute
  <2>2. /\ status[i] = "none" /\ UNCHANGED <<issued, outcome>>
        /\ \E s \in Wire!Statuses \ {"none"} : status' = [status EXCEPT ![i] = s]
    BY <2>1 DEF Wire!Serve
  <2>3. TypeOK'
    BY <2>1, <2>2 DEF IInv, TypeOK, Wire!TypeOK
  <2>4. \A j \in Calls : status[j] # "none" => status'[j] = status[j]
    BY <2>2 DEF IInv, TypeOK, Wire!TypeOK, Wire!Calls, Calls
  <2>5. WireInv'
    BY <2>1, <2>2, <2>4 DEF IInv, WireInv
  <2> QED BY <2>1, <2>2, <2>3, <2>5 DEF IInv, AttemptInv, SleepInv, max_retry_count
<1>2. ASSUME NEW op \in Ops, Begin(op) \/ Expire(op)
      PROVE  IInv'
  <2>1. /\ phase[op] \in {"idle", "loop"}
        /\ \E q \in {"loop", "timeout"} : phase' = [phase EXCEPT ![op] = q]
        /\ UNCHANGED <<wireVars, option, retry, current, slept, by>>
    BY <1>2 DEF Begin, Expire
  <2>2. TypeOK'
    BY <2>1 DEF IInv, TypeOK, Wire!TypeOK, wireVars, Phases
  <2>3. \A p \in Ops : phase'[p] # phase[p] =>
            phase'[p] \in {"loop", "timeout"} /\ phase[p] \in {"idle", "loop"}
    BY <2>1 DEF IInv, TypeOK
  <2>4. \A p \in Ops : phase'[p] = "call" => phase[p] = "call"
    BY <2>3
  <2>5. \A p \in Ops : phase[p] \in {"call", "done"} => phase'[p] = phase[p]
    BY <2>3
  <2>6. AttemptInv'
    BY <2>1, <2>4, <2>5 DEF IInv, AttemptInv, wireVars
  <2>7. SleepInv'
    BY <2>1, <2>4 DEF IInv, SleepInv, max_retry_count
  <2> QED BY <2>1, <2>2, <2>6, <2>7 DEF IInv, WireInv, wireVars
<1>3. CASE UNCHANGED vars
  BY <1>3 DEF vars, wireVars, IInv, TypeOK, Wire!TypeOK, WireInv, AttemptInv, SleepInv, max_retry_count
<1> QED BY <1>1, <1>2, <1>3

LEMMA StepInv ==
    ASSUME IInv, [Next]_vars
    PROVE  IInv'
BY AttemptKeeps, ReturnKeeps, OtherKeeps DEF Next, Continue

\* The invariant holds in every reachable state.
THEOREM BlockingInvariant == Spec => []IInv
<1>1. Init => IInv
  BY InitInv
<1>2. IInv /\ [Next]_vars => IInv'
  BY StepInv
<1> QED BY <1>1, <1>2, PTL DEF Spec

-----------------------------------------------------------------------------
(* The properties.                                                          *)

\* Every variable of the blocking calls keeps its type.
THEOREM BlockingTypes == Spec => []TypeOK
<1>1. IInv => TypeOK
  BY DEF IInv
<1> QED BY <1>1, BlockingInvariant, PTL

\* However often it is repeated, a blocking call takes effect at most once.
THEOREM EffectOnce == Spec => []AtMostOneEffect
<1>1. IInv => AtMostOneEffect
  <2> SUFFICES ASSUME IInv, NEW i \in Calls, NEW j \in Calls, by[i] \in Ops, by[i] = by[j],
                      HasEffect(i), HasEffect(j)
               PROVE  i = j
    BY DEF AtMostOneEffect
  <2>1. outcome[i] # "rejected" /\ outcome[j] # "rejected"
    BY DEF IInv, WireInv, HasEffect
  <2> QED BY <2>1 DEF IInv, AttemptInv
<1> QED BY <1>1, BlockingInvariant, PTL

\* A call that has timed out was refused by the server at every attempt.
THEOREM TimeoutClean == Spec => []TimeoutHasNoEffect
<1>1. IInv => TimeoutHasNoEffect
  BY DEF IInv, AttemptInv, WireInv, TimeoutHasNoEffect
<1> QED BY <1>1, BlockingInvariant, PTL

\* The time slept is bounded by the arguments.
THEOREM SleepsBounded == Spec => []SleepBounded
<1>1. IInv => SleepBounded
  <2> SUFFICES ASSUME IInv, NEW op \in Ops
               PROVE  slept[op] <= IF option[op].interval < Second THEN option[op].interval
                                   ELSE option[op].timeout * (Second + (option[op].interval % Second))
    BY DEF SleepBounded
  <2>1. /\ option[op].interval \in Nat /\ option[op].timeout \in Nat /\ retry[op] \in Nat
        /\ max_retry_count(op) \in Nat
    BY OptionTypes DEF IInv
  <2>2. CASE retry[op] = 0
    <3>1. slept[op] = 0
      BY <2>1, <2>2 DEF IInv, SleepInv
    <3>2. 0 <= calc_retry_count(option[op].timeout, option[op].interval)
      BY <2>1 DEF max_retry_count
    <3>3. 0 * option[op].interval = 0
      BY <2>1
    <3> QED BY <2>1, <3>1, <3>2, <3>3, SleepLimit
  <2>3. CASE retry[op] # 0
    <3>1. retry[op] <= calc_retry_count(option[op].timeout, option[op].interval)
      BY <2>3 DEF IInv, SleepInv, max_retry_count
    <3>2. slept[op] = retry[op] * option[op].interval
      BY DEF IInv, SleepInv
    <3> QED BY <2>1, <3>1, <3>2, SleepLimit
  <2> QED BY <2>2, <2>3
<1> QED BY <1>1, BlockingInvariant, PTL

-----------------------------------------------------------------------------
(* The loop comes to an end.                                                *)

\* How many steps a blocking call has left at most: two for every attempt, one to
\* give up.
StepsLeft(op) ==
    CASE phase[op] = "idle" -> 2 * max_retry_count(op) + 2
      [] phase[op] = "loop" -> 2 * (max_retry_count(op) - retry[op]) + 1
      [] phase[op] = "call" -> 2 * (max_retry_count(op) - retry[op])
      [] OTHER -> 0

\* No step, of whatever operation, adds to what an operation has left, and each of its
\* own takes something off.
Advances ==
    \A op \in Ops :
        /\ StepsLeft(op)' <= StepsLeft(op)
        /\ Begin(op) \/ Continue(op) => StepsLeft(op)' < StepsLeft(op)

LEMMA CountTypes ==
    ASSUME IInv, NEW op \in Ops
    PROVE  /\ max_retry_count(op) \in Nat /\ retry[op] \in Nat
           /\ phase[op] \in Phases
           /\ retry[op] <= max_retry_count(op)
<1>1. TypeOK
  BY DEF IInv
<1>2. max_retry_count(op) \in Nat /\ retry[op] \in Nat
  BY <1>1, OptionTypes
<1> QED BY <1>1, <1>2 DEF IInv, SleepInv, TypeOK

\* A blocking call makes at most 2 * max_retry_count + 2 steps, whatever the other
\* threads and the server do: this is what makes BlockingReturns true as soon as threads
\* run.
THEOREM LoopEnds == Spec => [][Advances]_vars
<1>1. ASSUME IInv, IInv', Next
      PROVE  Advances
  <2> SUFFICES ASSUME NEW op \in Ops
               PROVE  /\ StepsLeft(op)' <= StepsLeft(op)
                      /\ Begin(op) \/ Continue(op) => StepsLeft(op)' < StepsLeft(op)
    BY DEF Advances
  <2>1. /\ max_retry_count(op) \in Nat /\ retry[op] \in Nat /\ retry[op] <= max_retry_count(op)
        /\ phase[op] \in Phases
    BY <1>1, CountTypes
  <2>2. option' = option /\ max_retry_count(op)' = max_retry_count(op)
    BY <1>1 DEF Next, Execute, Begin, Continue, Attempt, Succeed, Reject, Expire, max_retry_count
  <2>3. phase \in [Ops -> Phases] /\ retry \in [Ops -> Nat]
    BY <1>1 DEF IInv, TypeOK
  <2>4. (phase[op]' = phase[op] /\ retry[op]' = retry[op]) => StepsLeft(op)' = StepsLeft(op)
    BY <2>2 DEF StepsLeft
  <2>5. ASSUME Begin(op) PROVE StepsLeft(op)' < StepsLeft(op)
    <3>1. phase[op] = "idle" /\ phase'[op] = "loop" /\ retry' = retry
      BY <2>3, <2>5 DEF Begin
    <3> QED BY <2>1, <2>2, <3>1 DEF StepsLeft
  <2>6. ASSUME Continue(op) PROVE StepsLeft(op)' < StepsLeft(op)
    <3>1. CASE Attempt(op)
      <4>1. phase[op] = "loop" /\ phase'[op] = "call" /\ retry' = retry
        BY <2>3, <3>1 DEF Attempt
      <4> QED BY <2>1, <2>2, <4>1 DEF StepsLeft
    <3>2. CASE Reject(op)
      <4>1. phase[op] = "call" /\ phase'[op] = "loop" /\ retry'[op] = retry[op] + 1
        BY <2>3, <3>2 DEF Reject
      <4> QED BY <2>1, <2>2, <4>1 DEF StepsLeft
    <3>3. CASE Succeed(op)
      <4>1. phase[op] = "call" /\ phase'[op] = "done" /\ retry' = retry
        BY <2>3, <3>3 DEF Succeed
      <4>2. retry[op] < max_retry_count(op)
        BY <1>1, <4>1 DEF IInv, SleepInv
      <4> QED BY <2>1, <2>2, <4>1, <4>2 DEF StepsLeft
    <3>4. CASE Expire(op)
      <4>1. phase[op] = "loop" /\ phase'[op] = "timeout"
        BY <2>3, <3>4 DEF Expire
      <4> QED BY <2>1, <2>2, <4>1 DEF StepsLeft
    <3> QED BY <2>6, <3>1, <3>2, <3>3, <3>4 DEF Continue
  <2>7. StepsLeft(op) \in Int
    BY <2>1 DEF StepsLeft
  <2>8. StepsLeft(op)' \in Int
    <3>1. retry'[op] \in Nat
      BY <1>1 DEF IInv, TypeOK
    <3> QED BY <2>1, <2>2, <3>1 DEF StepsLeft
  <2>9. CASE Execute
    BY <2>4, <2>7, <2>5, <2>6, <2>9 DEF Execute
  <2>10. ASSUME NEW o \in Ops, Begin(o) \/ Continue(o)
         PROVE  StepsLeft(op)' <= StepsLeft(op)
    <3>1. CASE o = op
      BY <2>5, <2>6, <2>7, <2>8, <2>10, <3>1
    <3>2. CASE o # op
      <4>1. phase'[op] = phase[op] /\ retry'[op] = retry[op]
        BY <2>3, <2>10, <3>2 DEF Begin, Continue, Attempt, Succeed, Reject, Expire
      <4> QED BY <2>4, <2>7, <4>1
    <3> QED BY <3>1, <3>2
  <2> QED BY <1>1, <2>5, <2>6, <2>9, <2>10 DEF Next
<1>2. ASSUME IInv, IInv', [Next]_vars
      PROVE  [Advances]_vars
  BY <1>1, <1>2
<1> QED BY <1>2, BlockingInvariant, PTL DEF Spec

=============================================================================
