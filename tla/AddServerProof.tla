--------------------------- MODULE AddServerProof ---------------------------
(***************************************************************************)
(* Theorems about AddServer, for every set of connections and every width   *)
(* of the values.                                                           *)
(***************************************************************************)
EXTENDS AddServer, TLAPS

\* Only a connection in StateInit is inside StateInit::set.
TestingInit == \A c \in testing : state[c] = "Init"

\* Nobody takes a flag back, and no connection leaves StateInit without both.
FlagsStay ==
    /\ \A c \in Conns : \A k \in given[c] : flags[k]
    /\ \A c \in Conns : state[c] # "Init" => \A k \in Kinds : flags[k]

\* What a scripted client has sent is what its connection holds.
Sent ==
    \A c \in Scripted :
        /\ pc[c] # "valueA" =>
               "valueA" \in given[c] /\ param[c].valueA = want[c]["valueA"]
        /\ pc[c] \in {"compute", "result", "done"} =>
               "valueB" \in given[c] /\ param[c].valueB = want[c]["valueB"]

\* The state of its connection keeps up with the script.
KeepsUp ==
    \A c \in Scripted :
        /\ pc[c] = "compute" => c \in testing \/ state[c] # "Init"
        /\ pc[c] \in {"result", "done"} => state[c] = "Computed"

AInv ==
    /\ TypeOK /\ TestingInit /\ FlagsStay /\ Sent /\ KeepsUp
    /\ SumCurrent /\ ResultTrue /\ ScriptNeverRefused

-----------------------------------------------------------------------------
(***************************************************************************)
(* Helpers of the model.                                                    *)
(***************************************************************************)

\* A sum of uint32_t is a uint32_t.
LEMMA PlusType ==
    ASSUME NEW a \in Words, NEW b \in Words
    PROVE  Plus(a, b) \in Words
<1>1. a + b \in Nat
    BY ModulusAssumption DEF Words
<1> HIDE DEF Words
<1>2. ((a + b) % Modulus) \in 0 .. (Modulus - 1)
    BY <1>1, ModulusAssumption
<1> QED BY <1>2 DEF Plus, Words

\* A value is a uint32_t.
LEMMA ValueType == Values \subseteq Words
BY ValuesAssumption DEF Words

\* StateReady::set and StateComputed::set lead to a state.
LEMMA AfterType ==
    ASSUME NEW s \in States, NEW e
    PROVE  After(s, e) \in States
BY DEF After, States

\* After a value the state is not Computed, and not Init if it was not.
LEMMA AfterValue ==
    ASSUME NEW s \in States, NEW k \in Kinds, s # "Init"
    PROVE  After(s, k) = "Ready"
BY DEF After, States, Kinds

\* After a compute request the state is Computed.
LEMMA AfterCompute ==
    ASSUME NEW s \in States, s # "Init"
    PROVE  After(s, "compute") = "Computed"
BY DEF After, States, Kinds

\* Progress of a script changes the place of one client.
LEMMA AdvanceOne ==
    ASSUME TypeOK, NEW c \in Conns, NEW p \in Script, Advance(c, p)
    PROVE  /\ pc' \in [Scripted -> Script]
           /\ c \in Scripted => pc'[c] = p
           /\ \A d \in Scripted : d # c => pc'[d] = pc[d]
BY DEF TypeOK, Advance

\* A transition changes the state of one connection.
LEMMA NextStateOne ==
    ASSUME TypeOK, NEW c \in Conns, NEW s \in States, next_state(c, s)
    PROVE  /\ state' \in [Conns -> States]
           /\ state'[c] = s
           /\ \A d \in Conns : d # c => state'[d] = state[d]
BY DEF TypeOK, next_state

\* A received value replaces one value of one connection.
LEMMA ReceiveParam ==
    ASSUME TypeOK, NEW c \in Conns, NEW k \in Kinds, NEW v \in Values,
           param' = [param EXCEPT ![c][k] = v]
    PROVE  /\ param' \in [Conns -> Param]
           /\ \A d \in Conns : d # c => param'[d] = param[d]
           /\ k = "valueA" => param'[c].valueA = v /\ param'[c].valueB = param[c].valueB
           /\ k = "valueB" => param'[c].valueB = v /\ param'[c].valueA = param[c].valueA
<1>1. param \in [Conns -> Param] /\ v \in Words
    BY ValueType DEF TypeOK
<1>2. CASE k = "valueA"
  <2>1. param' = [param EXCEPT ![c] = [param[c] EXCEPT !.valueA = v]]
      BY <1>2
  <2>2. [param[c] EXCEPT !.valueA = v] \in Param
      BY <1>1 DEF Param
  <2>3. /\ [param[c] EXCEPT !.valueA = v].valueA = v
        /\ [param[c] EXCEPT !.valueA = v].valueB = param[c].valueB
      BY <1>1 DEF Param
  <2> QED BY <1>1, <1>2, <2>1, <2>2, <2>3
<1>3. CASE k = "valueB"
  <2>1. param' = [param EXCEPT ![c] = [param[c] EXCEPT !.valueB = v]]
      BY <1>3
  <2>2. [param[c] EXCEPT !.valueB = v] \in Param
      BY <1>1 DEF Param
  <2>3. /\ [param[c] EXCEPT !.valueB = v].valueB = v
        /\ [param[c] EXCEPT !.valueB = v].valueA = param[c].valueA
      BY <1>1 DEF Param
  <2> QED BY <1>1, <1>3, <2>1, <2>2, <2>3
<1> QED BY <1>2, <1>3 DEF Kinds

\* A computed sum replaces the sum of one connection.
LEMMA ComputeParam ==
    ASSUME TypeOK, NEW c \in Conns,
           param' = [param EXCEPT ![c].sum = Plus(param[c].valueA, param[c].valueB)]
    PROVE  /\ param' \in [Conns -> Param]
           /\ \A d \in Conns : d # c => param'[d] = param[d]
           /\ param'[c].valueA = param[c].valueA
           /\ param'[c].valueB = param[c].valueB
           /\ param'[c].sum = Plus(param[c].valueA, param[c].valueB)
<1> DEFINE s == Plus(param[c].valueA, param[c].valueB)
<1>1. param \in [Conns -> Param]
    BY DEF TypeOK
<1>2. s \in Words
    BY <1>1, PlusType DEF Param
<1>3. param' = [param EXCEPT ![c] = [param[c] EXCEPT !.sum = s]]
    OBVIOUS
<1> HIDE DEF s
<1>4. [param[c] EXCEPT !.sum = s] \in Param
    BY <1>1, <1>2 DEF Param
<1>5. /\ [param[c] EXCEPT !.sum = s].sum = s
      /\ [param[c] EXCEPT !.sum = s].valueA = param[c].valueA
      /\ [param[c] EXCEPT !.sum = s].valueB = param[c].valueB
    BY <1>1 DEF Param
<1>6. param'[c] = [param[c] EXCEPT !.sum = s] /\ param' \in [Conns -> Param]
    BY <1>1, <1>3, <1>4
<1> QED BY <1>1, <1>3, <1>5, <1>6 DEF s

-----------------------------------------------------------------------------
(***************************************************************************)
(* The inductive invariant.                                                 *)
(***************************************************************************)

\* It holds when the server starts.
LEMMA AInit == Init => AInv
<1> SUFFICES ASSUME Init PROVE AInv
    OBVIOUS
<1>1. TypeOK
  <2>1. param \in [Conns -> Param]
      BY DEF Init
  <2>2. result \in [Conns -> Words]
      BY ModulusAssumption DEF Init, Words
  <2> QED BY <2>1, <2>2 DEF Init, TypeOK, States, Script
<1>2. TestingInit /\ FlagsStay
    BY DEF Init, TestingInit, FlagsStay
<1>3. Sent /\ KeepsUp /\ ResultTrue
    BY DEF Init, Sent, KeepsUp, ResultTrue
<1>4. SumCurrent /\ ScriptNeverRefused
    BY DEF Init, SumCurrent, ScriptNeverRefused
<1> QED BY <1>1, <1>2, <1>3, <1>4 DEF AInv

\* It survives the reception of a value: flags are only set, the values of other
\* connections stay, and a sum that has become stale can no longer be downloaded.
LEMMA AReceive ==
    ASSUME AInv, NEW c \in Conns, NEW k \in Kinds, NEW v \in Values, Receive(c, k, v)
    PROVE  AInv'
<1> USE DEF AInv
<1> DEFINE p == IF k = "valueA" THEN "valueB" ELSE "compute"
<1>1. p \in Script
    BY DEF Script
<1>2. Advance(c, p) /\ c \notin testing /\ (c \in Scripted => pc[c] = k /\ v = want[c][k])
    BY DEF Receive, Turn
<1> HIDE DEF p
<1>3. /\ pc' \in [Scripted -> Script]
      /\ c \in Scripted => pc'[c] = p
      /\ \A d \in Scripted : d # c => pc'[d] = pc[d]
    BY <1>1, <1>2, AdvanceOne
<1>4. /\ param' \in [Conns -> Param]
      /\ \A d \in Conns : d # c => param'[d] = param[d]
      /\ k = "valueA" => param'[c].valueA = v /\ param'[c].valueB = param[c].valueB
      /\ k = "valueB" => param'[c].valueB = v /\ param'[c].valueA = param[c].valueA
    BY ReceiveParam DEF Receive
<1>5. /\ state' \in [Conns -> States]
      /\ \A d \in Conns : d # c => state'[d] = state[d]
      /\ state[c] = "Init" => state'[c] = "Init" /\ testing' = testing \cup {c}
      /\ state[c] # "Init" => state'[c] = "Ready" /\ testing' = testing
  <2>1. CASE state[c] = "Init"
      BY <2>1 DEF Receive, TypeOK
  <2>2. CASE state[c] # "Init"
    <3>1. After(state[c], k) = "Ready"
        BY <2>2, AfterValue DEF TypeOK
    <3>2. next_state(c, "Ready") /\ testing' = testing
        BY <2>2, <3>1 DEF Receive
    <3> QED BY <2>2, <3>2, NextStateOne DEF States
  <2> QED BY <2>1, <2>2
<1>6. /\ flags' \in [Kinds -> BOOLEAN]
      /\ \A j \in Kinds : flags[j] => flags'[j]
      /\ state[c] = "Init" => flags'[k]
  <2>1. CASE flags' = [flags EXCEPT ![k] = TRUE]
      BY <2>1 DEF TypeOK
  <2>2. CASE flags' = flags /\ state[c] # "Init"
      BY <2>2 DEF TypeOK
  <2> QED BY <2>1, <2>2 DEF Receive
<1>7. given' = [given EXCEPT ![c] = @ \cup {k}]
    BY DEF Receive
<1>8. UNCHANGED <<compares, want, result, refused>>
    BY DEF Receive
<1>9. TypeOK'
    BY <1>3, <1>4, <1>5, <1>6, <1>7, <1>8 DEF TypeOK
<1>10. TestingInit'
    BY <1>2, <1>5 DEF TestingInit, TypeOK
<1>11. FlagsStay'
  <2>1. \A d \in Conns : d # c => given'[d] = given[d]
      BY <1>7 DEF TypeOK
  <2>2. given'[c] = given[c] \cup {k} /\ given[c] \subseteq Kinds
      BY <1>7 DEF TypeOK
  <2>3. ASSUME NEW d \in Conns, NEW j \in given'[d] PROVE flags'[j]
    <3>1. CASE d # c
        BY <2>1, <2>3, <3>1, <1>6 DEF FlagsStay, TypeOK
    <3>2. CASE d = c /\ j # k
        BY <2>2, <2>3, <3>2, <1>6 DEF FlagsStay
    <3>3. CASE d = c /\ j = k
      <4>1. CASE state[c] = "Init"
          BY <3>3, <4>1, <1>6
      <4>2. CASE state[c] # "Init"
          BY <3>3, <4>2, <1>6 DEF FlagsStay
      <4> QED BY <4>1, <4>2
    <3> QED BY <3>1, <3>2, <3>3
  <2>4. ASSUME NEW d \in Conns, state'[d] # "Init" PROVE state[d] # "Init"
      BY <2>4, <1>5
  <2> QED BY <2>3, <2>4, <1>6 DEF FlagsStay
<1>12. Sent'
  <2> SUFFICES ASSUME NEW d \in Scripted
               PROVE  /\ pc'[d] # "valueA" =>
                             "valueA" \in given'[d] /\ param'[d].valueA = want[d]["valueA"]
                      /\ pc'[d] \in {"compute", "result", "done"} =>
                             "valueB" \in given'[d] /\ param'[d].valueB = want[d]["valueB"]
      BY <1>8 DEF Sent
  <2>1. d \in Conns
      BY ScriptedAssumption
  <2>2. CASE d # c
      BY <2>1, <2>2, <1>3, <1>4, <1>7 DEF Sent, TypeOK
  <2>3. CASE d = c
    <3>1. given'[c] = given[c] \cup {k} /\ pc[c] = k /\ v = want[c][k] /\ pc'[c] = p
        BY <2>3, <1>2, <1>3, <1>7 DEF TypeOK
    <3>2. CASE k = "valueA"
        BY <2>3, <3>1, <3>2, <1>4 DEF p
    <3>3. CASE k = "valueB"
        BY <2>3, <3>1, <3>3, <1>4 DEF p, Sent
    <3> QED BY <3>2, <3>3 DEF Kinds
  <2> QED BY <2>2, <2>3
<1>13. KeepsUp'
  <2> SUFFICES ASSUME NEW d \in Scripted
               PROVE  /\ pc'[d] = "compute" => d \in testing' \/ state'[d] # "Init"
                      /\ pc'[d] \in {"result", "done"} => state'[d] = "Computed"
      BY DEF KeepsUp
  <2>1. d \in Conns
      BY ScriptedAssumption
  <2>2. CASE d # c
      BY <2>1, <2>2, <1>3, <1>5 DEF KeepsUp
  <2>3. CASE d = c
    <3>1. pc'[c] \in {"valueB", "compute"}
        BY <2>3, <1>3 DEF p
    <3> QED BY <2>3, <3>1, <1>5
  <2> QED BY <2>2, <2>3
<1>14. SumCurrent'
  <2>1. state'[c] # "Computed"
      BY <1>5
  <2> QED BY <2>1, <1>4, <1>5 DEF SumCurrent
<1>15. ResultTrue'
  <2>1. ASSUME NEW d \in Scripted, pc'[d] = "done" PROVE pc[d] = "done"
      BY <2>1, <1>3 DEF p
  <2> QED BY <2>1, <1>8 DEF ResultTrue, Expected
<1>16. ScriptNeverRefused'
    BY <1>8 DEF ScriptNeverRefused
<1> QED BY <1>9, <1>10, <1>11, <1>12, <1>13, <1>14, <1>15, <1>16


\* It survives the end of StateInit::set: a client that has sent both values finds both
\* flags, since its own thread has set them.
LEMMA ATestFlags == ASSUME AInv, NEW c \in Conns, TestFlags(c) PROVE AInv'
<1> USE DEF AInv
<1>1. PICK seen \in Readings(c) :
          next_state(c, IF seen["valueA"] /\ seen["valueB"] THEN "Ready" ELSE state[c])
    BY DEF TestFlags
<1>2. /\ c \in testing /\ testing' = testing \ {c}
      /\ UNCHANGED <<flags, param, compares, want, pc, result, refused, given>>
    BY DEF TestFlags, clientVars, historyVars
<1>3. state[c] = "Init"
    BY <1>2 DEF TestingInit
<1>4. /\ state' \in [Conns -> States]
      /\ \A d \in Conns : d # c => state'[d] = state[d]
      /\ seen["valueA"] /\ seen["valueB"] => state'[c] = "Ready"
      /\ ~(seen["valueA"] /\ seen["valueB"]) => state'[c] = "Init"
  <2>1. CASE seen["valueA"] /\ seen["valueB"]
      BY <1>1, <2>1, NextStateOne DEF States
  <2>2. CASE ~(seen["valueA"] /\ seen["valueB"])
      BY <1>1, <1>3, <2>2, NextStateOne DEF States
  <2> QED BY <2>1, <2>2
<1>5. \A k \in Kinds : /\ seen[k] => flags[k]
                       /\ flags[k] /\ k \in given[c] => seen[k]
    BY <1>1 DEF Readings
<1>6. TypeOK'
    BY <1>2, <1>4 DEF TypeOK
<1>7. TestingInit'
    BY <1>2, <1>4 DEF TestingInit, TypeOK
<1>8. FlagsStay'
  <2>1. ASSUME state'[c] # "Init" PROVE flags["valueA"] /\ flags["valueB"]
      BY <1>4, <1>5, <2>1 DEF Kinds
  <2>2. ASSUME NEW d \in Conns, state'[d] # "Init", NEW k \in Kinds PROVE flags[k]
    <3>1. CASE d = c
        BY <2>1, <2>2, <3>1 DEF Kinds
    <3>2. CASE d # c
        BY <1>4, <2>2, <3>2 DEF FlagsStay
    <3> QED BY <3>1, <3>2
  <2> QED BY <1>2, <2>2 DEF FlagsStay
<1>9. Sent'
    BY <1>2 DEF Sent
<1>10. KeepsUp'
  <2>1. ASSUME c \in Scripted, pc[c] = "compute" PROVE state'[c] = "Ready"
    <3>1. "valueA" \in given[c] /\ "valueB" \in given[c]
        BY <2>1 DEF Sent
    <3>2. flags["valueA"] /\ flags["valueB"]
        BY <3>1 DEF FlagsStay
    <3>3. seen["valueA"] /\ seen["valueB"]
        BY <1>5, <3>1, <3>2 DEF Kinds
    <3> QED BY <1>4, <3>3
  <2>2. c \in Scripted => pc[c] \notin {"result", "done"}
      BY <1>3 DEF KeepsUp
  <2>3. \A d \in Scripted : d \in Conns
      BY ScriptedAssumption
  <2> QED BY <1>2, <1>4, <2>1, <2>2, <2>3 DEF KeepsUp
<1>11. SumCurrent'
  <2>1. state'[c] # "Computed"
      BY <1>4
  <2> QED BY <1>2, <1>4, <2>1 DEF SumCurrent
<1>12. ResultTrue' /\ ScriptNeverRefused'
    BY <1>2 DEF ResultTrue, Expected, ScriptNeverRefused
<1> QED BY <1>6, <1>7, <1>8, <1>9, <1>10, <1>11, <1>12

\* It survives the computation of the sum.
LEMMA ACompute == ASSUME AInv, NEW c \in Conns, Compute(c) PROVE AInv'
<1> USE DEF AInv
<1>1. /\ c \notin testing /\ state[c] # "Init"
      /\ c \in Scripted => pc[c] = "compute"
      /\ UNCHANGED <<flags, testing, compares, want, result, refused, given>>
    BY DEF Compute, Turn, historyVars
<1>2. /\ state' \in [Conns -> States]
      /\ state'[c] = "Computed"
      /\ \A d \in Conns : d # c => state'[d] = state[d]
  <2>1. After(state[c], "compute") = "Computed"
      BY <1>1, AfterCompute DEF TypeOK
  <2>2. next_state(c, "Computed")
      BY <2>1 DEF Compute
  <2> QED BY <2>2, NextStateOne DEF States
<1>3. /\ pc' \in [Scripted -> Script]
      /\ c \in Scripted => pc'[c] = "result"
      /\ \A d \in Scripted : d # c => pc'[d] = pc[d]
  <2>1. Advance(c, "result") /\ "result" \in Script
      BY DEF Compute, Script
  <2> QED BY <2>1, AdvanceOne
<1>4. /\ param' \in [Conns -> Param]
      /\ \A d \in Conns : d # c => param'[d] = param[d]
      /\ param'[c].valueA = param[c].valueA
      /\ param'[c].valueB = param[c].valueB
      /\ param'[c].sum = Plus(param[c].valueA, param[c].valueB)
    BY ComputeParam DEF Compute
<1>5. \A d \in Scripted : d \in Conns
    BY ScriptedAssumption
<1>6. TypeOK'
    BY <1>1, <1>2, <1>3, <1>4 DEF TypeOK
<1>7. TestingInit'
    BY <1>1, <1>2 DEF TestingInit, TypeOK
<1>8. FlagsStay'
    BY <1>1, <1>2 DEF FlagsStay
<1>9. Sent'
    BY <1>1, <1>3, <1>4, <1>5 DEF Sent
<1>10. KeepsUp'
    BY <1>1, <1>2, <1>3, <1>5 DEF KeepsUp
<1>11. SumCurrent'
    BY <1>2, <1>4 DEF SumCurrent
<1>12. ResultTrue' /\ ScriptNeverRefused'
    BY <1>1, <1>3 DEF ResultTrue, Expected, ScriptNeverRefused
<1> QED BY <1>6, <1>7, <1>8, <1>9, <1>10, <1>11, <1>12

\* An answer is a uint32_t.
LEMMA AnswerType ==
    ASSUME TypeOK, NEW c \in Conns, NEW expected \in Words
    PROVE  Answer(c, expected) \in Words
<1>1. param[c].sum \in Words
    BY DEF TypeOK, Param
<1>2. 0 \in Words /\ 1 \in Words
    BY ModulusAssumption DEF Words
<1> QED BY <1>1, <1>2 DEF Answer

\* It survives the download of a result, which is the sum of what was sent, or says that
\* the sum is the one the client expects.
LEMMA AResult ==
    ASSUME AInv, NEW c \in Conns, NEW expected \in Words, Result(c, expected)
    PROVE  AInv'
<1> USE DEF AInv
<1>1. /\ state[c] = "Computed"
      /\ c \in Scripted => pc[c] = "result" /\ expected = Expected(c)
      /\ result' = [result EXCEPT ![c] = Answer(c, expected)]
      /\ UNCHANGED <<state, flags, testing, param, compares, want, refused, given>>
    BY DEF Result, Turn, historyVars
<1>2. /\ pc' \in [Scripted -> Script]
      /\ c \in Scripted => pc'[c] = "done"
      /\ \A d \in Scripted : d # c => pc'[d] = pc[d]
  <2>1. Advance(c, "done") /\ "done" \in Script
      BY DEF Result, Script
  <2> QED BY <2>1, AdvanceOne
<1>3. \A d \in Scripted : d \in Conns
    BY ScriptedAssumption
<1>4. TypeOK'
  <2>1. Answer(c, expected) \in Words
      BY AnswerType
  <2> QED BY <1>1, <1>2, <2>1 DEF TypeOK
<1>5. TestingInit' /\ FlagsStay'
    BY <1>1 DEF TestingInit, FlagsStay
<1>6. Sent' /\ KeepsUp'
    BY <1>1, <1>2, <1>3 DEF Sent, KeepsUp
<1>7. SumCurrent' /\ ScriptNeverRefused'
    BY <1>1 DEF SumCurrent, ScriptNeverRefused
<1>8. ResultTrue'
  <2>1. ASSUME c \in Scripted
        PROVE  result'[c] = IF compares THEN 1 ELSE Expected(c)
    <3>1. result'[c] = Answer(c, expected)
        BY <1>1 DEF TypeOK
    <3>2. param[c].sum = Plus(param[c].valueA, param[c].valueB)
        BY <1>1 DEF SumCurrent
    <3>3. param[c].valueA = want[c]["valueA"] /\ param[c].valueB = want[c]["valueB"]
        BY <1>1, <2>1 DEF Sent
    <3>4. param[c].sum = Expected(c)
        BY <3>2, <3>3 DEF Expected
    <3> QED BY <1>1, <2>1, <3>1, <3>4 DEF Answer
  <2>2. \A d \in Conns : d # c => result'[d] = result[d]
      BY <1>1 DEF TypeOK
  <2>3. \A d \in Scripted : Expected(d)' = Expected(d)
      BY <1>1 DEF Expected
  <2> QED BY <1>1, <1>2, <1>3, <2>1, <2>2, <2>3 DEF ResultTrue
<1> QED BY <1>4, <1>5, <1>6, <1>7, <1>8

\* It survives a refusal, which meets no scripted client.
LEMMA ARefuse == ASSUME AInv, NEW c \in Conns, Refuse(c) PROVE AInv'
<1> USE DEF AInv
<1>1. /\ refused' = refused \cup {c}
      /\ UNCHANGED <<state, flags, testing, param, compares, want, pc, result, given>>
    BY DEF Refuse, clientVars
<1>2. c \notin Scripted
    BY DEF Refuse, Turn, KeepsUp
<1>3. TypeOK'
    BY <1>1 DEF TypeOK
<1>4. TestingInit' /\ FlagsStay' /\ Sent' /\ KeepsUp' /\ SumCurrent' /\ ResultTrue'
    BY <1>1 DEF TestingInit, FlagsStay, Sent, KeepsUp, SumCurrent, ResultTrue, Expected
<1>5. ScriptNeverRefused'
    BY <1>1, <1>2 DEF ScriptNeverRefused
<1> QED BY <1>3, <1>4, <1>5

\* A step that changes nothing.
LEMMA AStutter == ASSUME AInv, UNCHANGED vars PROVE AInv'
BY DEF AInv, vars, clientVars, historyVars, TypeOK, TestingInit, FlagsStay, Sent, KeepsUp,
       SumCurrent, ResultTrue, Expected, ScriptNeverRefused

\* The inductive invariant: flags are only set, scripted clients are as far as their
\* connections, and a sum that can be downloaded is current.
THEOREM AddServerInvariant == Spec => []AInv
<1>1. Init => AInv
    BY AInit
<1>2. AInv /\ [Next]_vars => AInv'
  <2> SUFFICES ASSUME AInv, [Next]_vars PROVE AInv'
      OBVIOUS
  <2>1. CASE UNCHANGED vars
      BY <2>1, AStutter
  <2>2. ASSUME NEW c \in Conns, Step(c) PROVE AInv'
    <3>1. CASE \E k \in Kinds, v \in Values : Receive(c, k, v)
        BY <3>1, AReceive
    <3>2. CASE TestFlags(c)
        BY <3>2, ATestFlags
    <3>3. CASE Compute(c)
        BY <3>3, ACompute
    <3>4. CASE \E expected \in Words : Result(c, expected)
        BY <3>4, AResult
    <3>5. CASE Refuse(c)
        BY <3>5, ARefuse
    <3> QED BY <2>2, <3>1, <3>2, <3>3, <3>4, <3>5 DEF Step
  <2> QED BY <2>1, <2>2 DEF Next
<1> QED BY <1>1, <1>2, PTL DEF Spec

\* Every variable keeps its type.
THEOREM AddServerTypes == Spec => []TypeOK
<1>1. AInv => TypeOK
    BY DEF AInv
<1> QED BY <1>1, AddServerInvariant, PTL

\* A client of the examples gets the sum of its values, or the verdict on the sum it
\* expects, whatever the others do.
THEOREM SumIsTrue == Spec => []ResultTrue
<1>1. AInv => ResultTrue
    BY DEF AInv
<1> QED BY <1>1, AddServerInvariant, PTL

\* A stale sum cannot be downloaded.
THEOREM SumIsCurrent == Spec => []SumCurrent
<1>1. AInv => SumCurrent
    BY DEF AInv
<1> QED BY <1>1, AddServerInvariant, PTL

\* A client of the example is never refused.
THEOREM NeverRefused == Spec => []ScriptNeverRefused
<1>1. AInv => ScriptNeverRefused
    BY DEF AInv
<1> QED BY <1>1, AddServerInvariant, PTL

=============================================================================
