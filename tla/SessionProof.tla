---------------------------- MODULE SessionProof ----------------------------
(***************************************************************************)
(* Theorems about Session, for every number of threads, calls, codes and    *)
(* sizes and for every set of faults.                                       *)
(***************************************************************************)
EXTENDS SessionInv, SequenceTheorems, TLAPS

-----------------------------------------------------------------------------
(* The constants.                                                           *)

LEMMA ConstantTypes ==
    /\ kControlCodeNil \in Nat /\ kControlCodeAccept \in Nat /\ kControlCodeReject \in Nat
    /\ kControlCodeAccept # kControlCodeReject
    /\ ResultCode \in Nat /\ ResultCode # kControlCodeReject
    /\ NoCall \in CallRecord
<1>1. kControlCodeNil \in Nat /\ kControlCodeAccept \in Nat /\ kControlCodeReject \in Nat
  BY DEF kControlCodeNil, kControlCodeAccept, kControlCodeReject
<1>2. kControlCodeAccept # kControlCodeReject
  BY DEF kControlCodeAccept, kControlCodeReject
<1>3. ~MayAnnounceBody(kControlCodeReject)
  BY DEF MayAnnounceBody, HasBit, kControlCodeReject, kControlCodeGroupData,
         kControlCodeGroupUpDownload
<1>4. ResultCode \in Nat /\ ResultCode # kControlCodeReject
  BY <1>3, CodesAssumption
<1>5. NoCall \in CallRecord
  BY CodesAssumption, MaxCallsAssumption DEF NoCall, CallRecord
<1> QED BY <1>1, <1>2, <1>4, <1>5

LEMMA ItemTypes ==
    ASSUME NEW id \in 0 .. MaxCalls, NEW code \in Nat, NEW size \in Nat
    PROVE  PacketItem(id, code, size) \in Item /\ BytesItem(id, size) \in Item
BY ConstantTypes DEF PacketItem, BytesItem, Item

\* What a reset leaves of a stream.
LEMMA PrefixProperties ==
    ASSUME NEW S, NEW s \in Seq(S), NEW p \in Prefixes(s)
    PROVE  /\ p \in Seq(S)
           /\ Len(p) <= Len(s)
           /\ \A k \in 1 .. Len(p) : p[k] = s[k]
<1>1. PICK n \in 0 .. Len(s) : p = SubSeq(s, 1, n)
  BY DEF Prefixes
<1> QED BY <1>1

-----------------------------------------------------------------------------
(* Type correctness.                                                        *)

LEMMA ClientPutTypes ==
    ASSUME TypeOK, NEW item \in Item, ClientPut(item)
    PROVE  /\ c2s' \in Seq(Item) /\ s2c' \in Seq(Item)
           /\ csock' \in SockState /\ ssock' \in SockState
<1>1. c2s \in Seq(Item) /\ s2c \in Seq(Item) /\ csock \in SockState /\ ssock \in SockState
  BY DEF TypeOK
<1>2. Append(c2s, item) \in Seq(Item)
  BY <1>1, AppendProperties
<1>3. c2s' \in {c2s, Append(c2s, item)} /\ s2c' = s2c
  BY DEF ClientPut
<1>4. csock' \in SockState /\ ssock' \in SockState
  BY <1>1 DEF ClientPut, SockState
<1> QED BY <1>1, <1>2, <1>3, <1>4

LEMMA ServerPutTypes ==
    ASSUME TypeOK, NEW item \in Item, ServerPut(item)
    PROVE  /\ c2s' \in Seq(Item) /\ s2c' \in Seq(Item)
           /\ csock' \in SockState /\ ssock' \in SockState
<1>1. c2s \in Seq(Item) /\ s2c \in Seq(Item) /\ csock \in SockState /\ ssock \in SockState
  BY DEF TypeOK
<1>2. Append(s2c, item) \in Seq(Item)
  BY <1>1, AppendProperties
<1>3. s2c' \in {s2c, Append(s2c, item)} /\ c2s' = c2s
  BY DEF ServerPut
<1>4. csock' \in SockState /\ ssock' \in SockState
  BY <1>1 DEF ServerPut, SockState
<1> QED BY <1>1, <1>2, <1>3, <1>4

LEMMA TakeTypes ==
    ASSUME TypeOK, ClientTake \/ ServerTake
    PROVE  /\ c2s' \in Seq(Item) /\ s2c' \in Seq(Item)
           /\ csock' \in SockState /\ ssock' \in SockState
           /\ ClientTake => Head(s2c) \in Item
           /\ ServerTake => Head(c2s) \in Item
<1>1. CASE ClientTake
  <2>1. s2c \in Seq(Item) /\ s2c # <<>>
    BY <1>1 DEF TypeOK, ClientTake
  <2>2. Head(s2c) \in Item /\ Tail(s2c) \in Seq(Item)
    BY <2>1
  <2> QED BY <1>1, <2>2 DEF TypeOK, ClientTake, ServerTake
<1>2. CASE ServerTake
  <2>1. c2s \in Seq(Item) /\ c2s # <<>>
    BY <1>2 DEF TypeOK, ServerTake
  <2>2. Head(c2s) \in Item /\ Tail(c2s) \in Seq(Item)
    BY <2>1
  <2> QED BY <1>2, <2>2 DEF TypeOK, ClientTake, ServerTake
<1> QED BY <1>1, <1>2

LEMMA CloseTypes ==
    ASSUME TypeOK, CloseClientEnd \/ CloseServerEnd
    PROVE  /\ c2s' \in Seq(Item) /\ s2c' \in Seq(Item)
           /\ csock' \in SockState /\ ssock' \in SockState
<1>1. CASE CloseClientEnd
  <2>1. c2s' \in Seq(Item)
    BY <1>1, PrefixProperties DEF TypeOK, CloseClientEnd
  <2> QED BY <1>1, <2>1 DEF TypeOK, CloseClientEnd, SockState
<1>2. CASE CloseServerEnd
  <2>1. s2c' \in Seq(Item)
    BY <1>2, PrefixProperties DEF TypeOK, CloseServerEnd
  <2> QED BY <1>2, <2>1 DEF TypeOK, CloseServerEnd, SockState
<1> QED BY <1>1, <1>2

LEMMA FinishTypes ==
    ASSUME TypeOK, NEW t \in Threads, NEW o \in Outcomes, Finish(t, o)
    PROVE  /\ mutex' \in Threads \cup {NoThread}
           /\ pc' \in [Threads -> ClientPC]
           /\ call' \in [Threads -> CallRecord]
           /\ issued' \in 0 .. MaxCalls
           /\ status' \in [Calls -> Statuses]
           /\ outcome' \in [Calls -> Outcomes]
           /\ answered' \in Nat
<1>1. o \in Outcomes /\ outcome' = [outcome EXCEPT ![call[t].id] = o]
  BY DEF Finish
<1>2. outcome' \in [Calls -> Outcomes]
  BY <1>1 DEF TypeOK
<1>3. pc' \in [Threads -> ClientPC]
  BY DEF TypeOK, Finish, ClientPC
<1> QED BY <1>2, <1>3 DEF TypeOK, Finish

LEMMA ClientTypes ==
    ASSUME TypeOK, NEW t \in Threads, Lock(t) \/ Close(t) \/ ClientStep(t)
    PROVE  TypeOK'
<1> USE DEF Statuses
<1>1. CASE Lock(t)
  <2>1. PICK c \in Codes, n \in Sizes :
          call' = [call EXCEPT ![t] =
                    [id |-> issued + 1, code |-> c, size |-> IF CarriesBody(c) THEN n ELSE 0]]
    BY <1>1 DEF Lock
  <2>2. issued' \in 0 .. MaxCalls /\ issued + 1 \in 0 .. MaxCalls
    BY <1>1, MaxCallsAssumption DEF Lock, TypeOK
  <2>3. [id |-> issued + 1, code |-> c, size |-> IF CarriesBody(c) THEN n ELSE 0] \in CallRecord
    BY <2>2, SizesAssumption DEF CallRecord
  <2>4. call' \in [Threads -> CallRecord]
    BY <2>1, <2>3 DEF TypeOK
  <2> QED BY <1>1, <2>2, <2>4
          DEF Lock, TypeOK, ClientPC, serverVars, netVars, historyVars
<1>2. CASE SendPacket(t)
  <2>1. call[t].id \in 0 .. MaxCalls /\ call[t].code \in Nat /\ call[t].size \in Nat
    BY CodesAssumption DEF TypeOK, CallRecord
  <2>2. /\ c2s' \in Seq(Item) /\ s2c' \in Seq(Item)
        /\ csock' \in SockState /\ ssock' \in SockState
    BY <1>2, <2>1, ItemTypes, ClientPutTypes DEF SendPacket
  <2> QED BY <1>2, <2>2
          DEF SendPacket, TypeOK, ClientPC, FirstAnswer, serverVars, historyVars
<1>3. CASE SendBody(t)
  <2>1. call[t].id \in 0 .. MaxCalls /\ kControlCodeNil \in Nat /\ call[t].size \in Nat
    BY ConstantTypes DEF TypeOK, CallRecord
  <2>2. /\ c2s' \in Seq(Item) /\ s2c' \in Seq(Item)
        /\ csock' \in SockState /\ ssock' \in SockState
    BY <1>3, <2>1, ItemTypes, ClientPutTypes DEF SendBody
  <2> QED BY <1>3, <2>2
          DEF SendBody, TypeOK, ClientPC, FirstAnswer, serverVars, historyVars
<1>4. CASE RecvResult(t)
  <2>1. CASE Head(s2c).code = kControlCodeReject
    BY <1>4, <2>1, TakeTypes, FinishTypes DEF RecvResult, TypeOK, Outcomes, serverVars
  <2>2. CASE Head(s2c).code # kControlCodeReject
    BY <1>4, <2>2, TakeTypes DEF RecvResult, TypeOK, ClientPC, serverVars, historyVars
  <2> QED BY <2>1, <2>2
<1>5. CASE RecvPayload(t)
  BY <1>5, TakeTypes DEF RecvPayload, TypeOK, ClientPC, serverVars, historyVars
<1>6. CASE RecvAck(t)
  BY <1>6, TakeTypes, FinishTypes DEF RecvAck, TypeOK, Outcomes, serverVars
<1>7. CASE ClientError(t)
  BY <1>7, FinishTypes DEF ClientError, TypeOK, Outcomes, Reported, SockState, serverVars
<1>8. CASE ClientPipe(t)
  BY <1>8, CloseTypes DEF ClientPipe, ClientDies, TypeOK, ClientPC, serverVars, historyVars
<1>9. CASE Close(t)
  BY <1>9, CloseTypes DEF Close, TypeOK, clientVars, serverVars, historyVars
<1> QED BY <1>1, <1>2, <1>3, <1>4, <1>5, <1>6, <1>7, <1>8, <1>9 DEF ClientStep

LEMMA ServerTypes ==
    ASSUME TypeOK, ServerStep \/ Abort \/ Release
    PROVE  TypeOK'
<1> USE DEF Statuses
<1>1. req.id \in 0 .. MaxCalls /\ rsize \in Nat
  BY DEF TypeOK, Item
<1>2. CASE RecvPacket
  BY <1>2, TakeTypes DEF RecvPacket, TypeOK, ServerPC, clientVars, historyVars
<1>3. CASE RecvBody
  BY <1>3, TakeTypes DEF RecvBody, TypeOK, ServerPC, clientVars, historyVars
<1>4. ASSUME NEW s \in Statuses, NEW ack \in Verdicts, Evaluated(s, ack)
      PROVE  TypeOK'
  BY <1>4 DEF Evaluated, TypeOK, ServerPC, clientVars, netVars, Verdicts
<1>5. CASE Ignore \/ Run \/ Refuse
  BY <1>4, <1>5 DEF Ignore, Run, Refuse, Verdicts
<1>6. CASE SendResult
  <2>1. PICK n \in Sizes :
          /\ ServerPut(PacketItem(req.id, ResultCode, n))
          /\ rsize' = n
          /\ spc' = IF n # 0 THEN "payload" ELSE "tail"
    BY <1>6 DEF SendResult
  <2>2. n \in Nat /\ ResultCode \in Nat
    BY SizesAssumption, CodesAssumption
  <2>3. /\ c2s' \in Seq(Item) /\ s2c' \in Seq(Item)
        /\ csock' \in SockState /\ ssock' \in SockState
    BY <1>1, <2>1, <2>2, ItemTypes, ServerPutTypes
  <2> QED BY <1>6, <2>1, <2>2, <2>3 DEF SendResult, TypeOK, ServerPC, clientVars, historyVars
<1>7. CASE SendPayload
  <2>1. /\ c2s' \in Seq(Item) /\ s2c' \in Seq(Item)
        /\ csock' \in SockState /\ ssock' \in SockState
    BY <1>1, <1>7, ConstantTypes, ItemTypes, ServerPutTypes DEF SendPayload
  <2> QED BY <1>7, <2>1 DEF SendPayload, TypeOK, ServerPC, clientVars, historyVars
<1>8. CASE SendAck
  <2>1. verdict \in Nat
    BY ConstantTypes DEF TypeOK
  <2>2. /\ c2s' \in Seq(Item) /\ s2c' \in Seq(Item)
        /\ csock' \in SockState /\ ssock' \in SockState
    BY <1>1, <1>8, <2>1, ItemTypes, ServerPutTypes DEF SendAck
  <2> QED BY <1>8, <2>2 DEF SendAck, TypeOK, ServerPC, clientVars, historyVars
<1>9. CASE ServerError
  BY <1>9 DEF ServerError, TypeOK, ServerPC, Reported, SockState, clientVars
<1>10. CASE ServerPipe
  BY <1>10, CloseTypes DEF ServerPipe, ServerDies, TypeOK, ServerPC, clientVars, historyVars
<1>11. CASE Abort
  BY <1>11 DEF Abort, TypeOK, ServerPC, clientVars, netVars
<1>12. CASE Release
  BY <1>12, CloseTypes DEF Release, TypeOK, ServerPC, clientVars, historyVars
<1> QED BY <1>2, <1>3, <1>5, <1>6, <1>7, <1>8, <1>9, <1>10, <1>11, <1>12 DEF ServerStep

LEMMA FaultTypes ==
    ASSUME TypeOK, Reset \/ KillClient \/ KillServer
    PROVE  TypeOK'
<1>1. CASE Reset
  BY <1>1, PrefixProperties DEF Reset, TypeOK, SockState, clientVars, serverVars, historyVars
<1>2. CASE KillClient
  BY <1>2, CloseTypes DEF KillClient, ClientDies, TypeOK, ClientPC, serverVars, historyVars
<1>3. CASE KillServer
  BY <1>3, CloseTypes DEF KillServer, ServerDies, TypeOK, ServerPC, clientVars, historyVars
<1> QED BY <1>1, <1>2, <1>3

LEMMA InitTypes == Init => TypeOK
<1> SUFFICES ASSUME Init PROVE TypeOK
  OBVIOUS
<1>1. PacketItem(0, kControlCodeNil, 0) \in Item
  BY ConstantTypes, ItemTypes, MaxCallsAssumption
<1> QED BY <1>1, ConstantTypes, MaxCallsAssumption
        DEF Init, TypeOK, ClientPC, ServerPC, SockState, Statuses, Outcomes

LEMMA StepTypes == TypeOK /\ [Next]_vars => TypeOK'
<1> SUFFICES ASSUME TypeOK, [Next]_vars PROVE TypeOK'
  OBVIOUS
<1>1. CASE UNCHANGED vars
  BY <1>1 DEF TypeOK, vars, clientVars, serverVars, netVars, historyVars
<1>2. CASE Next
  BY <1>2, ClientTypes, ServerTypes, FaultTypes DEF Next, Proceed, Fault
<1> QED BY <1>1, <1>2

\* Every variable keeps its type, however many calls are made.
THEOREM TypeCorrect == Spec => []TypeOK
<1> QED BY InitTypes, StepTypes, PTL DEF Spec

-----------------------------------------------------------------------------
(* What the network operations do to the streams, in terms of lengths and   *)
(* elements.                                                                *)

LEMMA LengthTypes ==
    ASSUME TypeOK
    PROVE  /\ UpLen \in Nat /\ (c2s = <<>> <=> UpLen = 0)
           /\ DownLen \in Nat /\ (s2c = <<>> <=> DownLen = 0)
           /\ \A k \in 1 .. UpLen : c2s[k] \in Item
           /\ \A k \in 1 .. DownLen : s2c[k] \in Item
<1>1. c2s \in Seq(Item) /\ s2c \in Seq(Item)
  BY DEF TypeOK
<1> QED BY <1>1, EmptySeq, LenProperties, ElementOfSeq DEF UpLen, DownLen

LEMMA ClientPutFacts ==
    ASSUME TypeOK, SockInv, NEW item \in Item, ClientPut(item)
    PROVE  /\ csock = "open" /\ s2c' = s2c /\ DownLen' = DownLen /\ ssock' = ssock
           /\ \/ /\ ssock = "open" /\ csock' = "open"
                 /\ UpLen' = UpLen + 1
                 /\ c2s'[UpLen + 1] = item
                 /\ \A k \in 1 .. UpLen : c2s'[k] = c2s[k]
              \/ ssock = "closed" /\ c2s' = c2s /\ UpLen' = UpLen
<1>1. CASE ssock = "closed"
  BY <1>1 DEF ClientPut, UpLen, DownLen
<1>2. CASE ssock # "closed"
  <2>1. csock = "open" /\ csock' = csock /\ c2s' = Append(c2s, item) /\ s2c' = s2c /\ ssock' = ssock
    BY <1>2 DEF ClientPut
  <2>2. ssock = "open"
    BY <1>2, <2>1 DEF SockInv, TypeOK, SockState
  <2>3. c2s \in Seq(Item)
    BY DEF TypeOK
  <2> QED BY <2>1, <2>2, <2>3, AppendProperties DEF UpLen, DownLen
<1> QED BY <1>1, <1>2

LEMMA ServerPutFacts ==
    ASSUME TypeOK, SockInv, NEW item \in Item, ServerPut(item)
    PROVE  /\ ssock = "open" /\ c2s' = c2s /\ UpLen' = UpLen /\ csock' = csock
           /\ \/ /\ csock = "open" /\ ssock' = "open"
                 /\ DownLen' = DownLen + 1
                 /\ s2c'[DownLen + 1] = item
                 /\ \A k \in 1 .. DownLen : s2c'[k] = s2c[k]
              \/ /\ csock = "closed" /\ s2c' = s2c /\ DownLen' = DownLen
                 /\ ssock' \in {"open", "reset", "broken"}
<1>1. CASE csock = "closed"
  BY <1>1 DEF ServerPut, UpLen, DownLen
<1>2. CASE csock # "closed"
  <2>1. ssock = "open" /\ ssock' = ssock /\ s2c' = Append(s2c, item) /\ c2s' = c2s /\ csock' = csock
    BY <1>2 DEF ServerPut
  <2>2. csock = "open"
    BY <1>2, <2>1 DEF SockInv, TypeOK, SockState
  <2>3. s2c \in Seq(Item)
    BY DEF TypeOK
  <2> QED BY <2>1, <2>2, <2>3, AppendProperties DEF UpLen, DownLen
<1> QED BY <1>1, <1>2

LEMMA ClientTakeFacts ==
    ASSUME TypeOK, ClientTake
    PROVE  /\ DownLen \in Nat /\ DownLen # 0 /\ DownLen' = DownLen - 1
           /\ Head(s2c) = s2c[1]
           /\ \A k \in 1 .. DownLen' : s2c'[k] = s2c[k + 1]
           /\ c2s' = c2s /\ UpLen' = UpLen /\ csock' = csock /\ ssock' = ssock
<1>1. s2c \in Seq(Item) /\ s2c # <<>> /\ s2c' = Tail(s2c)
  BY DEF TypeOK, ClientTake
<1>2. Len(s2c) \in Nat /\ Len(s2c) # 0
  BY <1>1, EmptySeq, LenProperties
<1> QED BY <1>1, <1>2, HeadTailProperties DEF ClientTake, UpLen, DownLen

LEMMA ServerTakeFacts ==
    ASSUME TypeOK, ServerTake
    PROVE  /\ UpLen \in Nat /\ UpLen # 0 /\ UpLen' = UpLen - 1
           /\ Head(c2s) = c2s[1]
           /\ \A k \in 1 .. UpLen' : c2s'[k] = c2s[k + 1]
           /\ s2c' = s2c /\ DownLen' = DownLen /\ csock' = csock /\ ssock' = ssock
<1>1. c2s \in Seq(Item) /\ c2s # <<>> /\ c2s' = Tail(c2s)
  BY DEF TypeOK, ServerTake
<1>2. Len(c2s) \in Nat /\ Len(c2s) # 0
  BY <1>1, EmptySeq, LenProperties
<1> QED BY <1>1, <1>2, HeadTailProperties DEF ServerTake, UpLen, DownLen

\* Both streams are cut short, possibly not at all.
Cut ==
    /\ UpLen' <= UpLen /\ \A k \in 1 .. UpLen' : c2s'[k] = c2s[k]
    /\ DownLen' <= DownLen /\ \A k \in 1 .. DownLen' : s2c'[k] = s2c[k]

LEMMA CutFacts ==
    ASSUME TypeOK, TypeOK',
           CloseClientEnd \/ CloseServerEnd \/ Reset
    PROVE  Cut
<1> USE DEF UpLen, DownLen
<1> c2s \in Seq(Item) /\ s2c \in Seq(Item)
  BY DEF TypeOK
<1> Len(c2s) \in Nat /\ Len(s2c) \in Nat
  BY LenProperties
<1>1. CASE CloseClientEnd
  <2>1. s2c' = <<>> /\ (c2s' \in Prefixes(c2s) \/ c2s' = c2s)
    BY <1>1 DEF CloseClientEnd
  <2> QED BY <2>1, PrefixProperties DEF Cut
<1>2. CASE CloseServerEnd
  <2>1. c2s' = <<>> /\ (s2c' \in Prefixes(s2c) \/ s2c' = s2c)
    BY <1>2 DEF CloseServerEnd
  <2> QED BY <2>1, PrefixProperties DEF Cut
<1>3. CASE Reset
  <2>1. c2s' \in Prefixes(c2s) /\ s2c' \in Prefixes(s2c)
    BY <1>3 DEF Reset
  <2> QED BY <2>1, PrefixProperties DEF Cut
<1> QED BY <1>1, <1>2, <1>3

-----------------------------------------------------------------------------
(* The inductive invariant, action by action.                               *)

\* A cut leaves a prefix of an answer, and no answer ends where it did not.
LEMMA FramedPrefix ==
    ASSUME NEW p, NEW n \in Nat, NEW m \in Nat, NEW s, NEW r,
           Framed(p, n, s),
           m <= n, \A k \in 1 .. m : r[k] = s[k]
    PROVE  /\ Framed(p, m, r)
           /\ Complete(p, m, r) => Complete(p, n, s) /\ m = n /\ n # 0
<1>1. /\ m >= 1 => r[1] = s[1]
      /\ m >= 2 => r[2] = s[2]
      /\ m >= 3 => r[3] = s[3]
  OBVIOUS
<1>2. Framed(p, m, r)
  BY <1>1 DEF Framed, IsAck, Reading
<1>3. Complete(p, m, r) => Complete(p, n, s) /\ m = n /\ n # 0
  BY <1>1 DEF Framed, Complete, IsAck
<1> QED BY <1>2, <1>3

\* Every step that loses the line: streams are cut, a process may have ended.
LEMMA CutKeepsStreams ==
    ASSUME IInv, TypeOK', Cut, ~Intact',
           UNCHANGED <<mutex, call, issued, req, rsize, verdict, historyVars>>,
           pc' = pc \/ (pc' = [t \in Threads |-> "killed"] /\ s2c' = <<>>),
           spc' = spc \/ spc' \in {"released", "killed"}
    PROVE  DownInv' /\ UpInv' /\ LiveInv' /\ TruthInv'
<1>1. /\ UpLen \in Nat /\ DownLen \in Nat /\ UpLen' \in Nat /\ DownLen' \in Nat
      /\ s2c' = <<>> => DownLen' = 0
  BY LengthTypes DEF IInv, TypeOK, UpLen, DownLen
<1>2. /\ Phase' = Phase \/ (Phase' \in {"idle", "killed"} /\ s2c' = <<>>)
      /\ Phase' \in {"packet", "body"} => Phase' = Phase
      /\ Live' = Live
  BY ThreadsAssumption DEF Phase, Live, IInv, TypeOK, historyVars
<1>3. Framed(Phase, DownLen, s2c) /\ DownLen' <= DownLen /\ UpLen' <= UpLen
  BY DEF IInv, DownInv, Cut
<1>4. /\ Framed(Phase, DownLen', s2c')
      /\ Complete(Phase, DownLen', s2c') => 
            Complete(Phase, DownLen, s2c) /\ DownLen' = DownLen /\ DownLen # 0
  BY <1>1, <1>3, FramedPrefix DEF Cut
<1>5. Framed(Phase', DownLen', s2c')
  BY <1>1, <1>2, <1>4 DEF Framed, Reading
<1>6. Complete(Phase', DownLen', s2c') =>
          Complete(Phase, DownLen, s2c) /\ DownLen' = DownLen /\ DownLen # 0
  BY <1>2, <1>4 DEF Complete
<1>7. DownInv'
  <2>1. Complete(Phase', DownLen', s2c') => spc' \in Resting /\ UpLen' = 0
    BY <1>1, <1>3, <1>6 DEF IInv, DownInv, Resting
  <2> QED BY <1>1, <1>3, <1>5, <2>1 DEF IInv, DownInv
<1>8. UpInv'
  BY <1>1, <1>2 DEF IInv, UpInv, UpRecv, UpBody, UpRest, UpClient, Cut, Serving
<1>9. LiveInv'
  BY <1>1, <1>2 DEF IInv, LiveInv, Cut, Serving, historyVars
<1>10. TruthInv'
  <2>1. Complete(Phase', DownLen', s2c') => s2c'[DownLen'] = s2c[DownLen]
    BY <1>1, <1>6 DEF Cut
  <2> QED BY <1>2, <1>6, <2>1 DEF IInv, TruthInv, OutcomeTruthful, Tells, historyVars
<1> QED BY <1>7, <1>8, <1>9, <1>10

\* The holder of the mutex makes the last call issued, which is the live one as
\* long as the line is intact or something of an answer is there to be read.
LEMMA Holder ==
    ASSUME IInv, NEW t \in Threads, pc[t] \in Busy
    PROVE  /\ mutex = t /\ Phase = pc[t]
           /\ issued \in Calls /\ call[t].id = issued /\ outcome[issued] = "none"
           /\ answered < issued
           /\ Intact \/ DownLen # 0 => Live = issued
<1>1. mutex = t /\ Phase = pc[t]
  BY ThreadsAssumption DEF IInv, MutexInv, Phase
<1>2. issued \in Calls /\ call[t].id = issued /\ outcome[issued] = "none"
  BY DEF IInv, NumberInv
<1>3. answered \in Nat /\ issued \in Nat /\ answered <= issued /\ outcome \in [Calls -> Outcomes]
  BY MaxCallsAssumption DEF IInv, TypeOK, NumberInv
<1>4. answered # issued
  BY <1>2, <1>3 DEF IInv, NumberInv
<1>5. ASSUME Intact \/ DownLen # 0, Live # issued PROVE FALSE
  <2>1. issued - 1 \in Calls /\ issued - 1 < issued /\ ~(issued - 1 <= answered)
    BY <1>2, <1>3, <1>4, <1>5, MaxCallsAssumption DEF Live, Calls
  <2>2. outcome[issued - 1] \notin {"none", "accepted", "rejected"}
    BY <2>1 DEF IInv, NumberInv
  <2>3. outcome[issued - 1] = "lost"
    BY <1>3, <2>1, <2>2 DEF Outcomes
  <2> QED BY <1>5, <2>1, <2>3 DEF IInv, LostInv
<1> QED BY <1>1, <1>2, <1>3, <1>4, <1>5

\* What a step of the server thread or of the network leaves alone.
LEMMA ClientUntouched ==
    ASSUME IInv, UNCHANGED <<clientVars, outcome, answered>>,
           csock = "closed" => csock' = "closed"
    PROVE  MutexInv' /\ NumberInv' /\ Phase' = Phase /\ Live' = Live
<1>1. MutexInv'
  BY DEF IInv, MutexInv, clientVars
<1>2. NumberInv'
  BY DEF IInv, NumberInv, clientVars
<1> QED BY <1>1, <1>2 DEF Phase, Live, clientVars

LEMMA LockKeeps ==
    ASSUME IInv, TypeOK', NEW t \in Threads, Lock(t)
    PROVE  IInv'
<1> USE DEF Lock, serverVars, netVars, historyVars
<1>1. /\ pc[t] = "idle" /\ mutex = NoThread /\ mutex' = t
      /\ pc' = [pc EXCEPT ![t] = "packet"] /\ issued' = issued + 1 /\ issued < MaxCalls
  OBVIOUS
<1>2. PICK c \in Codes, n \in Sizes :
        call' = [call EXCEPT ![t] =
                  [id |-> issued + 1, code |-> c, size |-> IF CarriesBody(c) THEN n ELSE 0]]
  OBVIOUS
<1>3. /\ pc \in [Threads -> ClientPC] /\ call \in [Threads -> CallRecord]
      /\ issued \in Nat /\ answered \in Nat /\ MaxCalls \in Nat
      /\ outcome \in [Calls -> Outcomes] /\ status \in [Calls -> Statuses]
  BY MaxCallsAssumption DEF IInv, TypeOK
<1>4. /\ Phase = "idle" /\ Phase' = "packet"
      /\ UpLen' = UpLen /\ DownLen' = DownLen /\ Live' = Live /\ (Intact' <=> Intact)
      /\ call'[mutex'].id = issued + 1 /\ call'[mutex'].code = c
      /\ call'[mutex'].size = IF CarriesBody(c) THEN n ELSE 0
  BY <1>1, <1>2, <1>3, ThreadsAssumption DEF Phase, UpLen, DownLen, Live, Intact
<1>5. issued + 1 \in Calls /\ \A i \in Calls : i < issued + 1 => i <= issued
  BY <1>1, <1>3 DEF Calls
<1>6. MutexInv'
  <2>1. \A u \in Threads : u # t => pc[u] \notin Busy /\ pc'[u] = pc[u]
    BY <1>1, <1>3, ThreadsAssumption DEF IInv, MutexInv
  <2>2. pc'[t] = "packet"
    BY <1>1, <1>3
  <2> QED BY <1>1, <2>1, <2>2 DEF IInv, MutexInv
<1>7. NumberInv'
  <2>1. \A i \in Calls : i <= issued => outcome[i] # "none"
    BY <1>1 DEF IInv, NumberInv
  <2>2. \A u \in Threads : pc'[u] \in Busy => u = t
    BY <1>1, <1>6 DEF MutexInv
  <2>3. \A i \in Calls : i > issued + 1 => i > issued
    BY <1>3 DEF Calls
  <2>4. outcome[issued + 1] = "none"
    BY <1>3, <1>5 DEF IInv, NumberInv
  <2>5. answered <= issued + 1
    BY <1>3 DEF IInv, NumberInv
  <2> QED BY <1>1, <1>4, <1>5, <2>1, <2>2, <2>3, <2>4, <2>5, ThreadsAssumption DEF IInv, NumberInv
<1>8. LostInv' /\ SockInv'
  BY <1>4 DEF IInv, LostInv, SockInv
<1>9. DownInv'
  BY <1>4 DEF IInv, DownInv, Framed, Complete, ResultSent, Reading, FirstAnswer
<1>10. UpInv'
  BY <1>4 DEF IInv, UpInv, UpRecv, UpBody, UpRest, UpClient, FirstAnswer
<1>11. LiveInv'
  <2>1. Intact => Live = issued + 1
    <3>1. SUFFICES ASSUME Intact PROVE answered = issued
      BY DEF Live
    <3>2. CASE issued = 0
      BY <1>3, <3>2 DEF IInv, NumberInv
    <3>3. CASE issued # 0
      <4>1. issued \in Calls
        BY <1>1, <1>3, <3>3 DEF Calls
      <4>2. outcome[issued] # "none"
        BY <1>1, <1>3, <4>1 DEF IInv, NumberInv
      <4>3. outcome[issued] # "lost"
        BY <3>1, <4>1 DEF IInv, LostInv
      <4>4. issued <= answered
        BY <1>3, <4>1, <4>2, <4>3 DEF IInv, NumberInv, Outcomes
      <4> QED BY <1>3, <4>4 DEF IInv, NumberInv
    <3> QED BY <3>2, <3>3
  <2>2. status[issued + 1] = "none"
    BY <1>3, <1>5 DEF IInv, LiveInv
  <2>3. Live \in Nat
    BY <1>3 DEF Live
  <2>4. \A i \in Calls : i <= issued => i <= issued + 1
    BY <1>3 DEF Calls
  <2>5. Live <= issued => Live <= issued + 1
    BY <1>3, <2>3
  <2> QED BY <1>1, <1>4, <2>1, <2>2, <2>4, <2>5 DEF IInv, LiveInv
<1>12. TruthInv'
  BY <1>4 DEF IInv, DownInv, TruthInv, OutcomeTruthful, Tells, Complete, Framed, Reading
<1> QED BY <1>6, <1>7, <1>8, <1>9, <1>10, <1>11, <1>12 DEF IInv

\* The client sends its packet or its body.
LEMMA SendKeeps ==
    ASSUME IInv, TypeOK', NEW t \in Threads, SendPacket(t) \/ SendBody(t)
    PROVE  IInv'
<1> USE DEF serverVars, historyVars
<1>1. /\ pc[t] \in {"packet", "body"} /\ pc[t] \in Busy
      /\ pc' = [pc EXCEPT ![t] = IF pc[t] = "packet" /\ call[t].size # 0
                                 THEN "body" ELSE FirstAnswer(call[t].code)]
      /\ UNCHANGED <<mutex, call, issued, serverVars, historyVars>>
  BY DEF SendPacket, SendBody, Busy
<1>2. PICK item \in {RequestPacket, BytesItem(call[mutex].id, call[mutex].size)} :
        /\ ClientPut(item)
        /\ item = IF pc[t] = "packet" THEN RequestPacket
                                      ELSE BytesItem(call[mutex].id, call[mutex].size)
  BY <1>1, Holder DEF SendPacket, SendBody, RequestPacket
<1>3. /\ pc \in [Threads -> ClientPC] /\ call[t] \in CallRecord /\ answered \in Nat
      /\ issued \in Nat
  BY DEF IInv, TypeOK
<1>4. /\ call[t].id \in 0 .. MaxCalls /\ call[t].code \in Codes /\ call[t].code \in Nat
      /\ call[t].size \in Nat
  BY <1>3, CodesAssumption DEF CallRecord
<1>5. mutex = t /\ Phase = pc[t] /\ call[t].id = issued /\ issued \in Calls
      /\ outcome[issued] = "none" /\ (Intact => Live = issued)
  BY <1>1, Holder
<1>6. item \in Item
  BY <1>2, <1>4, <1>5, ItemTypes, ConstantTypes DEF RequestPacket
<1>7. /\ csock = "open" /\ s2c' = s2c /\ DownLen' = DownLen /\ ssock' = ssock
      /\ \/ /\ Intact /\ Intact'
            /\ UpLen' = UpLen + 1
            /\ c2s'[UpLen + 1] = item
            /\ \A k \in 1 .. UpLen : c2s'[k] = c2s[k]
         \/ ~Intact /\ ~Intact' /\ ssock = "closed" /\ c2s' = c2s /\ UpLen' = UpLen
  BY <1>2, <1>6, ClientPutFacts DEF IInv, Intact
<1>8. /\ Phase' = pc'[t] /\ Live' = Live /\ UpLen \in Nat /\ DownLen = 0
      /\ Phase' = IF pc[t] = "packet" /\ call[t].size # 0
                  THEN "body" ELSE FirstAnswer(call[t].code)
  BY <1>1, <1>3, <1>5, LengthTypes, ThreadsAssumption
     DEF Phase, Live, IInv, DownInv, Framed, Reading
<1>9. Phase' \in {"body", "result", "ack"} /\ pc'[t] \in Busy
  BY <1>8 DEF FirstAnswer, Busy
<1>10. MutexInv'
  BY <1>1, <1>3, <1>5, <1>7, <1>8, <1>9 DEF IInv, MutexInv, Busy
<1>11. NumberInv'
  <2>1. \A u \in Threads : u # t => pc'[u] = pc[u]
    BY <1>1, <1>3
  <2> QED BY <1>1, <1>5, <1>9, <2>1, ThreadsAssumption DEF IInv, NumberInv
<1>12. LostInv'
  BY <1>1, <1>7, <1>8 DEF IInv, LostInv
<1>13. csock' \in {"open", "reset", "broken"} /\ SockInv'
  BY <1>1, <1>2, <1>7 DEF IInv, SockInv, ClientPut, Intact
\* where the server thread is
<1>14. Intact => /\ pc[t] = "packet" => UpLen = 0 /\ spc \in Resting
                 /\ pc[t] = "body" => \/ spc \in Resting /\ UpLen = 1 /\ c2s[1] = RequestPacket
                                      \/ spc = "body" /\ UpLen = 0 /\ req = RequestPacket
  BY <1>5 DEF IInv, UpInv, UpClient
<1>15. DownInv'
  <2>1. Framed(Phase', DownLen', s2c') /\ ~Complete(Phase', DownLen', s2c')
    BY <1>7, <1>8, <1>9 DEF Framed, Complete, Reading
  <2>2. Intact => spc \notin {"eval", "payload", "tail", "ack"}
    BY <1>1, <1>14 DEF Resting
  <2>3. spc = "eval" => DownLen = 0
    BY <1>8
  <2> QED BY <1>1, <1>7, <1>8, <2>1, <2>2 DEF IInv, DownInv
<1>16. UpInv'
  <2>1. RequestPacket' = RequestPacket
    BY <1>1, <1>5 DEF RequestPacket
  <2>2. /\ RequestPacket.kind = "packet" /\ RequestPacket.code = call[t].code
        /\ RequestPacket.size = call[t].size /\ RequestPacket.id = issued
    BY <1>5 DEF RequestPacket, PacketItem
  <2>3. call[t].size # 0 => CarriesBody(call[t].code)
    BY <1>1, <1>5 DEF IInv, UpInv, UpClient
  <2>4. pc[t] = "body" => call[t].size # 0
    BY <1>1, <1>5 DEF IInv, UpInv, UpClient
  <2>5. /\ Intact /\ pc[t] = "packet" =>
              UpLen' = 1 /\ c2s'[1] = RequestPacket /\ spc \in Resting
        /\ Intact /\ pc[t] = "body" =>
              \/ spc \in Resting /\ UpLen' = 2 /\ c2s'[1] = RequestPacket
                 /\ c2s'[2] = BytesItem(Live, call[t].size)
              \/ spc = "body" /\ UpLen' = 1 /\ req = RequestPacket
                 /\ c2s'[1] = BytesItem(Live, call[t].size)
    BY <1>2, <1>5, <1>7, <1>8, <1>14
  <2>6. UpRecv'
    <3>1. CASE ~Intact
      BY <1>1, <1>7, <1>8, <3>1 DEF IInv, UpInv, UpRecv
    <3>2. CASE Intact /\ pc[t] = "packet"
      BY <1>1, <1>4, <1>7, <1>8, <2>2, <2>3, <2>5, <3>2 DEF UpRecv
    <3>3. CASE Intact /\ pc[t] = "body"
      BY <1>1, <1>4, <1>7, <1>8, <2>2, <2>3, <2>4, <2>5, <3>3 DEF UpRecv
    <3> QED BY <1>1, <3>1, <3>2, <3>3
  <2>7. UpBody'
    <3>1. CASE ~Intact
      BY <1>1, <1>7, <1>8, <3>1 DEF IInv, UpInv, UpBody
    <3>2. CASE Intact
      BY <1>1, <1>5, <1>7, <1>8, <2>2, <2>5, <3>2 DEF UpBody, Resting
    <3> QED BY <3>1, <3>2
  <2>8. UpRest'
    BY <1>1, <1>7, <1>8, <2>5 DEF IInv, UpInv, UpRest, Resting, Serving
  <2>9. UpClient'
    <3>1. Phase' = "body" => Phase' # "idle" /\ pc[t] = "packet" /\ call[t].size # 0
      BY <1>1, <1>8 DEF FirstAnswer
    <3> QED BY <1>1, <1>5, <1>7, <1>9, <2>1, <2>3, <2>5, <3>1 DEF UpClient
  <2> QED BY <2>6, <2>7, <2>8, <2>9 DEF UpInv
<1>17. LiveInv'
  <2>1. item.id = issued
    BY <1>2, <1>5 DEF RequestPacket, PacketItem, BytesItem
  <2>2. Intact => status[Live] = "none"
    BY <1>1, <1>5 DEF IInv, LiveInv
  <2>3. \A k \in 1 .. UpLen' : c2s'[k].id = Live
    BY <1>5, <1>7, <1>8, <2>1 DEF IInv, LiveInv
  <2> QED BY <1>1, <1>3, <1>5, <1>7, <1>8, <1>14, <2>2, <2>3 DEF IInv, LiveInv
<1>18. TruthInv'
  <2>1. ~Complete(Phase', DownLen', s2c')
    BY <1>7, <1>8, <1>9 DEF Complete
  <2> QED BY <1>1, <1>8, <2>1 DEF IInv, TruthInv, OutcomeTruthful, Tells
<1> QED BY <1>10, <1>11, <1>12, <1>13, <1>15, <1>16, <1>17, <1>18 DEF IInv

\* Reading one item leaves the rest of the same answer.
LEMMA FramedTail ==
    ASSUME NEW p, NEW q, NEW n \in Nat, NEW m \in Nat, NEW s, NEW r,
           Framed(p, n, s), m = n - 1, n # 0,
           \A k \in 1 .. m : r[k] = s[k + 1],
           \/ /\ p = "result" /\ s[1].code # kControlCodeReject
              /\ q = IF s[1].size # 0 THEN "payload" ELSE "ack"
           \/ p = "payload" /\ q = "ack"
    PROVE  /\ Framed(q, m, r)
           /\ Complete(q, m, r) => Complete(p, n, s) /\ m # 0
           /\ ResultSent(p, n, s) => ResultSent(q, m, r)
<1>1. /\ m >= 1 => r[1] = s[2]
      /\ m >= 2 => r[2] = s[3]
  OBVIOUS
<1>2. Framed(q, m, r)
  BY <1>1 DEF Framed, IsAck, Reading
<1>3. Complete(q, m, r) => Complete(p, n, s) /\ m # 0
  BY <1>1 DEF Framed, Complete, IsAck
<1>4. ResultSent(p, n, s) => ResultSent(q, m, r)
  BY <1>1 DEF Framed, ResultSent, IsAck
<1> QED BY <1>2, <1>3, <1>4

\* The client reads a result or a payload and goes on.
LEMMA AdvanceKeeps ==
    ASSUME IInv, TypeOK', NEW t \in Threads,
           RecvPayload(t) \/ (RecvResult(t) /\ Head(s2c).code # kControlCodeReject)
    PROVE  IInv'
<1> USE DEF serverVars, historyVars
<1>1. /\ pc[t] \in {"result", "payload"} /\ pc[t] \in Busy /\ ClientTake
      /\ UNCHANGED <<mutex, call, issued, serverVars, historyVars>>
      /\ pc' = [pc EXCEPT ![t] = IF pc[t] = "result" /\ Head(s2c).size # 0 THEN "payload" ELSE "ack"]
      /\ pc[t] = "result" => Head(s2c).code # kControlCodeReject
  BY DEF RecvPayload, RecvResult, Busy
<1>2. pc \in [Threads -> ClientPC] /\ UpLen \in Nat /\ DownLen' \in Nat
  BY LengthTypes DEF IInv, TypeOK, UpLen, DownLen
<1>3. /\ mutex = t /\ Phase = pc[t] /\ call[t].id = issued /\ issued \in Calls
      /\ outcome[issued] = "none"
  BY <1>1, Holder
<1>4. /\ DownLen \in Nat /\ DownLen # 0 /\ DownLen' = DownLen - 1
      /\ Head(s2c) = s2c[1]
      /\ \A k \in 1 .. DownLen' : s2c'[k] = s2c[k + 1]
      /\ c2s' = c2s /\ UpLen' = UpLen /\ csock' = csock /\ ssock' = ssock
  BY <1>1, ClientTakeFacts DEF IInv
<1>5. /\ Phase' = pc'[t] /\ Live' = Live /\ (Intact' <=> Intact)
      /\ Phase' = IF Phase = "result" /\ s2c[1].size # 0 THEN "payload" ELSE "ack"
  BY <1>1, <1>2, <1>3, <1>4, ThreadsAssumption DEF Phase, Live, Intact
<1>6. Phase' \in {"payload", "ack"} /\ pc'[t] \in Busy
  BY <1>5 DEF Busy
<1>7. UpLen = 0 /\ spc \notin {"body", "eval"}
  BY <1>4 DEF IInv, UpInv, UpRest, DownInv
<1>8. /\ Framed(Phase', DownLen', s2c')
      /\ Complete(Phase', DownLen', s2c') => Complete(Phase, DownLen, s2c) /\ DownLen' # 0
      /\ ResultSent(Phase, DownLen, s2c) => ResultSent(Phase', DownLen', s2c')
  <2>1. Framed(Phase, DownLen, s2c)
    BY DEF IInv, DownInv
  <2>2. \/ /\ Phase = "result" /\ s2c[1].code # kControlCodeReject
           /\ Phase' = IF s2c[1].size # 0 THEN "payload" ELSE "ack"
        \/ Phase = "payload" /\ Phase' = "ack"
    BY <1>1, <1>3, <1>4, <1>5
  <2> QED BY <1>2, <1>4, <2>1, <2>2, FramedTail
<1>9. MutexInv'
  BY <1>1, <1>2, <1>3, <1>4, <1>6 DEF IInv, MutexInv, Busy
<1>10. NumberInv'
  <2>1. \A u \in Threads : u # t => pc'[u] = pc[u]
    BY <1>1, <1>2
  <2> QED BY <1>1, <1>3, <1>6, <2>1, ThreadsAssumption DEF IInv, NumberInv
<1>11. LostInv' /\ SockInv'
  BY <1>1, <1>4, <1>5 DEF IInv, LostInv, SockInv
<1>12. DownInv'
  <2>1. Intact /\ spc = "payload" => Phase' = "payload" /\ DownLen' = 0
    BY <1>4, <1>5 DEF IInv, DownInv
  <2>2. Intact /\ spc \in {"tail", "ack"} => ResultSent(Phase', DownLen', s2c')
    BY <1>4, <1>8 DEF IInv, DownInv
  <2>3. Complete(Phase', DownLen', s2c') => spc \in Resting
    BY <1>8 DEF IInv, DownInv
  <2> QED BY <1>1, <1>4, <1>5, <1>7, <1>8, <2>1, <2>2, <2>3 DEF IInv, DownInv
<1>13. UpInv'
  <2>1. UpRest'
    BY <1>1, <1>4, <1>7 DEF UpRest
  <2> QED BY <1>1, <1>4, <1>6, <1>7, <2>1 DEF UpInv, UpRecv, UpBody, UpClient
<1>14. LiveInv'
  BY <1>1, <1>2, <1>4, <1>5, <1>6, <1>7 DEF IInv, LiveInv
<1>15. TruthInv'
  <2>1. Complete(Phase', DownLen', s2c') => s2c'[DownLen'] = s2c[DownLen]
    BY <1>2, <1>4, <1>8
  <2> QED BY <1>1, <1>5, <1>8, <2>1 DEF IInv, TruthInv, OutcomeTruthful, Tells
<1> QED BY <1>9, <1>10, <1>11, <1>12, <1>13, <1>14, <1>15 DEF IInv

\* The client reads the acknowledgement, or a rejection instead of a result.
LEMMA AnswerKeeps ==
    ASSUME IInv, TypeOK', NEW t \in Threads,
           RecvAck(t) \/ (RecvResult(t) /\ Head(s2c).code = kControlCodeReject)
    PROVE  IInv'
<1> DEFINE o == IF Head(s2c).code = kControlCodeReject THEN "rejected" ELSE "accepted"
<1> USE DEF serverVars, historyVars
<1>1. /\ pc[t] \in {"result", "ack"} /\ pc[t] \in Busy /\ ClientTake /\ Finish(t, o)
      /\ UNCHANGED serverVars
      /\ pc[t] = "result" => Head(s2c).code = kControlCodeReject
  BY DEF RecvAck, RecvResult, Busy
<1>2. /\ mutex' = NoThread /\ pc' = [pc EXCEPT ![t] = "idle"]
      /\ outcome' = [outcome EXCEPT ![call[t].id] = o]
      /\ answered' = answered + 1
      /\ UNCHANGED <<call, issued, status>>
  BY <1>1 DEF Finish
<1>3. /\ pc \in [Threads -> ClientPC] /\ outcome \in [Calls -> Outcomes]
      /\ answered \in Nat /\ issued \in Nat /\ UpLen \in Nat
  BY LengthTypes DEF IInv, TypeOK
<1>4. /\ DownLen \in Nat /\ DownLen # 0 /\ DownLen' = DownLen - 1
      /\ Head(s2c) = s2c[1]
      /\ c2s' = c2s /\ UpLen' = UpLen /\ csock' = csock /\ ssock' = ssock
  BY <1>1, ClientTakeFacts DEF IInv
<1>5. /\ mutex = t /\ Phase = pc[t] /\ call[t].id = issued /\ issued \in Calls
      /\ outcome[issued] = "none" /\ issued = answered + 1 /\ Live = issued
  BY <1>1, <1>4, Holder DEF Live
<1>6. DownLen = 1 /\ Complete(Phase, DownLen, s2c) /\ DownLen' = 0
  <2>1. Framed(Phase, DownLen, s2c)
    BY DEF IInv, DownInv
  <2> QED BY <1>1, <1>4, <1>5, <2>1 DEF Framed, Complete
<1>7. spc \in Resting /\ UpLen = 0 /\ UpLen' = 0
  BY <1>4, <1>6 DEF IInv, DownInv
<1>8. Phase' = "idle" /\ Live' = issued + 1 /\ (Intact' <=> Intact)
  BY <1>2, <1>3, <1>4, <1>5 DEF Phase, Live, Intact
<1>9. MutexInv'
  <2>1. \A u \in Threads : u # t => pc[u] \notin Busy /\ pc'[u] = pc[u]
    BY <1>2, <1>3, <1>5 DEF IInv, MutexInv
  <2>2. pc'[t] = "idle"
    BY <1>2, <1>3
  <2> QED BY <1>2, <1>4, <2>1, <2>2, ThreadsAssumption DEF IInv, MutexInv, Busy
<1>10. NumberInv'
  <2>1. \A i \in Calls : i # issued => outcome'[i] = outcome[i]
    BY <1>2, <1>3, <1>5
  <2>2. outcome'[issued] = o /\ o \in {"accepted", "rejected"}
    BY <1>2, <1>3, <1>5
  <2>3. \A i \in Calls : i <= answered + 1 <=> (i <= answered \/ i = issued)
    BY <1>3, <1>5 DEF Calls
  <2>4. \A u \in Threads : pc'[u] \notin Busy
    BY <1>2, <1>9, ThreadsAssumption DEF MutexInv
  <2>5. \A i \in Calls : i <= issued <=> (i < issued \/ i = issued)
    BY <1>3 DEF Calls
  <2>6. ~(issued > issued) /\ ~(issued < issued)
    BY <1>3
  <2> HIDE DEF o
  <2>7. answered' <= issued'
    BY <1>2, <1>3, <1>5
  <2>8. \A i \in Calls : i <= answered' <=> outcome'[i] \in {"accepted", "rejected"}
    BY <1>2, <2>1, <2>2, <2>3 DEF IInv, NumberInv
  <2>9. /\ \A i \in Calls : i > issued' => outcome'[i] = "none"
        /\ \A i \in Calls : i < issued' => outcome'[i] # "none"
        /\ \A i \in Calls : i <= issued' => outcome'[i] # "none"
    BY <1>2, <2>1, <2>2, <2>5, <2>6 DEF IInv, NumberInv
  <2> QED BY <2>4, <2>7, <2>8, <2>9 DEF NumberInv
<1>11. LostInv'
  <2>1. \A i \in Calls : outcome'[i] = "lost" => outcome[i] = "lost"
    BY <1>2, <1>3, <1>5
  <2> QED BY <1>4, <1>6, <1>8, <2>1 DEF IInv, LostInv
<1>12. SockInv'
  BY <1>1, <1>4 DEF IInv, SockInv
<1>13. DownInv'
  BY <1>1, <1>6, <1>7, <1>8 DEF DownInv, Framed, Complete, Reading, Resting
<1>14. UpInv'
  BY <1>1, <1>4, <1>6, <1>7, <1>8 DEF UpInv, UpRecv, UpBody, UpRest, UpClient, Resting, Serving
<1>15. LiveInv'
  <2>1. \A i \in Calls : status[i] # "none" => i <= issued + 1 /\ i <= issued
    BY <1>3, <1>5 DEF IInv, LiveInv, Calls
  <2>2. spc \notin Serving
    BY <1>7 DEF Resting, Serving
  <2> QED BY <1>1, <1>2, <1>6, <1>7, <1>8, <2>1, <2>2 DEF LiveInv
<1>16. TruthInv'
  <2>1. ~Complete(Phase', DownLen', s2c')
    BY <1>8 DEF Complete
  <2>2. Tells(s2c[1].code)
    BY <1>6 DEF IInv, TruthInv
  <2>3. s2c[1].code \in Verdicts
    <3>1. Framed(Phase, DownLen, s2c)
      BY DEF IInv, DownInv
    <3> QED BY <1>1, <1>4, <1>5, <1>6, <3>1 DEF Framed, IsAck, Verdicts
  <2>4. /\ o = "accepted" => status[issued] \in {"ran", "ignored"}
        /\ o = "rejected" => status[issued] = "refused"
    BY <1>4, <1>5, <2>2, <2>3 DEF Tells, Verdicts
  <2>5. OutcomeTruthful'
    <3> HIDE DEF o
    <3>1. \A i \in Calls : i # issued => outcome'[i] = outcome[i]
      BY <1>2, <1>3, <1>5
    <3>2. outcome'[issued] = o
      BY <1>2, <1>3, <1>5
    <3> QED BY <1>2, <2>4, <3>1, <3>2 DEF IInv, TruthInv, OutcomeTruthful
  <2>6. spc' # "ack"
    BY <1>1, <1>7 DEF Resting
  <2> QED BY <2>1, <2>5, <2>6 DEF TruthInv
<1> QED BY <1>9, <1>10, <1>11, <1>12, <1>13, <1>14, <1>15, <1>16 DEF IInv

\* A client thread gives its call up.
LEMMA ErrorKeeps ==
    ASSUME IInv, TypeOK', NEW t \in Threads, ClientError(t)
    PROVE  IInv'
<1> USE DEF serverVars
<1>1. /\ pc[t] \in Busy
      /\ \/ pc[t] \in {"packet", "body"} /\ csock \in {"reset", "closed"}
         \/ pc[t] \in {"result", "payload", "ack"} /\ ClientAtEnd
      /\ csock' = Reported(csock) /\ Finish(t, "lost")
      /\ UNCHANGED <<serverVars, c2s, s2c, ssock>>
  BY DEF ClientError, Busy
<1>2. /\ mutex' = NoThread /\ pc' = [pc EXCEPT ![t] = "idle"]
      /\ outcome' = [outcome EXCEPT ![call[t].id] = "lost"]
      /\ UNCHANGED <<call, issued, status, answered>>
  BY <1>1 DEF Finish
<1>3. /\ pc \in [Threads -> ClientPC] /\ outcome \in [Calls -> Outcomes]
      /\ answered \in Nat /\ issued \in Nat /\ UpLen \in Nat
  BY LengthTypes DEF IInv, TypeOK
<1>4. /\ mutex = t /\ Phase = pc[t] /\ call[t].id = issued /\ issued \in Calls
      /\ outcome[issued] = "none" /\ answered < issued
  BY <1>1, Holder
<1>5. DownLen = 0 /\ DownLen' = DownLen /\ UpLen' = UpLen
  <2>1. Framed(Phase, DownLen, s2c)
    BY DEF IInv, DownInv
  <2>2. pc[t] \in {"packet", "body"} => DownLen = 0
    BY <1>4, <2>1 DEF Framed, Reading
  <2>3. ClientAtEnd => DownLen = 0
    BY LengthTypes DEF ClientAtEnd, IInv
  <2> QED BY <1>1, <2>2, <2>3 DEF UpLen, DownLen
<1>6. Phase' = "idle" /\ Live' = Live
  BY <1>2 DEF Phase, Live
<1>7. ~Intact /\ ~Intact' /\ SockInv'
  <2>1. csock # "open" \/ ssock = "closed"
    BY <1>1 DEF ClientAtEnd
  <2> QED BY <1>1, <2>1 DEF Intact, Reported, IInv, SockInv
<1>8. MutexInv'
  <2>1. \A u \in Threads : u # t => pc[u] \notin Busy /\ pc'[u] = pc[u]
    BY <1>2, <1>3, <1>4 DEF IInv, MutexInv
  <2>2. pc'[t] = "idle"
    BY <1>2, <1>3
  <2>3. csock = "closed" => csock' = "closed"
    BY <1>1 DEF Reported
  <2> QED BY <1>2, <2>1, <2>2, <2>3, ThreadsAssumption DEF IInv, MutexInv, Busy
<1>9. NumberInv'
  <2>1. \A i \in Calls : i # issued => outcome'[i] = outcome[i]
    BY <1>2, <1>3, <1>4
  <2>2. outcome'[issued] = "lost"
    BY <1>2, <1>3, <1>4
  <2>3. \A u \in Threads : pc'[u] \notin Busy
    BY <1>2, <1>8, ThreadsAssumption DEF MutexInv
  <2>4. \A i \in Calls : i <= issued <=> (i < issued \/ i = issued)
    BY <1>3 DEF Calls
  <2>5. ~(issued > issued) /\ ~(issued < issued) /\ ~(issued <= answered)
    BY <1>3, <1>4
  <2>6. \A i \in Calls : i <= answered' <=> outcome'[i] \in {"accepted", "rejected"}
    BY <1>2, <2>1, <2>2, <2>5 DEF IInv, NumberInv
  <2>7. /\ \A i \in Calls : i > issued' => outcome'[i] = "none"
        /\ \A i \in Calls : i < issued' => outcome'[i] # "none"
        /\ \A i \in Calls : i <= issued' => outcome'[i] # "none"
    BY <1>2, <2>1, <2>2, <2>4, <2>5 DEF IInv, NumberInv
  <2> QED BY <1>2, <2>3, <2>6, <2>7 DEF IInv, NumberInv
<1>10. LostInv'
  BY <1>5, <1>7 DEF LostInv
<1>11. DownInv'
  BY <1>1, <1>5, <1>6, <1>7 DEF IInv, DownInv, Framed, Complete, Reading
<1>12. UpInv'
  BY <1>1, <1>5, <1>6, <1>7 DEF IInv, UpInv, UpRecv, UpBody, UpRest, UpClient
<1>13. LiveInv'
  BY <1>1, <1>2, <1>5, <1>6 DEF IInv, LiveInv
<1>14. TruthInv'
  <2>1. OutcomeTruthful'
    <3>1. \A i \in Calls : i # issued => outcome'[i] = outcome[i]
      BY <1>2, <1>3, <1>4
    <3>2. outcome'[issued] = "lost"
      BY <1>2, <1>3, <1>4
    <3> QED BY <1>2, <3>1, <3>2 DEF IInv, TruthInv, OutcomeTruthful
  <2> QED BY <1>1, <1>2, <1>6, <2>1 DEF IInv, TruthInv, Complete, Tells
<1> QED BY <1>7, <1>8, <1>9, <1>10, <1>11, <1>12, <1>13, <1>14 DEF IInv

\* A process ends, an end is closed, or the network drops the connection.
LEMMA CutKeeps ==
    ASSUME IInv, TypeOK',
           \/ Reset \/ KillClient \/ KillServer \/ Release \/ ServerPipe
           \/ \E t \in Threads : Close(t) \/ ClientPipe(t)
    PROVE  IInv'
<1> USE DEF clientVars, serverVars, historyVars
<1>1. /\ Cut
      /\ UNCHANGED <<mutex, call, issued, req, rsize, verdict, historyVars>>
      /\ pc' = pc \/ (pc' = [t \in Threads |-> "killed"] /\ s2c' = <<>> /\ csock' = "closed")
      /\ spc' = spc \/ (spc' \in {"released", "killed"} /\ ssock' = "closed")
      /\ ~Intact' /\ SockInv'
      /\ csock = "closed" => csock' = "closed"
  <2>1. CASE Reset
    BY <2>1, CutFacts DEF Reset, IInv, SockInv, Intact
  <2>2. CASE KillClient \/ \E t \in Threads : ClientPipe(t)
    <3>1. ClientDies
      BY <2>2 DEF KillClient, ClientPipe
    <3> QED BY <3>1, CutFacts DEF ClientDies, CloseClientEnd, IInv, SockInv, Intact
  <2>3. CASE KillServer \/ ServerPipe
    <3>1. ServerDies
      BY <2>3 DEF KillServer, ServerPipe
    <3> QED BY <3>1, CutFacts DEF ServerDies, CloseServerEnd, IInv, SockInv, Intact
  <2>4. CASE Release
    BY <2>4, CutFacts DEF Release, CloseServerEnd, IInv, SockInv, Intact
  <2>5. CASE \E t \in Threads : Close(t)
    <3>1. CloseClientEnd /\ UNCHANGED <<clientVars, serverVars, historyVars>>
      BY <2>5 DEF Close
    <3> QED BY <3>1, CutFacts DEF CloseClientEnd, IInv, SockInv, Intact
  <2> QED BY <2>1, <2>2, <2>3, <2>4, <2>5
<1>2. DownInv' /\ UpInv' /\ LiveInv' /\ TruthInv'
  <2>1. pc' = pc \/ (pc' = [t \in Threads |-> "killed"] /\ s2c' = <<>>)
    BY <1>1
  <2>2. spc' = spc \/ spc' \in {"released", "killed"}
    BY <1>1
  <2> QED BY <1>1, <2>1, <2>2, CutKeepsStreams
<1>3. MutexInv'
  BY <1>1 DEF IInv, MutexInv, Busy
<1>4. NumberInv'
  BY <1>1 DEF IInv, NumberInv, Busy
<1>5. LostInv'
  <2>1. DownLen = 0 => DownLen' = 0
    BY <1>1, LengthTypes DEF Cut, IInv, UpLen, DownLen, TypeOK
  <2> QED BY <1>1, <2>1 DEF IInv, LostInv
<1> QED BY <1>1, <1>2, <1>3, <1>4, <1>5 DEF IInv

\* Where the server thread serves, the live call has an entry in the history.
LEMMA ServedCall ==
    ASSUME IInv, spc \in Serving
    PROVE  /\ req.id = Live /\ Live \in Calls /\ Live <= issued
           /\ Live \in Nat /\ issued \in Nat
           /\ status \in [Calls -> Statuses]
BY DEF IInv, LiveInv, TypeOK, Live

\* The server thread receives a packet.
LEMMA RecvPacketKeeps ==
    ASSUME IInv, TypeOK', RecvPacket
    PROVE  IInv'
<1> USE DEF clientVars, historyVars
<1>1. /\ spc = "recv" /\ ServerTake /\ req' = Head(c2s)
      /\ spc' = IF CarriesBody(Head(c2s).code) /\ Head(c2s).size # 0 THEN "body" ELSE "eval"
      /\ UNCHANGED <<rsize, verdict, clientVars, historyVars>>
  BY DEF RecvPacket
<1>2. /\ UpLen \in Nat /\ UpLen # 0 /\ UpLen' = UpLen - 1
      /\ Head(c2s) = c2s[1]
      /\ \A k \in 1 .. UpLen' : c2s'[k] = c2s[k + 1]
      /\ s2c' = s2c /\ DownLen' = DownLen /\ csock' = csock /\ ssock' = ssock
  BY <1>1, ServerTakeFacts DEF IInv
<1>3. MutexInv' /\ NumberInv' /\ Phase' = Phase /\ Live' = Live /\ (Intact' <=> Intact)
  BY <1>1, <1>2, ClientUntouched DEF Intact
<1>4. /\ UpLen <= 2 /\ c2s[1].kind = "packet" /\ c2s[1].code \in Codes
      /\ c2s[1].size # 0 => CarriesBody(c2s[1].code)
      /\ UpLen = 2 => c2s[1].size # 0 /\ c2s[2] = BytesItem(Live, c2s[1].size)
      /\ Intact =>
            \/ Phase = "body" /\ UpLen = 1
            \/ Phase = FirstAnswer(c2s[1].code) /\ (c2s[1].size # 0 => UpLen = 2)
  BY <1>1, <1>2 DEF IInv, UpInv, UpRecv
<1>5. spc' = IF c2s[1].size # 0 THEN "body" ELSE "eval"
  BY <1>1, <1>2, <1>4
<1>6. c2s[1].id = Live /\ DownLen = 0 /\ status[Live] = "none" /\ Live \in Calls /\ Live <= issued
  <2>1. 1 \in 1 .. UpLen
    BY <1>2
  <2> QED BY <1>2, <2>1 DEF IInv, LiveInv, UpInv, UpRest
\* a client that has a body to send announced one
<1>7. Phase = "body" /\ Intact => c2s[1] = RequestPacket /\ c2s[1].size # 0 /\ UpLen = 1
  <2>1. Phase = "body" => call[mutex].size # 0
    BY DEF IInv, UpInv, UpClient
  <2>2. Phase = "body" /\ Intact => c2s[1] = RequestPacket /\ UpLen = 1
    BY <1>1, <1>2 DEF IInv, UpInv, UpClient
  <2> QED BY <2>1, <2>2 DEF RequestPacket, PacketItem
<1>8. ~Complete(Phase, DownLen, s2c) /\ Framed(Phase, DownLen, s2c)
  BY <1>2 DEF IInv, DownInv
<1>9. LostInv' /\ SockInv'
  BY <1>1, <1>2, <1>3, <1>5 DEF IInv, LostInv, SockInv
<1>10. DownInv'
  <2>1. spc' = "eval" /\ Intact => Phase = FirstAnswer(c2s[1].code)
    BY <1>4, <1>5, <1>7
  <2> QED BY <1>1, <1>2, <1>3, <1>5, <1>6, <1>8, <2>1 DEF DownInv
<1>11. UpInv'
  <2>1. UpBody'
    <3>1. spc' = "body" => UpLen' <= 1
      BY <1>2, <1>4
    <3>2. UpLen' = 1 => UpLen = 2 /\ c2s'[1] = c2s[2]
      BY <1>2
    <3>3. spc' = "body" /\ Intact =>
            \/ Phase = "body" /\ UpLen' = 0
            \/ Phase = FirstAnswer(c2s[1].code) /\ UpLen' # 0
      BY <1>2, <1>4, <1>5, <1>7
    <3> QED BY <1>1, <1>2, <1>3, <1>4, <1>6, <3>1, <3>2, <3>3 DEF UpBody
  <2>2. UpRest'
    BY <1>2, <1>4, <1>5, <1>6 DEF UpRest
  <2>3. UpClient'
    <3>1. RequestPacket' = RequestPacket
      BY <1>1 DEF RequestPacket
    <3>2. ~(Phase \in {"idle", "packet"} /\ Intact)
      BY <1>2 DEF IInv, UpInv, UpClient
    <3>3. Phase = "body" /\ Intact => spc' = "body" /\ UpLen' = 0 /\ req' = RequestPacket
      BY <1>1, <1>2, <1>5, <1>7
    <3>4. Phase' = "body" => call'[mutex'].size # 0
      BY <1>1, <1>3 DEF IInv, UpInv, UpClient
    <3>5. Phase' \in {"packet", "body"} /\ call'[mutex'].size # 0 => CarriesBody(call'[mutex'].code)
      BY <1>1, <1>3 DEF IInv, UpInv, UpClient
    <3> QED BY <1>3, <3>1, <3>2, <3>3, <3>4, <3>5 DEF UpClient
  <2> QED BY <1>5, <2>1, <2>2, <2>3 DEF UpInv, UpRecv
<1>12. LiveInv'
  <2>1. \A k \in 1 .. UpLen' : c2s'[k].id = Live
    BY <1>2 DEF IInv, LiveInv
  <2> QED BY <1>1, <1>2, <1>3, <1>6, <2>1 DEF IInv, LiveInv
<1>13. TruthInv'
  BY <1>1, <1>2, <1>3, <1>5, <1>8 DEF IInv, TruthInv, OutcomeTruthful
<1> QED BY <1>3, <1>9, <1>10, <1>11, <1>12, <1>13 DEF IInv

\* It receives the body.
LEMMA RecvBodyKeeps ==
    ASSUME IInv, TypeOK', RecvBody
    PROVE  IInv'
<1> USE DEF clientVars, historyVars
<1>1. /\ spc = "body" /\ ServerTake /\ spc' = "eval"
      /\ UNCHANGED <<req, rsize, verdict, clientVars, historyVars>>
  BY DEF RecvBody
<1>2. /\ UpLen \in Nat /\ UpLen # 0 /\ UpLen' = UpLen - 1
      /\ s2c' = s2c /\ DownLen' = DownLen /\ csock' = csock /\ ssock' = ssock
  BY <1>1, ServerTakeFacts DEF IInv
<1>3. MutexInv' /\ NumberInv' /\ Phase' = Phase /\ Live' = Live /\ (Intact' <=> Intact)
  BY <1>1, <1>2, ClientUntouched DEF Intact
<1>4. UpLen = 1 /\ UpLen' = 0 /\ (Intact => Phase = FirstAnswer(req.code)) /\ DownLen = 0
  BY <1>1, <1>2 DEF IInv, UpInv, UpBody, UpRest
<1>5. Framed(Phase, DownLen, s2c) /\ ~Complete(Phase, DownLen, s2c)
  BY <1>1, <1>2 DEF IInv, DownInv, Resting
<1>6. LostInv' /\ SockInv'
  BY <1>1, <1>2, <1>3 DEF IInv, LostInv, SockInv
<1>7. DownInv'
  BY <1>1, <1>2, <1>3, <1>4, <1>5 DEF DownInv
<1>8. UpInv'
  BY <1>1, <1>2, <1>3, <1>4 DEF IInv, UpInv, UpRecv, UpBody, UpRest, UpClient, Serving, Resting,
     FirstAnswer
<1>9. LiveInv'
  <2>1. {"body", "eval"} \subseteq Serving \ {"ack"}
    BY DEF Serving
  <2> QED BY <1>1, <1>2, <1>3, <1>4, <2>1 DEF IInv, LiveInv
<1>10. TruthInv'
  BY <1>1, <1>2, <1>3, <1>5 DEF IInv, TruthInv, OutcomeTruthful
<1> QED BY <1>3, <1>6, <1>7, <1>8, <1>9, <1>10 DEF IInv

\* eval is over: what was done with the live call is recorded.
LEMMA EvaluatedKeeps ==
    ASSUME IInv, TypeOK', NEW s, NEW ack, Evaluated(s, ack),
           spc \in {"eval", "tail"},
           \/ ack = kControlCodeReject /\ s = "refused"
           \/ ack = kControlCodeAccept /\ s \in {"ran", "ignored"},
           spc = "eval" => ~YieldsResult(req.code) \/ s # "ran"
    PROVE  IInv'
<1> USE DEF clientVars, netVars
<1>1. /\ status' = [status EXCEPT ![req.id] = s] /\ verdict' = ack /\ spc' = "ack"
      /\ UNCHANGED <<req, rsize, clientVars, netVars, outcome, answered>>
  BY DEF Evaluated
<1>2. /\ req.id = Live /\ Live \in Calls /\ Live <= issued
      /\ Live \in Nat /\ issued \in Nat /\ status \in [Calls -> Statuses]
  BY ServedCall DEF Serving
<1>3. /\ MutexInv' /\ NumberInv' /\ Phase' = Phase /\ Live' = Live /\ (Intact' <=> Intact)
      /\ UpLen' = UpLen /\ DownLen' = DownLen
  BY <1>1, ClientUntouched DEF Intact, UpLen, DownLen
<1>4. UpLen = 0
  BY DEF IInv, UpInv, UpRest, Serving
<1>5. Framed(Phase, DownLen, s2c) /\ ~Complete(Phase, DownLen, s2c)
  BY DEF IInv, DownInv, Resting
<1>6. Intact => ResultSent(Phase, DownLen, s2c) \/ (Phase = "result" /\ DownLen = 0)
  BY DEF IInv, DownInv, ResultSent, FirstAnswer
<1>7. /\ status'[Live] = s
      /\ \A i \in Calls : i # Live => status'[i] = status[i]
  BY <1>1, <1>2
<1>8. LostInv' /\ SockInv'
  BY <1>1, <1>3 DEF IInv, LostInv, SockInv
<1>9. DownInv'
  BY <1>1, <1>3, <1>5, <1>6 DEF DownInv
<1>10. Phase \notin {"idle", "packet", "body"} \/ ~Intact
  <2>1. Intact => Phase \in {"result", "payload", "ack"}
    BY <1>6 DEF ResultSent
  <2> QED BY <2>1
<1>11. UpInv'
  BY <1>1, <1>3, <1>4, <1>10 DEF IInv, UpInv, UpRecv, UpBody, UpRest, UpClient, Serving
<1>12. LiveInv'
  <2>1. ~(Phase \in {"packet", "body"} /\ Intact)
    BY <1>10
  <2>2. \A i \in Calls : status'[i] # "none" => i <= Live /\ i <= issued
    BY <1>2, <1>7 DEF IInv, LiveInv
  <2> QED BY <1>1, <1>2, <1>3, <1>4, <2>1, <2>2 DEF IInv, LiveInv
<1>13. TruthInv'
  <2>1. \A i \in Calls : i <= answered => i # Live
    BY DEF Live, Calls, IInv, TypeOK
  <2>2. \A i \in Calls : outcome[i] \in {"accepted", "rejected"} => i # Live
    BY <2>1 DEF IInv, NumberInv
  <2>3. OutcomeTruthful'
    BY <1>1, <1>7, <2>2 DEF IInv, TruthInv, OutcomeTruthful
  <2>4. Tells(verdict)'
    BY <1>1, <1>3, <1>7, ConstantTypes DEF Tells
  <2> QED BY <1>1, <1>3, <1>5, <2>3, <2>4 DEF TruthInv
<1> QED BY <1>3, <1>8, <1>9, <1>11, <1>12, <1>13 DEF IInv

LEMMA EvalKeeps ==
    ASSUME IInv, TypeOK', Ignore \/ Run \/ Refuse
    PROVE  IInv'
<1>1. CASE Ignore
  BY <1>1, EvaluatedKeeps DEF Ignore
<1>2. CASE Run
  BY <1>2, EvaluatedKeeps DEF Run, AtReturn
<1>3. CASE Refuse
  BY <1>3, EvaluatedKeeps DEF Refuse
<1> QED BY <1>1, <1>2, <1>3

\* What a send of the server thread leaves alone.
LEMMA ServerPutKeeps ==
    ASSUME IInv, TypeOK', NEW item \in Item, ServerPut(item), item.id = Live,
           spc \in {"eval", "payload", "ack"},
           spc' \in {"payload", "tail", "recv"},
           spc' = "recv" <=> spc = "ack",
           UNCHANGED <<req, verdict, clientVars, historyVars>>
    PROVE  /\ MutexInv' /\ NumberInv' /\ LostInv' /\ SockInv' /\ UpInv' /\ LiveInv'
           /\ Phase' = Phase /\ Live' = Live /\ UpLen' = 0
           /\ DownLen \in Nat
           /\ \/ /\ Intact /\ Intact' /\ DownLen' = DownLen + 1
                 /\ s2c'[DownLen + 1] = item
                 /\ \A k \in 1 .. DownLen : s2c'[k] = s2c[k]
              \/ ~Intact /\ ~Intact' /\ s2c' = s2c /\ DownLen' = DownLen
<1> USE DEF clientVars, historyVars
<1>1. /\ ssock = "open" /\ c2s' = c2s /\ UpLen' = UpLen /\ csock' = csock
      /\ \/ /\ csock = "open" /\ ssock' = "open"
            /\ DownLen' = DownLen + 1
            /\ s2c'[DownLen + 1] = item
            /\ \A k \in 1 .. DownLen : s2c'[k] = s2c[k]
         \/ /\ csock = "closed" /\ s2c' = s2c /\ DownLen' = DownLen
            /\ ssock' \in {"open", "reset", "broken"}
  BY ServerPutFacts DEF IInv
<1>2. MutexInv' /\ NumberInv' /\ Phase' = Phase /\ Live' = Live
  BY <1>1, ClientUntouched
<1>3. DownLen \in Nat /\ UpLen = 0
  BY LengthTypes DEF IInv, UpInv, UpRest, Serving
<1>4. \/ /\ Intact /\ Intact' /\ DownLen' = DownLen + 1
         /\ s2c'[DownLen + 1] = item
         /\ \A k \in 1 .. DownLen : s2c'[k] = s2c[k]
      \/ ~Intact /\ ~Intact' /\ s2c' = s2c /\ DownLen' = DownLen
  BY <1>1 DEF Intact
<1>5. LostInv'
  BY <1>4 DEF IInv, LostInv
<1>6. SockInv'
  BY <1>1 DEF IInv, SockInv
\* while the server thread serves on an intact line, the client is reading
<1>7. Intact => Phase \in Reading
  BY DEF IInv, DownInv, ResultSent, FirstAnswer, Reading
<1>8. UpInv'
  BY <1>1, <1>2, <1>3, <1>4, <1>7 DEF IInv, UpInv, UpRecv, UpBody, UpRest, UpClient, Reading
<1>9. LiveInv'
  <2>1. {"eval", "payload", "ack"} \subseteq Serving /\ spc' \in Serving \cup {"recv"}
    BY DEF Serving
  <2>2. \A k \in 1 .. DownLen' : s2c'[k].id = Live
    BY <1>3, <1>4 DEF IInv, LiveInv
  <2>3. spc' \in Serving \ {"ack"} => spc \in Serving \ {"ack"}
    BY DEF Serving
  <2> QED BY <1>1, <1>2, <1>3, <1>4, <1>7, <2>1, <2>2, <2>3 DEF IInv, LiveInv, Reading
<1> QED BY <1>1, <1>2, <1>3, <1>4, <1>5, <1>6, <1>8, <1>9

\* A callback sends its result.
LEMMA ResultKeeps ==
    ASSUME IInv, TypeOK', SendResult \/ SendPayload
    PROVE  IInv'
<1>1. req.id = Live /\ req.id \in 0 .. MaxCalls /\ rsize \in Nat
  BY ServedCall DEF SendResult, SendPayload, Serving, IInv, TypeOK, Item
<1>2. CASE SendResult
  <2>1. PICK n \in Sizes :
          /\ ServerPut(PacketItem(req.id, ResultCode, n))
          /\ rsize' = n
          /\ spc' = IF n # 0 THEN "payload" ELSE "tail"
    BY <1>2 DEF SendResult
  <2> DEFINE item == PacketItem(req.id, ResultCode, n)
  <2>2. /\ spc = "eval" /\ YieldsResult(req.code)
        /\ UNCHANGED <<req, verdict, clientVars, historyVars>>
    BY <1>2 DEF SendResult
  <2>3. item \in Item
    BY <1>1, SizesAssumption, ConstantTypes, ItemTypes
  <2>4. item.id = Live /\ item.kind = "packet" /\ item.size = n /\ item.code # kControlCodeReject
    BY <1>1, ConstantTypes DEF PacketItem
  <2>5. ServerPut(item)
    BY <2>1
  <2> HIDE DEF item
  <2>6. /\ MutexInv' /\ NumberInv' /\ LostInv' /\ SockInv' /\ UpInv' /\ LiveInv'
        /\ Phase' = Phase /\ Live' = Live /\ UpLen' = 0
        /\ DownLen \in Nat
        /\ \/ /\ Intact /\ Intact' /\ DownLen' = DownLen + 1
              /\ s2c'[DownLen + 1] = item
              /\ \A k \in 1 .. DownLen : s2c'[k] = s2c[k]
           \/ ~Intact /\ ~Intact' /\ s2c' = s2c /\ DownLen' = DownLen
    BY <2>1, <2>2, <2>3, <2>4, <2>5, ServerPutKeeps
  <2>7. DownLen = 0 /\ (Intact => Phase = "result")
    BY <2>2 DEF IInv, DownInv, FirstAnswer
  <2>8. Intact => /\ DownLen' = 1 /\ s2c'[1].kind = "packet" /\ s2c'[1].size = n
                  /\ s2c'[1].code # kControlCodeReject
    BY <2>4, <2>6, <2>7
  <2>9. Framed(Phase, DownLen, s2c) /\ ~Complete(Phase, DownLen, s2c)
    BY <2>2 DEF IInv, DownInv, Resting
  <2>10. Framed(Phase', DownLen', s2c') /\ ~Complete(Phase', DownLen', s2c')
    BY <2>6, <2>7, <2>8, <2>9 DEF Framed, Complete, Reading
  <2>11. DownInv'
    BY <2>1, <2>6, <2>7, <2>8, <2>10 DEF DownInv, ResultSent
  <2>12. TruthInv'
    BY <2>1, <2>2, <2>10 DEF IInv, TruthInv, OutcomeTruthful, historyVars
  <2> QED BY <2>6, <2>11, <2>12 DEF IInv
<1>3. CASE SendPayload
  <2> DEFINE item == BytesItem(req.id, rsize)
  <2>2. /\ spc = "payload" /\ spc' = "tail" /\ ServerPut(item)
        /\ UNCHANGED <<req, rsize, verdict, clientVars, historyVars>>
    BY <1>3 DEF SendPayload
  <2>3. item \in Item
    BY <1>1, ConstantTypes, ItemTypes
  <2>4. item.id = Live /\ item.kind = "bytes"
    BY <1>1 DEF BytesItem
  <2> HIDE DEF item
  <2>6. /\ MutexInv' /\ NumberInv' /\ LostInv' /\ SockInv' /\ UpInv' /\ LiveInv'
        /\ Phase' = Phase /\ Live' = Live /\ UpLen' = 0
        /\ DownLen \in Nat
        /\ \/ /\ Intact /\ Intact' /\ DownLen' = DownLen + 1
              /\ s2c'[DownLen + 1] = item
              /\ \A k \in 1 .. DownLen : s2c'[k] = s2c[k]
           \/ ~Intact /\ ~Intact' /\ s2c' = s2c /\ DownLen' = DownLen
    BY <2>2, <2>3, <2>4, ServerPutKeeps
  <2>7. Framed(Phase, DownLen, s2c) /\ ~Complete(Phase, DownLen, s2c)
    BY <2>2 DEF IInv, DownInv, Resting
  <2>8. Intact => \/ /\ Phase = "result" /\ DownLen' = 2
                     /\ s2c'[1] = s2c[1] /\ s2c[1].size # 0 /\ s2c[1].code # kControlCodeReject
                     /\ s2c[1].kind = "packet" /\ s2c'[2] = item
                  \/ Phase = "payload" /\ DownLen' = 1 /\ s2c'[1] = item
    BY <2>2, <2>6, <2>7 DEF IInv, DownInv, Framed
  <2>9. /\ Framed(Phase', DownLen', s2c') /\ ~Complete(Phase', DownLen', s2c')
        /\ Intact => ResultSent(Phase', DownLen', s2c')
    BY <2>4, <2>6, <2>7, <2>8 DEF Framed, Complete, ResultSent, Reading
  <2>10. DownInv'
    BY <2>2, <2>6, <2>9 DEF DownInv
  <2>11. TruthInv'
    BY <2>2, <2>9 DEF IInv, TruthInv, OutcomeTruthful, historyVars
  <2> QED BY <2>6, <2>10, <2>11 DEF IInv
<1> QED BY <1>2, <1>3

\* The server thread acknowledges.
LEMMA AckKeeps ==
    ASSUME IInv, TypeOK', SendAck
    PROVE  IInv'
<1> DEFINE item == PacketItem(req.id, verdict, 0)
<1>1. /\ spc = "ack" /\ spc' = "recv" /\ ServerPut(item)
      /\ UNCHANGED <<req, rsize, verdict, clientVars, historyVars>>
  BY DEF SendAck
<1>2. req.id = Live /\ req.id \in 0 .. MaxCalls /\ verdict \in Nat /\ verdict \in Verdicts
  BY <1>1, ServedCall, ConstantTypes DEF Serving, IInv, TypeOK, Item, Verdicts
<1>3. item \in Item
  BY <1>2, ItemTypes
<1>4. item.id = Live /\ item.kind = "packet" /\ item.code = verdict /\ item.size = 0 /\ IsAck(item)
  BY <1>2 DEF PacketItem, IsAck
<1> HIDE DEF item
<1>5. /\ MutexInv' /\ NumberInv' /\ LostInv' /\ SockInv' /\ UpInv' /\ LiveInv'
      /\ Phase' = Phase /\ Live' = Live /\ UpLen' = 0
      /\ DownLen \in Nat
      /\ \/ /\ Intact /\ Intact' /\ DownLen' = DownLen + 1
            /\ s2c'[DownLen + 1] = item
            /\ \A k \in 1 .. DownLen : s2c'[k] = s2c[k]
         \/ ~Intact /\ ~Intact' /\ s2c' = s2c /\ DownLen' = DownLen
  BY <1>1, <1>3, <1>4, ServerPutKeeps
<1>6. Framed(Phase, DownLen, s2c) /\ ~Complete(Phase, DownLen, s2c)
  BY <1>1 DEF IInv, DownInv, Resting
<1>7. Intact => ResultSent(Phase, DownLen, s2c) \/ (Phase = "result" /\ DownLen = 0)
  BY <1>1 DEF IInv, DownInv
<1>8. Framed(Phase', DownLen', s2c')
  <2>1. CASE ~Intact
    BY <1>5, <1>6, <2>1
  <2>2. CASE Intact /\ ResultSent(Phase, DownLen, s2c)
    <3>1. /\ DownLen >= 1 => s2c'[1] = s2c[1]
          /\ DownLen >= 2 => s2c'[2] = s2c[2]
      BY <1>5, <2>2
    <3> QED BY <1>4, <1>5, <1>6, <2>2, <3>1 DEF Framed, ResultSent, Reading, IsAck
  <2>3. CASE Intact /\ Phase = "result" /\ DownLen = 0
    BY <1>4, <1>5, <2>3 DEF Framed, Reading
  <2> QED BY <1>7, <2>1, <2>2, <2>3
<1>9. Complete(Phase', DownLen', s2c') => Intact
  BY <1>5, <1>6
<1>10. DownInv'
  BY <1>1, <1>5, <1>8 DEF DownInv, Resting
<1>11. TruthInv'
  <2>1. Complete(Phase', DownLen', s2c') => s2c'[DownLen'] = item
    BY <1>5, <1>9
  <2>2. Tells(verdict)
    BY <1>1 DEF IInv, TruthInv
  <2>3. Tells(verdict)'
    BY <1>1, <1>5, <2>2 DEF Tells, historyVars
  <2> QED BY <1>1, <1>4, <2>1, <2>2, <1>5 DEF IInv, TruthInv, OutcomeTruthful, Tells, historyVars
<1> QED BY <1>5, <1>10, <1>11 DEF IInv

\* The server thread ends, its call cut short.
LEMMA DeadKeeps ==
    ASSUME IInv, TypeOK', ServerError \/ Abort
    PROVE  IInv'
<1> USE DEF clientVars
<1>1. /\ spc' = "dead" /\ spc \notin {"dead", "released", "killed"}
      /\ UNCHANGED <<req, rsize, verdict, clientVars, c2s, s2c, csock, outcome, answered>>
      /\ \/ status' = status
         \/ spc \in {"eval", "payload", "tail"} /\ status' = [status EXCEPT ![req.id] = "aborted"]
      /\ ssock' = Reported(ssock) \/ ssock' = ssock
  BY DEF ServerError, Abort, Sending, netVars
<1>2. /\ MutexInv' /\ NumberInv' /\ Phase' = Phase /\ Live' = Live
      /\ UpLen' = UpLen /\ DownLen' = DownLen
  BY <1>1, ClientUntouched DEF UpLen, DownLen
<1>3. Intact' <=> Intact
  BY <1>1 DEF Intact, Reported
<1>4. SockInv'
  BY <1>1 DEF IInv, SockInv, Reported
<1>5. LostInv'
  BY <1>1, <1>2, <1>3 DEF IInv, LostInv
\* it ends on an intact line only because a callback throws
<1>6. Intact => spc \in {"eval", "tail"}
  BY DEF ServerError, Abort, ServerAtEnd, Intact
<1>7. Framed(Phase, DownLen, s2c) /\ (Complete(Phase, DownLen, s2c) => UpLen = 0)
  BY DEF IInv, DownInv
<1>8. DownInv'
  BY <1>1, <1>2, <1>7 DEF DownInv, Resting
<1>9. UpInv'
  <2>1. Intact => Phase \notin {"idle", "packet", "body"}
    BY <1>6 DEF IInv, DownInv, ResultSent, FirstAnswer
  <2> QED BY <1>1, <1>2, <1>3, <2>1 DEF IInv, UpInv, UpRecv, UpBody, UpRest, UpClient, Serving
<1>10. LiveInv'
  <2>1. CASE status' = status
    <3>1. spc' \notin Serving
      BY <1>1 DEF Serving
    <3> QED BY <1>1, <1>2, <1>3, <2>1, <3>1 DEF IInv, LiveInv
  <2>2. CASE spc \in {"eval", "payload", "tail"} /\ status' = [status EXCEPT ![req.id] = "aborted"]
    <3>1. /\ req.id = Live /\ Live \in Calls /\ Live <= issued
          /\ Live \in Nat /\ issued \in Nat /\ status \in [Calls -> Statuses]
      BY <2>2, ServedCall DEF Serving
    <3>2. UpLen = 0
      BY <2>2 DEF IInv, UpInv, UpRest, Serving
    <3>3. \A i \in Calls : i # Live => status'[i] = status[i]
      BY <2>2, <3>1
    <3>4. \A i \in Calls : status'[i] # "none" => i <= Live /\ i <= issued
      BY <3>1, <3>3 DEF IInv, LiveInv
    <3>5. Intact => Phase \notin {"packet", "body"}
      BY <1>6 DEF IInv, DownInv, ResultSent, FirstAnswer
    <3> QED BY <1>1, <1>2, <1>3, <3>1, <3>2, <3>4, <3>5 DEF IInv, LiveInv, Serving
  <2> QED BY <1>1, <2>1, <2>2
<1>11. TruthInv'
  <2>1. CASE status' = status
    BY <1>1, <1>2, <2>1 DEF IInv, TruthInv, OutcomeTruthful, Tells
  <2>2. CASE spc \in {"eval", "payload", "tail"} /\ status' = [status EXCEPT ![req.id] = "aborted"]
    <3>1. req.id = Live /\ Live \in Calls /\ status \in [Calls -> Statuses]
      BY <2>2, ServedCall DEF Serving
    <3>2. \A i \in Calls : outcome[i] \in {"accepted", "rejected"} => i # Live
      BY DEF IInv, NumberInv, Live, Calls, TypeOK
    <3>3. \A i \in Calls : i # Live => status'[i] = status[i]
      BY <2>2, <3>1
    <3>4. ~Complete(Phase, DownLen, s2c)
      BY <2>2 DEF IInv, DownInv, Resting
    <3>5. OutcomeTruthful'
      BY <1>1, <3>2, <3>3 DEF IInv, TruthInv, OutcomeTruthful
    <3> QED BY <1>1, <1>2, <3>4, <3>5 DEF TruthInv
  <2> QED BY <1>1, <2>1, <2>2
<1> QED BY <1>2, <1>4, <1>5, <1>8, <1>9, <1>10, <1>11 DEF IInv


LEMMA InitKeeps == Init => IInv
<1> SUFFICES ASSUME Init PROVE IInv
  OBVIOUS
<1>1. TypeOK
  BY InitTypes
<1>2. /\ UpLen = 0 /\ DownLen = 0 /\ Live = 1 /\ Phase = "idle"
      /\ spc = "recv" /\ mutex = NoThread /\ issued = 0 /\ answered = 0
      /\ Intact /\ csock = "open" /\ ssock = "open"
  BY <1>1, LengthTypes DEF Init, Live, Phase, Intact
<1>3. /\ \A t \in Threads : pc[t] = "idle"
      /\ \A i \in Calls : status[i] = "none" /\ outcome[i] = "none" /\ i \in Nat /\ i > 0
  BY MaxCallsAssumption DEF Init, Calls
<1>4. MutexInv /\ SockInv
  BY <1>2, <1>3, ThreadsAssumption DEF MutexInv, SockInv, Busy
<1>5. NumberInv /\ LostInv
  BY <1>2, <1>3 DEF NumberInv, LostInv, Busy
<1>6. ~Complete(Phase, DownLen, s2c)
  BY <1>2 DEF Complete
<1>7. DownInv
  BY <1>2, <1>6 DEF DownInv, Framed, Reading
<1>8. UpInv
  BY <1>2 DEF UpInv, UpRecv, UpBody, UpRest, UpClient, Serving, Resting
<1>9. LiveInv
  BY <1>2, <1>3 DEF LiveInv, Serving
<1>10. TruthInv
  BY <1>2, <1>3, <1>6 DEF TruthInv, OutcomeTruthful
<1> QED BY <1>1, <1>4, <1>5, <1>7, <1>8, <1>9, <1>10 DEF IInv

LEMMA StutterKeeps ==
    ASSUME IInv, UNCHANGED vars
    PROVE  IInv'
<1>1. UNCHANGED <<mutex, pc, call, issued, spc, req, rsize, verdict, c2s, s2c, csock, ssock,
                  status, outcome, answered>>
  BY DEF vars, clientVars, serverVars, netVars, historyVars
<1>2. TypeOK'
  BY <1>1 DEF IInv, TypeOK
<1>3. Phase' = Phase /\ Live' = Live /\ UpLen' = UpLen /\ DownLen' = DownLen /\ (Intact' <=> Intact)
  BY <1>1 DEF Phase, Live, UpLen, DownLen, Intact
<1>4. MutexInv' /\ SockInv' /\ NumberInv'
  BY <1>1 DEF IInv, MutexInv, SockInv, NumberInv
<1>5. LostInv' /\ DownInv'
  BY <1>1, <1>3 DEF IInv, LostInv, DownInv
<1>6. RequestPacket' = RequestPacket
  BY <1>1 DEF RequestPacket
<1>7. UpInv'
  BY <1>1, <1>3, <1>6 DEF IInv, UpInv, UpRecv, UpBody, UpRest, UpClient
<1>8. LiveInv'
  BY <1>1, <1>3 DEF IInv, LiveInv
<1>9. TruthInv'
  BY <1>1, <1>3 DEF IInv, TruthInv, OutcomeTruthful, Tells
<1> QED BY <1>2, <1>4, <1>5, <1>7, <1>8, <1>9 DEF IInv

LEMMA NextKeeps ==
    ASSUME IInv, [Next]_vars
    PROVE  IInv'
<1>1. TypeOK'
  BY StepTypes DEF IInv
<1>2. CASE UNCHANGED vars
  BY <1>2, StutterKeeps
<1>3. CASE \E t \in Threads : Lock(t) \/ Close(t) \/ ClientStep(t)
  <2>1. PICK t \in Threads : Lock(t) \/ Close(t) \/ ClientStep(t)
    BY <1>3
  <2>2. CASE Lock(t)
    BY <1>1, <2>2, LockKeeps
  <2>3. CASE Close(t) \/ ClientPipe(t)
    BY <1>1, <2>3, CutKeeps
  <2>4. CASE SendPacket(t) \/ SendBody(t)
    BY <1>1, <2>4, SendKeeps
  <2>5. CASE RecvResult(t)
    BY <1>1, <2>5, AdvanceKeeps, AnswerKeeps
  <2>6. CASE RecvPayload(t)
    BY <1>1, <2>6, AdvanceKeeps
  <2>7. CASE RecvAck(t)
    BY <1>1, <2>7, AnswerKeeps
  <2>8. CASE ClientError(t)
    BY <1>1, <2>8, ErrorKeeps
  <2> QED BY <2>1, <2>2, <2>3, <2>4, <2>5, <2>6, <2>7, <2>8 DEF ClientStep
<1>4. CASE ServerStep \/ Abort
  <2>1. CASE RecvPacket
    BY <1>1, <2>1, RecvPacketKeeps
  <2>2. CASE RecvBody
    BY <1>1, <2>2, RecvBodyKeeps
  <2>3. CASE Ignore \/ Run \/ Refuse
    BY <1>1, <2>3, EvalKeeps
  <2>4. CASE SendResult \/ SendPayload
    BY <1>1, <2>4, ResultKeeps
  <2>5. CASE SendAck
    BY <1>1, <2>5, AckKeeps
  <2>6. CASE ServerError \/ Abort
    BY <1>1, <2>6, DeadKeeps
  <2>7. CASE ServerPipe
    BY <1>1, <2>7, CutKeeps
  <2> QED BY <1>4, <2>1, <2>2, <2>3, <2>4, <2>5, <2>6, <2>7 DEF ServerStep
<1>5. CASE Release \/ Reset \/ KillClient \/ KillServer
  BY <1>1, <1>5, CutKeeps
<1> QED BY <1>2, <1>3, <1>4, <1>5 DEF Next, Proceed, Fault

\* The invariant of SessionInv holds in every reachable state, for every number of
\* threads and calls, every set of codes and handlers, and every set of faults.
THEOREM Inductive == Spec => []IInv
<1>1. Init => IInv
  BY InitKeeps
<1>2. IInv /\ [Next]_vars => IInv'
  BY NextKeeps
<1> QED BY <1>1, <1>2, PTL DEF Spec

-----------------------------------------------------------------------------
(* What the invariant says of calls and of the streams.                     *)

LEMMA InvTruthful == IInv => OutcomeTruthful
BY DEF IInv, TruthInv

\* A caller told that its call was accepted or rejected was told the truth.
THEOREM Truthful == Spec => []OutcomeTruthful
<1> QED BY InvTruthful, Inductive, PTL

LEMMA InvSerial == IInv => SerialExecution
<1> SUFFICES ASSUME IInv, NEW i \in Calls, NEW j \in Calls, i < j, status[j] # "none"
             PROVE  outcome[i] \in {"accepted", "rejected"}
  BY DEF SerialExecution
<1>1. j <= answered + 1 /\ answered \in Nat /\ i \in Nat /\ j \in Nat
  BY DEF IInv, LiveInv, Live, TypeOK, Calls
<1>2. i <= answered
  BY <1>1
<1> QED BY <1>2 DEF IInv, NumberInv

\* A call is executed only if every earlier one has been answered.
THEOREM Serial == Spec => []SerialExecution
<1> QED BY InvSerial, Inductive, PTL

LEMMA InvInStep == IInv => InStep
<1> SUFFICES ASSUME IInv PROVE InStep
  OBVIOUS
<1>1. /\ UpLen \in Nat /\ (c2s = <<>> <=> UpLen = 0)
      /\ DownLen \in Nat /\ (s2c = <<>> <=> DownLen = 0)
  BY LengthTypes DEF IInv
<1>2. c2s # <<>> => UpLen # 0 /\ Head(c2s) = c2s[1] /\ 1 \in 1 .. UpLen
  BY <1>1 DEF IInv, TypeOK
<1>3. s2c # <<>> => DownLen # 0 /\ Head(s2c) = s2c[1] /\ 1 \in 1 .. DownLen
  BY <1>1 DEF IInv, TypeOK
<1>4. ASSUME NEW t \in Threads, pc[t] \in {"result", "payload", "ack"}, s2c # <<>>
      PROVE  /\ Head(s2c).id = call[t].id
             /\ Head(s2c).kind = IF pc[t] = "payload" THEN "bytes" ELSE "packet"
  <2>1. Phase = pc[t] /\ call[t].id = issued /\ (DownLen # 0 => Live = issued)
    BY <1>4, Holder DEF Busy
  <2>2. Head(s2c).id = Live
    BY <1>3, <1>4 DEF IInv, LiveInv
  <2>3. /\ pc[t] = "payload" => s2c[1].kind = "bytes"
        /\ pc[t] = "result" => s2c[1].kind = "packet"
    BY <1>1, <1>3, <1>4, <2>1 DEF IInv, DownInv, Framed
  <2>4. pc[t] = "ack" => s2c[1].kind = "packet"
    BY <1>1, <1>3, <1>4, <2>1 DEF IInv, DownInv, Framed, IsAck
  <2> QED BY <1>3, <1>4, <2>1, <2>2, <2>3, <2>4
<1>5. spc = "recv" /\ c2s # <<>> => Head(c2s).kind = "packet"
  BY <1>2 DEF IInv, UpInv, UpRecv
<1>6. spc = "body" /\ c2s # <<>> => Head(c2s) = BytesItem(req.id, req.size)
  BY <1>1, <1>2 DEF IInv, UpInv, UpBody
<1> QED BY <1>4, <1>5, <1>6 DEF InStep

\* What a thread finds where it reads is what it expects, of the call it serves.
THEOREM StreamsInStep == Spec => []InStep
<1> QED BY InvInStep, Inductive, PTL


-----------------------------------------------------------------------------
(* What a step may do to the history of the calls, and the refinement of    *)
(* Rpc.                                                                     *)

\* A step of the server decides the fate of the live call, once.
LEMMA ServeStep ==
    ASSUME IInv, spc \in {"eval", "payload", "tail"},
           NEW s \in Statuses \ {"none"},
           status' = [status EXCEPT ![req.id] = s],
           UNCHANGED <<issued, outcome>>
    PROVE  \E i \in Calls : status[i] = "none" /\ Promise!Serve(i)
<1>1. /\ req.id = Live /\ Live \in Calls /\ Live <= issued
      /\ status \in [Calls -> Statuses]
  BY ServedCall DEF Serving
<1>2. status[Live] = "none"
  BY DEF IInv, LiveInv, Serving
<1>3. ASSUME NEW j \in 1 .. (Live - 1)
      PROVE  outcome[j] \in {"accepted", "rejected"}
  <2>1. j \in Calls /\ j <= answered
    BY <1>1, MaxCallsAssumption DEF IInv, TypeOK, Calls, Live
  <2> QED BY <2>1 DEF IInv, NumberInv
<1>4. Promise!Serve(Live)
  BY <1>1, <1>2, <1>3 DEF Promise!Serve, Promise!Answered, Promise!Statuses, Statuses
<1> QED BY <1>1, <1>2, <1>4

\* The return of a call is the return of the call its thread has issued.
LEMMA ReturnStep ==
    ASSUME IInv, IInv', NEW t \in Threads, pc[t] \in Busy,
           NEW o \in {"accepted", "rejected", "lost"}, Finish(t, o)
    PROVE  Promise!Return(issued) /\ issued \in Calls /\ status' = status
<1>1. issued \in Calls /\ call[t].id = issued /\ outcome[issued] = "none"
  BY Holder
<1>2. outcome' = [outcome EXCEPT ![issued] = o] /\ status' = status /\ issued' = issued
  BY <1>1 DEF Finish
<1>3. outcome'[issued] = o
  BY <1>1, <1>2 DEF IInv, TypeOK
<1>4. /\ o = "accepted" => status[issued] \in {"ran", "ignored"}
      /\ o = "rejected" => status[issued] = "refused"
  BY <1>1, <1>2, <1>3 DEF IInv, TruthInv, OutcomeTruthful
<1>5. issued <= issued
  BY <1>1 DEF Calls
<1> QED BY <1>1, <1>2, <1>4, <1>5 DEF Promise!Return, Promise!Outcomes

\* What each step does in terms of calls: it issues one, serves one, returns one or
\* does nothing.
LEMMA HistoryStep ==
    ASSUME IInv, [Next]_vars
    PROVE  \/ Promise!Issue
           \/ \E i \in Calls : status[i] = "none" /\ Promise!Serve(i)
           \/ \E i \in Calls : Promise!Return(i) /\ status' = status
           \/ UNCHANGED <<issued, status, outcome>>
<1> USE DEF clientVars, serverVars, netVars, historyVars
<1>1. IInv'
  BY NextKeeps
<1>2. CASE UNCHANGED vars
  BY <1>2 DEF vars
<1>3. ASSUME NEW t \in Threads, Lock(t)
      PROVE  Promise!Issue
  <2>1. /\ pc[t] = "idle" /\ mutex = NoThread /\ issued < MaxCalls /\ issued' = issued + 1
        /\ UNCHANGED <<status, outcome>>
    BY <1>3 DEF Lock
  <2>2. \A i \in 1 .. issued : outcome[i] # "none"
    BY <2>1, MaxCallsAssumption DEF IInv, NumberInv, TypeOK, Calls
  <2> QED BY <2>1, <2>2 DEF Promise!Issue
<1>4. ASSUME NEW t \in Threads, RecvResult(t) \/ RecvAck(t) \/ ClientError(t)
      PROVE  \/ \E i \in Calls : Promise!Return(i) /\ status' = status
             \/ UNCHANGED <<issued, status, outcome>>
  <2>1. pc[t] \in Busy
    BY <1>4 DEF RecvResult, RecvAck, ClientError, Busy
  <2>2. \/ \E o \in {"accepted", "rejected", "lost"} : Finish(t, o)
        \/ UNCHANGED <<issued, status, outcome>>
    BY <1>4 DEF RecvResult, RecvAck, ClientError
  <2> QED BY <1>1, <2>1, <2>2, ReturnStep
<1>5. ASSUME NEW t \in Threads,
             Close(t) \/ SendPacket(t) \/ SendBody(t) \/ RecvPayload(t) \/ ClientPipe(t)
      PROVE  UNCHANGED <<issued, status, outcome>>
  BY <1>5 DEF Close, SendPacket, SendBody, RecvPayload, ClientPipe, ClientDies
<1>6. CASE Ignore \/ Run \/ Refuse
  <2>1. spc \in {"eval", "payload", "tail"}
    BY <1>6 DEF Ignore, Run, Refuse, AtReturn
  <2>2. /\ \E s \in Statuses \ {"none"} : status' = [status EXCEPT ![req.id] = s]
        /\ UNCHANGED <<issued, outcome>>
    BY <1>6 DEF Ignore, Run, Refuse, Evaluated, Statuses
  <2> QED BY <2>1, <2>2, ServeStep
<1>7. CASE ServerError \/ Abort
  <2>1. \/ status' = status
        \/ /\ spc \in {"eval", "payload", "tail"}
           /\ status' = [status EXCEPT ![req.id] = "aborted"]
    BY <1>7 DEF ServerError, Abort
  <2>2. UNCHANGED <<issued, outcome>> /\ "aborted" \in Statuses \ {"none"}
    BY <1>7 DEF ServerError, Abort, Statuses
  <2> QED BY <2>1, <2>2, ServeStep
<1>8. CASE RecvPacket \/ RecvBody \/ SendResult \/ SendPayload \/ SendAck \/ ServerPipe
  BY <1>8 DEF RecvPacket, RecvBody, SendResult, SendPayload, SendAck, ServerPipe, ServerDies
<1>9. CASE Release \/ Reset \/ KillClient \/ KillServer
  BY <1>9 DEF Release, Reset, KillClient, KillServer, ClientDies, ServerDies
<1> QED
  BY <1>2, <1>3, <1>4, <1>5, <1>6, <1>7, <1>8, <1>9 DEF Next, Proceed, Fault, ClientStep, ServerStep

LEMMA StepExecutesOnce ==
    ASSUME IInv, [Next]_vars, NEW i \in Calls, status[i] # "none"
    PROVE  status'[i] = status[i]
<1>1. CASE UNCHANGED status
  BY <1>1
<1>2. CASE \E j \in Calls : status[j] = "none" /\ Promise!Serve(j)
  BY <1>2 DEF Promise!Serve, IInv, TypeOK
<1>3. Promise!Issue => UNCHANGED status
  BY DEF Promise!Issue
<1> QED BY <1>1, <1>2, <1>3, HistoryStep

\* No step executes a call that was already executed, refused, ignored or aborted.
THEOREM ExecutedOnce == Spec => ExecutesAtMostOnce
<1>1. IInv /\ [Next]_vars =>
        [\A i \in Calls : status[i] # "none" => status'[i] = status[i]]_vars
  BY StepExecutesOnce
<1> QED BY <1>1, Inductive, PTL DEF Spec, ExecutesAtMostOnce

\* The session implements Rpc: every step issues, serves or returns one call under
\* the conditions of Rpc, or is a stutter there.
THEOREM Implements == Spec => KeepsPromise
<1>1. Init => Promise!Init
  BY DEF Init, Promise!Init, Promise!Calls, Calls
<1>2. IInv /\ [Next]_vars => [Promise!Next]_Promise!vars
  <2>1. ASSUME IInv, [Next]_vars PROVE Promise!Next \/ UNCHANGED Promise!vars
    BY <2>1, HistoryStep DEF Promise!Next, Promise!Calls, Calls, Promise!vars
  <2> QED BY <2>1
<1> QED BY <1>1, <1>2, Inductive, PTL DEF Spec, KeepsPromise, Promise!Spec

-----------------------------------------------------------------------------
(* Nobody waits for nobody. The server answers every request with all that  *)
(* its client will read, provided that each code that yields a result has a *)
(* callback: without one (the Ignore step) an acknowledgement comes where a *)
(* result is awaited.                                                       *)

ResultsHandled == \A c \in Codes : YieldsResult(c) => c \in Handled

\* Once the server thread waits for the next packet, the whole answer to the last one has
\* been sent. A result may be missing in it only if the call was rejected.
WaitInv ==
    /\ spc \in {"body", "eval"} => req.code \in Codes
    /\ Intact /\ spc = "ack" /\ Phase = "result" /\ DownLen = 0 => verdict = kControlCodeReject
    /\ Intact /\ spc = "recv" /\ UpLen = 0 /\ Phase \in Reading => Complete(Phase, DownLen, s2c)

\* The client takes the head of an answer that is complete: the rest is complete.
LEMMA CompleteTail ==
    ASSUME NEW p \in {"result", "payload"}, NEW n \in Nat, NEW s, NEW r, Framed(p, n, s), Complete(p, n, s),
           \A k \in 1 .. n - 1 : r[k] = s[k + 1],
           s[1].code # kControlCodeReject \/ p = "payload",
           NEW q, q = IF p = "result" /\ s[1].size # 0 THEN "payload" ELSE "ack"
    PROVE  Complete(q, n - 1, r)
BY DEF Framed, Complete

LEMMA ClientWaits ==
    ASSUME IInv, WaitInv, NEW t \in Threads, Lock(t) \/ Close(t) \/ ClientStep(t)
    PROVE  WaitInv'
<1>1. UNCHANGED <<spc, req, verdict>>
  BY DEF Lock, Close, ClientStep, SendPacket, SendBody, RecvResult, RecvPayload, RecvAck, ClientError,
         ClientPipe, ClientDies, serverVars
<1>2. CASE Close(t) \/ ClientPipe(t)
  <2>1. ~Intact'
    BY <1>2 DEF Close, ClientPipe, ClientDies, CloseClientEnd, Intact
  <2> QED BY <1>1, <2>1 DEF WaitInv
<1>3. CASE Lock(t)
  <2>1. Phase' = "packet"
    BY <1>3, ThreadsAssumption DEF Lock, Phase, IInv, TypeOK
  <2> QED BY <1>1, <2>1 DEF WaitInv, Reading
<1>4. CASE ClientError(t)
  <2>1. Phase' = "idle"
    BY <1>4 DEF ClientError, Finish, Phase
  <2> QED BY <1>1, <2>1 DEF WaitInv, Reading
<1>5. CASE SendPacket(t) \/ SendBody(t)
  <2>1. PICK item \in Item : ClientPut(item)
    <3>1. call[t].id \in 0 .. MaxCalls /\ call[t].code \in Nat /\ call[t].size \in Nat
      BY CodesAssumption DEF IInv, TypeOK, CallRecord
    <3> QED BY <1>5, <3>1, ItemTypes DEF SendPacket, SendBody
  <2>2. Intact' => UpLen' # 0 /\ Intact
    BY <2>1, ClientPutFacts, LengthTypes DEF IInv, Intact
  <2>3. Intact => spc # "ack"
    <3>1. Phase = pc[t] /\ pc[t] \in {"packet", "body"}
      BY <1>5, Holder DEF SendPacket, SendBody, Busy
    <3> QED BY <3>1 DEF IInv, UpInv, UpClient, Resting
  <2> QED BY <1>1, <2>2, <2>3 DEF WaitInv
<1>6. CASE RecvResult(t) \/ RecvPayload(t) \/ RecvAck(t)
  <2>1. ClientTake /\ pc[t] \in Reading /\ pc[t] \in Busy
    BY <1>6 DEF RecvResult, RecvPayload, RecvAck, Reading, Busy
  <2>2. mutex = t /\ Phase = pc[t]
    BY <2>1, Holder
  <2>3. /\ DownLen \in Nat /\ DownLen # 0 /\ DownLen' = DownLen - 1 /\ Head(s2c) = s2c[1]
        /\ \A k \in 1 .. DownLen' : s2c'[k] = s2c[k + 1]
        /\ UpLen' = UpLen /\ Intact' = Intact
    BY <2>1, ClientTakeFacts DEF IInv, Intact
  <2>4. \/ Phase' = "idle"
        \/ /\ Phase \in {"result", "payload"} /\ (s2c[1].code # kControlCodeReject \/ Phase = "payload")
           /\ Phase' = IF Phase = "result" /\ s2c[1].size # 0 THEN "payload" ELSE "ack"
    BY <1>6, <2>2, <2>3, ThreadsAssumption
    DEF RecvResult, RecvPayload, RecvAck, Finish, Phase, IInv, TypeOK
  <2>5. CASE Phase' = "idle"
    BY <1>1, <2>5 DEF WaitInv, Reading
  <2>6. CASE Phase' # "idle"
    <3>1. Framed(Phase, DownLen, s2c)
      BY DEF IInv, DownInv
    <3>2. Complete(Phase, DownLen, s2c) => Complete(Phase', DownLen', s2c')
      BY <2>3, <2>4, <2>6, <3>1, CompleteTail
    <3>3. Phase' # "result" /\ Phase \in Reading
      BY <2>4, <2>6 DEF Reading
    <3> QED BY <1>1, <2>3, <3>2, <3>3 DEF WaitInv
  <2> QED BY <2>5, <2>6
<1> QED BY <1>2, <1>3, <1>4, <1>5, <1>6 DEF ClientStep

\* An acknowledgement completes an answer.
LEMMA AckCompletes ==
    ASSUME NEW p, NEW n \in Nat, NEW s, NEW r, NEW ack,
           ResultSent(p, n, s) \/ (p = "result" /\ n = 0 /\ ack.code = kControlCodeReject),
           r[n + 1] = ack, \A k \in 1 .. n : r[k] = s[k]
    PROVE  Complete(p, n + 1, r)
BY DEF ResultSent, Complete

LEMMA ServerWaits ==
    ASSUME ResultsHandled, IInv, WaitInv, ServerStep \/ Release
    PROVE  WaitInv'
<1>1. Phase' = Phase
  BY DEF ServerStep, RecvPacket, RecvBody, Ignore, Run, Refuse, Evaluated, SendResult, SendPayload,
         SendAck, ServerError, ServerPipe, ServerDies, Release, clientVars, Phase
<1>2. CASE RecvPacket
  <2>1. UpLen # 0 /\ Head(c2s) = c2s[1]
    BY <1>2, ServerTakeFacts DEF RecvPacket, IInv
  <2>2. req' = c2s[1] /\ c2s[1].code \in Codes /\ spc' \in {"body", "eval"}
    BY <1>2, <2>1 DEF RecvPacket, IInv, UpInv, UpRecv
  <2> QED BY <2>2 DEF WaitInv
<1>3. CASE RecvBody
  BY <1>3 DEF RecvBody, WaitInv
<1>4. CASE Ignore \/ Run \/ Refuse
  <2>1. spc' = "ack" /\ UNCHANGED <<s2c, csock, ssock>>
    BY <1>4 DEF Ignore, Run, Refuse, Evaluated, netVars
  <2>2. DownLen' = DownLen /\ Intact' = Intact
    BY <2>1 DEF DownLen, Intact
  <2>3. Intact /\ Phase = "result" /\ DownLen = 0 => verdict' = kControlCodeReject
    <3>1. CASE Refuse
      BY <3>1 DEF Refuse, Evaluated
    <3>2. CASE Ignore
      <4>1. spc = "eval" /\ ~YieldsResult(req.code)
        BY <3>2 DEF Ignore, WaitInv, ResultsHandled
      <4> QED BY <4>1 DEF IInv, DownInv, FirstAnswer
    <3>3. CASE Run
      BY <3>3 DEF Run, AtReturn, IInv, DownInv, FirstAnswer, ResultSent
    <3> QED BY <1>4, <3>1, <3>2, <3>3
  <2> QED BY <1>1, <2>1, <2>2, <2>3 DEF WaitInv
<1>5. CASE SendResult \/ SendPayload
  <2>1. spc' \in {"payload", "tail"}
    BY <1>5 DEF SendResult, SendPayload
  <2> QED BY <2>1 DEF WaitInv
<1>6. CASE SendAck
  <2> DEFINE ack == PacketItem(req.id, verdict, 0)
  <2>1. spc = "ack" /\ spc' = "recv" /\ ServerPut(ack)
    BY <1>6 DEF SendAck
  <2>2. ack \in Item /\ ack.code = verdict
    BY ItemTypes, ConstantTypes DEF IInv, TypeOK, Item, PacketItem
  <2>3. Intact' => /\ Intact /\ DownLen' = DownLen + 1 /\ s2c'[DownLen + 1] = ack
                   /\ \A k \in 1 .. DownLen : s2c'[k] = s2c[k]
    BY <2>1, <2>2, ServerPutFacts DEF IInv, Intact
  <2>4. Intact => \/ ResultSent(Phase, DownLen, s2c)
                  \/ Phase = "result" /\ DownLen = 0 /\ ack.code = kControlCodeReject
    BY <2>1, <2>2 DEF IInv, DownInv, WaitInv
  <2>5. DownLen \in Nat
    BY LengthTypes DEF IInv
  <2> HIDE DEF ack
  <2>6. Intact' => Complete(Phase, DownLen', s2c')
    BY <2>3, <2>4, <2>5, AckCompletes
  <2> QED BY <1>1, <2>1, <2>6 DEF WaitInv
<1>7. CASE ServerError \/ ServerPipe \/ Release
  <2>1. spc' \in {"dead", "killed", "released"}
    BY <1>7 DEF ServerError, ServerPipe, ServerDies, Release
  <2> QED BY <2>1 DEF WaitInv
<1> QED BY <1>2, <1>3, <1>4, <1>5, <1>6, <1>7 DEF ServerStep

LEMMA WaitKeeps ==
    ASSUME ResultsHandled, IInv, WaitInv, [Next]_vars
    PROVE  WaitInv'
<1>1. CASE \E t \in Threads : Lock(t) \/ Close(t) \/ ClientStep(t)
  BY <1>1, ClientWaits
<1>2. CASE ServerStep \/ Release
  BY <1>2, ServerWaits
<1>3. CASE Abort \/ KillServer
  <2>1. spc' \in {"dead", "killed"}
    BY <1>3 DEF Abort, KillServer, ServerDies
  <2> QED BY <2>1 DEF WaitInv
<1>4. CASE Reset \/ KillClient
  <2>1. ~Intact' /\ UNCHANGED <<spc, req>>
    BY <1>4 DEF Reset, KillClient, ClientDies, CloseClientEnd, Intact, serverVars
  <2> QED BY <2>1 DEF WaitInv
<1>5. CASE UNCHANGED vars
  <2>1. UNCHANGED <<spc, req, verdict, Phase, UpLen, DownLen, s2c, Intact>>
    BY <1>5 DEF vars, clientVars, serverVars, netVars, Phase, UpLen, DownLen, Intact
  <2> QED BY <2>1 DEF WaitInv
<1> QED BY <1>1, <1>2, <1>3, <1>4, <1>5 DEF Next, Proceed, Fault

LEMMA InvNoWait == IInv /\ WaitInv => NoMutualWait
<1> SUFFICES ASSUME IInv, WaitInv, csock = "open", ssock = "open" PROVE NoMutualWait
  BY DEF NoMutualWait
<1>1. Intact /\ (c2s = <<>> <=> UpLen = 0) /\ (s2c = <<>> <=> DownLen = 0)
  BY LengthTypes DEF Intact, IInv
<1>2. ASSUME NEW t \in Threads, pc[t] \in {"result", "payload", "ack"}, s2c = <<>>, c2s = <<>>
      PROVE  spc \notin {"recv", "body"}
  <2>1. Phase = pc[t] /\ Phase \in Reading
    BY <1>2, Holder DEF Busy, Reading
  <2>2. spc # "recv"
    BY <1>1, <1>2, <2>1 DEF WaitInv, Complete
  <2>3. spc # "body"
    BY <1>1, <1>2, <2>1 DEF IInv, UpInv, UpBody
  <2> QED BY <2>2, <2>3
<1>3. ASSUME spc = "body", c2s = <<>> PROVE \E t \in Threads : pc[t] = "body"
  <2>1. Phase = "body"
    BY <1>1, <1>3 DEF IInv, UpInv, UpBody
  <2> QED BY <2>1 DEF Phase, IInv, TypeOK
<1> QED BY <1>2, <1>3 DEF NoMutualWait

\* If every code that yields a result has a callback, a client and the server thread never
\* wait for each other on a connection that is up, with any number of threads and any
\* sizes: a wait that does not end needs a server thread that an exception has ended.
THEOREM NobodyWaits ==
    ASSUME ResultsHandled
    PROVE  Spec => []NoMutualWait
<1>1. Init => WaitInv
  BY DEF Init, WaitInv, Phase, Reading
<1>2. IInv /\ WaitInv /\ [Next]_vars => WaitInv'
  BY WaitKeeps
<1>3. IInv /\ WaitInv => NoMutualWait
  BY InvNoWait
<1> QED BY <1>1, <1>2, <1>3, Inductive, PTL DEF Spec

-----------------------------------------------------------------------------
(* The codes of stdsc_packet.hpp satisfy CodesAssumption.                   *)

\* The ranges that the comments of ControlCode_t set apart.
RequestCodes    == kControlCodeGroupRequest .. kControlCodeGroupRequest + 255
DataCodes       == kControlCodeGroupData .. kControlCodeGroupData + 255
DownloadCodes   == kControlCodeGroupDownload .. kControlCodeGroupDownload + 255
UpDownloadCodes == kControlCodeGroupUpDownload .. kControlCodeGroupUpDownload + 255

\* Which bits a code of a range has.
LEMMA GroupBits ==
    ASSUME NEW c \in Nat
    PROVE  /\ c < 512 => \A k \in {512, 1024, 2048, 4096} : ~HasBit(c, k)
           /\ c \in RequestCodes => HasBit(c, 512) /\ \A k \in {1024, 2048, 4096} : ~HasBit(c, k)
           /\ c \in DataCodes => HasBit(c, 1024) /\ \A k \in {512, 2048, 4096} : ~HasBit(c, k)
           /\ c \in DownloadCodes => HasBit(c, 2048) /\ \A k \in {512, 1024, 4096} : ~HasBit(c, k)
           /\ c \in UpDownloadCodes => HasBit(c, 4096) /\ \A k \in {512, 1024, 2048} : ~HasBit(c, k)
<1> USE DEF HasBit
<1>1. c < 512 => \A k \in {512, 1024, 2048, 4096} : c \div k = 0
  OBVIOUS
<1>2. c \in RequestCodes => c \div 512 = 1 /\ \A k \in {1024, 2048, 4096} : c \div k = 0
  BY DEF RequestCodes, kControlCodeGroupRequest
<1>3. c \in DataCodes => c \div 512 = 2 /\ c \div 1024 = 1 /\ \A k \in {2048, 4096} : c \div k = 0
  BY DEF DataCodes, kControlCodeGroupData
<1>4. c \in DownloadCodes => c \div 512 = 4 /\ c \div 1024 = 2 /\ c \div 2048 = 1 /\ c \div 4096 = 0
  BY DEF DownloadCodes, kControlCodeGroupDownload
<1>5. c \in UpDownloadCodes => c \div 512 = 8 /\ c \div 1024 = 4 /\ c \div 2048 = 2 /\ c \div 4096 = 1
  BY DEF UpDownloadCodes, kControlCodeGroupUpDownload
<1> QED BY <1>1, <1>2, <1>3, <1>4, <1>5

\* Whoever takes codes from the range of their group meets CodesAssumption: client and
\* server agree on whether a body follows, and no reserved code, Accept and Reject among
\* them, is the code of a call.
THEOREM RangesAreGroups ==
    /\ \A c \in 0 .. 511 : GroupOf(c) = "none"
    /\ \A c \in RequestCodes : GroupOf(c) = "request" /\ ~CarriesBody(c) /\ ~MayAnnounceBody(c)
    /\ \A c \in DataCodes : GroupOf(c) = "data" /\ CarriesBody(c) /\ MayAnnounceBody(c)
    /\ \A c \in DownloadCodes : GroupOf(c) = "download" /\ ~CarriesBody(c) /\ ~MayAnnounceBody(c)
    /\ \A c \in UpDownloadCodes : GroupOf(c) = "updownload" /\ CarriesBody(c) /\ MayAnnounceBody(c)
<1> USE DEF kControlCodeGroupRequest, kControlCodeGroupData, kControlCodeGroupDownload,
            kControlCodeGroupUpDownload
<1>1. /\ RequestCodes \subseteq Nat /\ DataCodes \subseteq Nat
      /\ DownloadCodes \subseteq Nat /\ UpDownloadCodes \subseteq Nat
  BY DEF RequestCodes, DataCodes, DownloadCodes, UpDownloadCodes
<1>2. ASSUME NEW c \in 0 .. 511 PROVE GroupOf(c) = "none"
  BY GroupBits DEF GroupOf
<1>3. ASSUME NEW c \in RequestCodes
      PROVE  GroupOf(c) = "request" /\ ~CarriesBody(c) /\ ~MayAnnounceBody(c)
  BY <1>1, GroupBits DEF GroupOf, CarriesBody, MayAnnounceBody
<1>4. ASSUME NEW c \in DataCodes
      PROVE  GroupOf(c) = "data" /\ CarriesBody(c) /\ MayAnnounceBody(c)
  BY <1>1, GroupBits DEF GroupOf, CarriesBody, MayAnnounceBody
<1>5. ASSUME NEW c \in DownloadCodes
      PROVE  GroupOf(c) = "download" /\ ~CarriesBody(c) /\ ~MayAnnounceBody(c)
  BY <1>1, GroupBits DEF GroupOf, CarriesBody, MayAnnounceBody
<1>6. ASSUME NEW c \in UpDownloadCodes
      PROVE  GroupOf(c) = "updownload" /\ CarriesBody(c) /\ MayAnnounceBody(c)
  BY <1>1, GroupBits DEF GroupOf, CarriesBody, MayAnnounceBody
<1> QED BY <1>2, <1>3, <1>4, <1>5, <1>6

=============================================================================
