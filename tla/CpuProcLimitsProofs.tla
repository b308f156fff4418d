------------------------- MODULE CpuProcLimitsProofs -------------------------
(***************************************************************************)
(* For every number of children of cpu_proc_limits: a NULL result means    *)
(* that every child was kicked and answered, end-of-file means that        *)
(* RUN_FUNC gave up, and no write meets a pipe without a reader.  The      *)
(* invariant says which process holds which pipe end at each stage.        *)
(***************************************************************************)
EXTENDS CpuProcLimits, TLAPS

Early == {"prepare", "pipe", "fork", "close"}
Running == {"start", "read", "write", "exit"}

\* Where RUN_FUNC is tells how many children there are.
ParentInv ==
    /\ pc = "prepare" => forks = 0
    /\ pc \in {"pipe", "fork"} => forks < proc_num
    /\ pc = "close" => 0 < forks /\ forks < proc_num
    /\ pc \in {"kick", "wait"} => forks = proc_num /\ next \in Children
    /\ pc \in Early => next = 0
    /\ pc \in Early \cup {"kick", "wait"} =>
           result = "none" /\ \A i \in Children : child[i] # "none" <=> i < forks
    /\ pc \in {"report", "gone"} => result # "none"

\* The ends that keep child i from end-of-file and RUN_FUNC's write from
\* SIGPIPE, and the other way round.
Held(i) == <<"p2c", i, W>> \in pfd /\ <<"c2p", i, R>> \in pfd
Owns(i) == <<"p2c", i, R>> \in cfd[i] /\ <<"c2p", i, W>> \in cfd[i]

Hold(i) ==
    /\ pc \in {"pipe", "fork", "close", "kick"} /\ i < forks => Held(i)
    /\ pc = "wait" /\ next <= i => Held(i)
    /\ child[i] \in Running => Owns(i)

HoldInv ==
    /\ \A i \in Children : Hold(i)
    /\ pc = "fork" => p2c(forks) \cup c2p(forks) \subseteq pfd

\* What the messages and the reads so far say about a child.
Msg(i) ==
    /\ got[i] = "none" <=> child[i] \in {"none", "start", "read"}
    /\ child[i] = "write" => got[i] = "data"
    /\ got[i] = "eof" => result = "error"
    /\ pc \in Early \/ result = "error" => kick[i] = 0 /\ got[i] # "data"
    /\ pc = "kick" /\ next <= i => kick[i] = 0 /\ got[i] = "none"
    /\ got[i] = "data" /\ child[i] \in {"exit", "gone"} => reply[i] > 0 \/ heard[i] = "data"
    /\ reply[i] > 0 \/ heard[i] # "none" => got[i] = "data" /\ child[i] \in {"exit", "gone"}
    /\ heard[i] # "none" => result = "NULL" \/ (pc = "wait" /\ i < next)
    /\ result = "NULL" \/ (pc = "wait" /\ i < next) => heard[i] = "data"

MsgInv == \A i \in Children : Msg(i)

IInv == TypeOK /\ ParentInv /\ HoldInv /\ MsgInv

LEMMA InitInv == Init => IInv
<1> SUFFICES ASSUME Init PROVE IInv
  OBVIOUS
<1> USE ProcAssumption DEF Init, Hold, Msg, Children, Early, Running
<1>1. TypeOK
  BY DEF TypeOK
<1>2. ParentInv
  BY DEF ParentInv
<1>3. HoldInv
  BY DEF HoldInv
<1>4. MsgInv
  BY DEF MsgInv
<1> QED
  BY <1>1, <1>2, <1>3, <1>4 DEF IInv

\* The reader of a kick is there: a child that was not kicked has not moved on.
LEMMA KickReader == IInv /\ pc = "kick" => next \in Children /\ Open(<<"p2c", next, R>>)
<1> SUFFICES ASSUME IInv, pc = "kick" PROVE next \in Children /\ Open(<<"p2c", next, R>>)
  OBVIOUS
<1>1. next \in Children /\ next < forks /\ child[next] # "none"
  BY ProcAssumption DEF IInv, TypeOK, ParentInv, Children, Early
<1>2. got[next] = "none"
  BY <1>1 DEF IInv, MsgInv, Msg, Children
<1>3. child[next] \in Running
  BY <1>1, <1>2 DEF IInv, MsgInv, Msg, Running
<1>4. Owns(next)
  BY <1>1, <1>3 DEF IInv, HoldInv, Hold
<1> QED
  BY <1>1, <1>4 DEF Owns, Open

\* A child that has not read yet, or not answered yet, is held by the parent
\* unless RUN_FUNC has failed.
LEMMA ChildHeld ==
    ASSUME IInv, NEW i \in Children, child[i] \in {"start", "read", "write"}, result # "error"
    PROVE  Held(i)
<1>1. heard[i] = "none"
  BY DEF IInv, TypeOK, MsgInv, Msg
<1>2. result = "none" /\ ~(pc = "wait" /\ i < next)
  BY <1>1 DEF IInv, TypeOK, MsgInv, Msg
<1>3. pc \in Early \cup {"kick", "wait"}
  BY <1>2 DEF IInv, TypeOK, ParentInv, Early
<1>4. i < forks
  BY <1>3 DEF IInv, ParentInv
<1>5. pc # "prepare"
  BY <1>4, ProcAssumption DEF IInv, ParentInv, Children
<1>6. next \in Int /\ i \in Int
  BY ProcAssumption DEF IInv, TypeOK, Children
<1> QED
  BY <1>2, <1>3, <1>4, <1>5, <1>6 DEF IInv, HoldInv, Hold, Early

\* The writer of an answer has a reader.
LEMMA WriteReader ==
    ASSUME IInv, NEW i \in Children, child[i] = "write"
    PROVE  Open(<<"c2p", i, R>>)
<1>1. result # "error"
  BY DEF IInv, MsgInv, Msg
<1> QED
  BY <1>1, ChildHeld DEF Held, Open

\* End-of-file reaches a reading child only after a failure.
LEMMA EofFailure ==
    ASSUME IInv, NEW i \in Children, child[i] = "read", ~Open(<<"p2c", i, W>>)
    PROVE  result = "error"
  BY ChildHeld DEF Held, Open

\* RUN_FUNC's read of an answer never returns end-of-file.
LEMMA WaitReply ==
    ASSUME IInv, pc = "wait", reply[next] > 0 \/ ~Open(<<"c2p", next, W>>)
    PROVE  next \in Children /\ reply[next] > 0
<1>1. next \in Children /\ child[next] # "none" /\ result = "none"
  BY ProcAssumption DEF IInv, TypeOK, ParentInv, Children, Early
<1>2. heard[next] = "none"
  BY <1>1, ProcAssumption DEF IInv, MsgInv, Msg, Children
<1>3. child[next] \in Running => Open(<<"c2p", next, W>>)
  BY <1>1 DEF IInv, HoldInv, Hold, Owns, Open
<1>4. ASSUME child[next] = "gone" PROVE reply[next] > 0
  BY <1>1, <1>2, <1>4 DEF IInv, TypeOK, MsgInv, Msg
<1> QED
  BY <1>1, <1>3, <1>4 DEF IInv, TypeOK, Running

\* The steps of RUN_FUNC.
LEMMA RunFuncInv == IInv /\ RunFunc => IInv'
<1> SUFFICES ASSUME IInv, RunFunc PROVE IInv'
  OBVIOUS
<1> USE ProcAssumption DEF Children, Early, Running
<1>1. CASE Prepare
  <2>1. TypeOK'
    BY <1>1 DEF Prepare, Return, IInv, TypeOK, ParentInv
  <2>2. ParentInv'
    BY <1>1 DEF Prepare, Return, IInv, TypeOK, ParentInv
  <2>3. HoldInv'
    <3>1. ASSUME NEW j \in Children PROVE Hold(j)'
      BY <1>1 DEF Prepare, Return, IInv, TypeOK, ParentInv, HoldInv, Hold, Held, Owns, p2c, c2p, R, W
    <3>2. (pc = "fork" => p2c(forks) \cup c2p(forks) \subseteq pfd)'
      BY <1>1 DEF Prepare, Return, IInv, HoldInv, p2c, c2p
    <3> QED
      BY <3>1, <3>2 DEF HoldInv
  <2>4. MsgInv'
    <3>1. ASSUME NEW j \in Children PROVE Msg(j)'
      BY <1>1 DEF Prepare, Return, IInv, TypeOK, ParentInv, MsgInv, Msg
    <3> QED
      BY <3>1 DEF MsgInv
  <2> QED
    BY <2>1, <2>2, <2>3, <2>4 DEF IInv
<1>2. CASE Pipe
  <2>1. TypeOK'
    BY <1>2 DEF Pipe, Return, IInv, TypeOK, ParentInv, Ends, p2c, c2p, R, W
  <2>2. ParentInv'
    BY <1>2 DEF Pipe, Return, IInv, TypeOK, ParentInv
  <2>3. HoldInv'
    <3>1. ASSUME NEW j \in Children PROVE Hold(j)'
      BY <1>2 DEF Pipe, Return, IInv, ParentEnds, TypeOK, ParentInv, HoldInv, Hold, Held, Owns, p2c, c2p, R, W
    <3>2. (pc = "fork" => p2c(forks) \cup c2p(forks) \subseteq pfd)'
      BY <1>2 DEF Pipe, Return, IInv, HoldInv, p2c, c2p
    <3> QED
      BY <3>1, <3>2 DEF HoldInv
  <2>4. MsgInv'
    <3>1. ASSUME NEW j \in Children PROVE Msg(j)'
      BY <1>2 DEF Pipe, Return, IInv, TypeOK, ParentInv, MsgInv, Msg
    <3> QED
      BY <3>1 DEF MsgInv
  <2> QED
    BY <2>1, <2>2, <2>3, <2>4 DEF IInv
<1>3. CASE Fork_ok
  <2>1. TypeOK'
    BY <1>3 DEF Fork_ok, IInv, TypeOK, ParentInv
  <2>2. ParentInv'
    BY <1>3 DEF Fork_ok, IInv, TypeOK, ParentInv
  <2>3. HoldInv'
    <3>1. ASSUME NEW j \in Children PROVE Hold(j)'
      <4>1. forks \in Children /\ Held(forks)
        BY <1>3 DEF Fork_ok, IInv, TypeOK, ParentInv, HoldInv, Held, p2c, c2p
      <4>2. j = forks => Owns(j)'
        BY <1>3, <4>1 DEF Fork_ok, IInv, TypeOK, HoldInv, Owns, p2c, c2p
      <4>3. j # forks => (Owns(j)' <=> Owns(j)) /\ child'[j] = child[j]
        BY <1>3, <4>1 DEF Fork_ok, IInv, TypeOK, Owns
      <4>4. Held(j)' <=> Held(j)
        BY <1>3 DEF Fork_ok, Held
      <4>5. j < forks' => Held(j)
        BY <1>3, <4>1 DEF Fork_ok, IInv, TypeOK, HoldInv, Hold
      <4>6. Hold(j) /\ pc' \in {"close", "kick"}
        BY <1>3 DEF Fork_ok, IInv, HoldInv
      <4> QED
        BY <4>2, <4>3, <4>4, <4>5, <4>6 DEF Hold
    <3>2. (pc = "fork" => p2c(forks) \cup c2p(forks) \subseteq pfd)'
      BY <1>3 DEF Fork_ok, IInv, HoldInv, p2c, c2p
    <3> QED
      BY <3>1, <3>2 DEF HoldInv
  <2>4. MsgInv'
    <3>1. ASSUME NEW j \in Children PROVE Msg(j)'
      BY <1>3 DEF Fork_ok, IInv, TypeOK, ParentInv, MsgInv, Msg
    <3> QED
      BY <3>1 DEF MsgInv
  <2> QED
    BY <2>1, <2>2, <2>3, <2>4 DEF IInv
<1>4. CASE Close
  <2>1. TypeOK'
    BY <1>4 DEF Close, IInv, TypeOK, ParentInv
  <2>2. ParentInv'
    BY <1>4 DEF Close, IInv, TypeOK, ParentInv
  <2>3. HoldInv'
    <3>1. ASSUME NEW j \in Children PROVE Hold(j)'
      <4>1. Held(j) => Held(j)'
        BY <1>4 DEF Close, Held, R, W
      <4>2. (Owns(j)' <=> Owns(j)) /\ Hold(j)
        BY <1>4 DEF Close, Owns, IInv, HoldInv
      <4> QED
        BY <1>4, <4>1, <4>2 DEF Close, Hold
    <3>2. (pc = "fork" => p2c(forks) \cup c2p(forks) \subseteq pfd)'
      BY <1>4 DEF Close, IInv, HoldInv, p2c, c2p
    <3> QED
      BY <3>1, <3>2 DEF HoldInv
  <2>4. MsgInv'
    <3>1. ASSUME NEW j \in Children PROVE Msg(j)'
      BY <1>4 DEF Close, IInv, TypeOK, ParentInv, MsgInv, Msg
    <3> QED
      BY <3>1 DEF MsgInv
  <2> QED
    BY <2>1, <2>2, <2>3, <2>4 DEF IInv
<1>5. CASE Fork_fails
  <2>1. TypeOK'
    BY <1>5 DEF Fork_fails, Return, IInv, TypeOK, ParentInv
  <2>2. ParentInv'
    BY <1>5 DEF Fork_fails, Return, IInv, TypeOK, ParentInv
  <2>3. HoldInv'
    <3>1. ASSUME NEW j \in Children PROVE Hold(j)'
      BY <1>5 DEF Fork_fails, Return, IInv, ParentEnds, TypeOK, ParentInv, HoldInv, Hold, Held, Owns, p2c, c2p, R, W
    <3>2. (pc = "fork" => p2c(forks) \cup c2p(forks) \subseteq pfd)'
      BY <1>5 DEF Fork_fails, Return, IInv, HoldInv, p2c, c2p
    <3> QED
      BY <3>1, <3>2 DEF HoldInv
  <2>4. MsgInv'
    <3>1. ASSUME NEW j \in Children PROVE Msg(j)'
      BY <1>5 DEF Fork_fails, Return, IInv, TypeOK, ParentInv, MsgInv, Msg
    <3> QED
      BY <3>1 DEF MsgInv
  <2> QED
    BY <2>1, <2>2, <2>3, <2>4 DEF IInv
<1>6. CASE Kick
  <2>a. /\ next \in Children
        /\ kick' = [kick EXCEPT ![next] = @ + 1]
        /\ \/ next + 1 < proc_num /\ next' = next + 1 /\ pc' = pc
           \/ next + 1 = proc_num /\ next' = 0 /\ pc' = "wait"
        /\ UNCHANGED <<child, forks, pfd, cfd, reply, got, heard, result>>
    BY <1>6, KickReader DEF Kick, Children
  <2>b. pc = "kick"
    BY <1>6 DEF Kick
  <2>1. TypeOK'
    <3>1. pc' \in {"kick", "wait"}
      BY <2>a, <2>b
    <3>2. next' = 0 \/ next' \in Children
      BY <2>a, ProcAssumption DEF Children
    <3>3. kick' \in [Children -> Nat]
      <4>1. kick \in [Children -> Nat] /\ kick[next] + 1 \in Nat
        BY <2>a, SMTT(30) DEF IInv, TypeOK
      <4> QED
        BY <2>a, <4>1
    <3> QED
      BY <2>a, <3>1, <3>2, <3>3 DEF IInv, TypeOK
  <2>2. ParentInv'
    <3>1. pc' \in {"kick", "wait"} /\ next' \in Children
      BY <2>a, <2>b, ProcAssumption DEF Children
    <3>2. forks = proc_num /\ result = "none" /\ \A k \in Children : child[k] # "none" <=> k < forks
      BY <2>b DEF IInv, ParentInv
    <3> QED
      BY <2>a, <3>1, <3>2 DEF ParentInv, Early
  <2>3. HoldInv'
    <3>1. ASSUME NEW j \in Children PROVE Hold(j)'
      <4>1. (Held(j)' <=> Held(j)) /\ (Owns(j)' <=> Owns(j)) /\ Hold(j)
        BY <2>a DEF Held, Owns, IInv, HoldInv
      <4>2. pc = "kick" /\ j < forks
        BY <2>b DEF IInv, ParentInv
      <4> QED
        BY <2>a, <4>1, <4>2 DEF Hold
    <3>2. (pc = "fork" => p2c(forks) \cup c2p(forks) \subseteq pfd)'
      BY <2>a, <2>b DEF IInv, HoldInv, p2c, c2p
    <3> QED
      BY <3>1, <3>2 DEF HoldInv
  <2>4. MsgInv'
    <3>1. ASSUME NEW j \in Children PROVE Msg(j)'
      BY <2>a, <2>b DEF IInv, TypeOK, ParentInv, MsgInv, Msg
    <3> QED
      BY <3>1 DEF MsgInv
  <2> QED
    BY <2>1, <2>2, <2>3, <2>4 DEF IInv
<1>7. CASE Wait
  <2>a. /\ next \in Children /\ reply[next] > 0
        /\ heard' = [heard EXCEPT ![next] = "data"]
        /\ reply' = [reply EXCEPT ![next] = 0]
        /\ pfd' = pfd \ {<<"p2c", next, W>>, <<"c2p", next, R>>}
        /\ \/ next + 1 < proc_num /\ next' = next + 1 /\ pc' = pc /\ result' = result
           \/ next + 1 = proc_num /\ next' = 0 /\ pc' = "report" /\ result' = "NULL"
        /\ UNCHANGED <<child, forks, cfd, kick, got>>
    <3>1. next \in Children /\ reply[next] > 0
      BY <1>7, WaitReply DEF Wait
    <3>2. heard' = [heard EXCEPT ![next] = "data"]
      BY <1>7, <3>1 DEF Wait
    <3>3. \/ next + 1 < proc_num /\ next' = next + 1 /\ pc' = pc /\ result' = result
          \/ next + 1 = proc_num /\ next' = 0 /\ pc' = "report" /\ result' = "NULL"
      BY <1>7, <3>1 DEF Wait, Return
    <3>4. /\ reply' = [reply EXCEPT ![next] = 0]
          /\ pfd' = pfd \ {<<"p2c", next, W>>, <<"c2p", next, R>>}
          /\ UNCHANGED <<child, forks, cfd, kick, got>>
      BY <1>7 DEF Wait
    <3> QED
      BY <3>1, <3>2, <3>3, <3>4
  <2>b. pc = "wait"
    BY <1>7 DEF Wait
  <2>1. TypeOK'
    <3>1. /\ pc' \in {"prepare", "pipe", "fork", "close", "kick", "wait", "report", "gone"}
          /\ result' \in {"none", "NULL", "error"}
      BY <2>a, <2>b DEF IInv, TypeOK
    <3>2. next' = 0 \/ next' \in Children
      BY <2>a, ProcAssumption DEF Children
    <3>3. heard' \in [Children -> {"none", "data", "eof"}]
      BY <2>a DEF IInv, TypeOK
    <3>4. reply' \in [Children -> Nat]
      BY <2>a DEF IInv, TypeOK
    <3>5. pfd' \subseteq Ends
      BY <2>a DEF IInv, TypeOK
    <3> QED
      BY <2>a, <3>1, <3>2, <3>3, <3>4, <3>5 DEF IInv, TypeOK
  <2>2. ParentInv'
    BY <2>a, <2>b DEF IInv, TypeOK, ParentInv
  <2>3. HoldInv'
    <3>1. ASSUME NEW j \in Children PROVE Hold(j)'
      <4>1. (Owns(j)' <=> Owns(j)) /\ Hold(j)
        BY <2>a DEF Owns, IInv, HoldInv
      <4>2. j # next /\ Held(j) => Held(j)'
        BY <2>a DEF Held
      <4>3. pc' = "wait" /\ next' <= j => next <= j /\ j # next
        BY <2>a, <2>b
      <4> QED
        BY <2>a, <2>b, <4>1, <4>2, <4>3 DEF Hold
    <3>2. (pc = "fork" => p2c(forks) \cup c2p(forks) \subseteq pfd)'
      BY <2>a, <2>b DEF IInv, HoldInv, p2c, c2p
    <3> QED
      BY <3>1, <3>2 DEF HoldInv
  <2>4. MsgInv'
    <3>1. ASSUME NEW j \in Children PROVE Msg(j)'
      BY <2>a, <2>b, SMTT(30) DEF IInv, TypeOK, ParentInv, MsgInv, Msg
    <3> QED
      BY <3>1 DEF MsgInv
  <2> QED
    BY <2>1, <2>2, <2>3, <2>4 DEF IInv
<1>8. CASE Report
  <2>1. TypeOK'
    BY <1>8 DEF Report, IInv, TypeOK, ParentInv
  <2>2. ParentInv'
    BY <1>8 DEF Report, IInv, TypeOK, ParentInv
  <2>3. HoldInv'
    <3>1. ASSUME NEW j \in Children PROVE Hold(j)'
      BY <1>8 DEF Report, IInv, TypeOK, ParentInv, HoldInv, Hold, Held, Owns, p2c, c2p, R, W
    <3>2. (pc = "fork" => p2c(forks) \cup c2p(forks) \subseteq pfd)'
      BY <1>8 DEF Report, IInv, HoldInv, p2c, c2p
    <3> QED
      BY <3>1, <3>2 DEF HoldInv
  <2>4. MsgInv'
    <3>1. ASSUME NEW j \in Children PROVE Msg(j)'
      BY <1>8 DEF Report, IInv, TypeOK, ParentInv, MsgInv, Msg
    <3> QED
      BY <3>1 DEF MsgInv
  <2> QED
    BY <2>1, <2>2, <2>3, <2>4 DEF IInv
<1> QED
  BY <1>1, <1>2, <1>3, <1>4, <1>5, <1>6, <1>7, <1>8 DEF RunFunc

\* The steps of a child.
LEMMA ChildInv == ASSUME NEW i \in Children, IInv, Child(i) PROVE IInv'
<1> USE ProcAssumption DEF Children, Early, Running
<1>1. CASE Child_start(i)
  <2>1. TypeOK'
    BY <1>1 DEF Child_start, IInv, TypeOK, ParentInv
  <2>2. ParentInv'
    BY <1>1 DEF Child_start, IInv, TypeOK, ParentInv
  <2>3. HoldInv'
    <3>1. ASSUME NEW j \in Children PROVE Hold(j)'
      <4>1. Held(j)' <=> Held(j)
        BY <1>1 DEF Child_start, Held
      <4>2. Owns(j) => Owns(j)'
        <5>1. cfd'[j] = IF j = i THEN cfd[i] \ {<<"p2c", i, W>>, <<"c2p", i, R>>} ELSE cfd[j]
          BY <1>1 DEF Child_start, IInv, TypeOK
        <5> QED
          BY <5>1 DEF Owns, R, W
      <4>3. Hold(j) /\ (child'[j] \in Running => child[j] \in Running)
        BY <1>1 DEF Child_start, IInv, TypeOK, HoldInv
      <4> QED
        BY <1>1, <4>1, <4>2, <4>3 DEF Child_start, Hold
    <3>2. (pc = "fork" => p2c(forks) \cup c2p(forks) \subseteq pfd)'
      BY <1>1 DEF Child_start, IInv, HoldInv, p2c, c2p
    <3> QED
      BY <3>1, <3>2 DEF HoldInv
  <2>4. MsgInv'
    <3>1. ASSUME NEW j \in Children PROVE Msg(j)'
      BY <1>1 DEF Child_start, IInv, TypeOK, ParentInv, MsgInv, Msg
    <3> QED
      BY <3>1 DEF MsgInv
  <2> QED
    BY <2>1, <2>2, <2>3, <2>4 DEF IInv
<1>2. CASE Child_read(i)
  <2>a. /\ \/ /\ kick[i] > 0
              /\ got' = [got EXCEPT ![i] = "data"]
              /\ kick' = [kick EXCEPT ![i] = @ - 1]
              /\ child' = [child EXCEPT ![i] = "write"]
           \/ /\ kick[i] = 0 /\ result = "error"
              /\ got' = [got EXCEPT ![i] = "eof"]
              /\ child' = [child EXCEPT ![i] = "exit"]
              /\ kick' = kick
        /\ UNCHANGED <<pc, forks, next, pfd, cfd, reply, heard, result>>
    BY <1>2, EofFailure DEF Child_read
  <2>b. child[i] = "read"
    BY <1>2 DEF Child_read
  <2>1. TypeOK'
    <3>1. kick[i] > 0 => kick[i] - 1 \in Nat
      BY DEF IInv, TypeOK
    <3>2. kick' \in [Children -> Nat]
      BY <2>a, <3>1 DEF IInv, TypeOK
    <3>3. /\ got' \in [Children -> {"none", "data", "eof"}]
          /\ child' \in [Children -> {"none", "start", "read", "write", "exit", "gone"}]
      BY <2>a DEF IInv, TypeOK
    <3> QED
      BY <2>a, <3>2, <3>3 DEF IInv, TypeOK
  <2>2. ParentInv'
    BY <2>a, <2>b DEF IInv, TypeOK, ParentInv
  <2>3. HoldInv'
    <3>1. ASSUME NEW j \in Children PROVE Hold(j)'
      BY <2>a, <2>b DEF IInv, TypeOK, ParentInv, HoldInv, Hold, Held, Owns, p2c, c2p, R, W
    <3>2. (pc = "fork" => p2c(forks) \cup c2p(forks) \subseteq pfd)'
      BY <2>a, <2>b DEF IInv, HoldInv, p2c, c2p
    <3> QED
      BY <3>1, <3>2 DEF HoldInv
  <2>4. MsgInv'
    <3>1. ASSUME NEW j \in Children PROVE Msg(j)'
      <4>1. Msg(j)
        BY DEF IInv, MsgInv
      <4>2. CASE j # i
        <5>1. UNCHANGED <<child[j], got[j], kick[j], reply[j], heard[j], pc, next, result>>
          BY <2>a, <4>2 DEF IInv, TypeOK
        <5> QED
          BY <4>1, <5>1 DEF Msg
      <4>3. CASE j = i
        <5>1. UNCHANGED <<reply, heard, pc, next, result>>
          BY <2>a
        <5>2. reply[i] = 0 /\ heard[i] = "none"
          BY <2>b, <4>1, <4>3 DEF IInv, TypeOK, Msg
        <5>3. CASE kick[i] > 0 /\ got'[i] = "data" /\ child'[i] = "write"
          <6>1. ~(pc \in Early \/ result = "error") /\ ~(pc = "kick" /\ next <= i)
            BY <4>1, <4>3, <5>3 DEF Msg
          <6> QED
            BY <2>b, <4>1, <4>3, <5>1, <5>2, <5>3, <6>1 DEF Msg
        <5>4. CASE result = "error" /\ got'[i] = "eof" /\ child'[i] = "exit" /\ kick' = kick
          <6>1. ~(pc = "kick" /\ next <= i)
            BY <5>4 DEF IInv, ParentInv
          <6> QED
            BY <2>b, <4>1, <4>3, <5>1, <5>2, <5>4, <6>1 DEF Msg
        <5> QED
          BY <2>a, <5>3, <5>4 DEF IInv, TypeOK
      <4> QED
        BY <4>2, <4>3
    <3> QED
      BY <3>1 DEF MsgInv
  <2> QED
    BY <2>1, <2>2, <2>3, <2>4 DEF IInv
<1>3. CASE Child_write(i)
  <2>a. /\ reply' = [reply EXCEPT ![i] = @ + 1]
        /\ child' = [child EXCEPT ![i] = "exit"]
        /\ UNCHANGED <<pc, forks, next, pfd, cfd, kick, got, heard, result>>
    BY <1>3, WriteReader DEF Child_write
  <2>b. child[i] = "write"
    BY <1>3 DEF Child_write
  <2>1. TypeOK'
    BY <2>a, <2>b DEF IInv, TypeOK, ParentInv
  <2>2. ParentInv'
    BY <2>a, <2>b DEF IInv, TypeOK, ParentInv
  <2>3. HoldInv'
    <3>1. ASSUME NEW j \in Children PROVE Hold(j)'
      BY <2>a, <2>b DEF IInv, TypeOK, ParentInv, HoldInv, Hold, Held, Owns, p2c, c2p, R, W
    <3>2. (pc = "fork" => p2c(forks) \cup c2p(forks) \subseteq pfd)'
      BY <2>a, <2>b DEF IInv, HoldInv, p2c, c2p
    <3> QED
      BY <3>1, <3>2 DEF HoldInv
  <2>4. MsgInv'
    <3>1. ASSUME NEW j \in Children PROVE Msg(j)'
      BY <2>a, <2>b DEF IInv, TypeOK, ParentInv, MsgInv, Msg
    <3> QED
      BY <3>1 DEF MsgInv
  <2> QED
    BY <2>1, <2>2, <2>3, <2>4 DEF IInv
<1>4. CASE Child_exit(i)
  <2>1. TypeOK'
    BY <1>4 DEF Child_exit, IInv, TypeOK, ParentInv
  <2>2. ParentInv'
    BY <1>4 DEF Child_exit, IInv, TypeOK, ParentInv
  <2>3. HoldInv'
    <3>1. ASSUME NEW j \in Children PROVE Hold(j)'
      BY <1>4 DEF Child_exit, IInv, TypeOK, ParentInv, HoldInv, Hold, Held, Owns, p2c, c2p, R, W
    <3>2. (pc = "fork" => p2c(forks) \cup c2p(forks) \subseteq pfd)'
      BY <1>4 DEF Child_exit, IInv, HoldInv, p2c, c2p
    <3> QED
      BY <3>1, <3>2 DEF HoldInv
  <2>4. MsgInv'
    <3>1. ASSUME NEW j \in Children PROVE Msg(j)'
      BY <1>4 DEF Child_exit, IInv, TypeOK, ParentInv, MsgInv, Msg
    <3> QED
      BY <3>1 DEF MsgInv
  <2> QED
    BY <2>1, <2>2, <2>3, <2>4 DEF IInv
<1> QED
  BY <1>1, <1>2, <1>3, <1>4 DEF Child

LEMMA Inductive == Spec => []IInv
<1>1. IInv /\ [Next]_vars => IInv'
  <2> SUFFICES ASSUME IInv, [Next]_vars PROVE IInv'
    OBVIOUS
  <2>1. CASE UNCHANGED vars
    BY <2>1 DEF vars, IInv, TypeOK, ParentInv, HoldInv, Hold, Held, Owns, MsgInv, Msg
  <2>2. CASE Next
    BY <2>1, <2>2, RunFuncInv, ChildInv DEF Next, Finished
  <2> QED
    BY <2>1, <2>2
<1> QED
  BY InitInv, <1>1, PTL DEF Spec

\* RUN_FUNC returns NULL only if every child was kicked and answered, for
\* every proc_num.
THEOREM ProcsAllAnswered == Spec => []OkMeansAllAnswered
<1>1. IInv => OkMeansAllAnswered
  BY DEF IInv, MsgInv, Msg, OkMeansAllAnswered
<1> QED
  BY Inductive, <1>1, PTL

\* A child reads end-of-file only after RUN_FUNC has failed, and RUN_FUNC never does.
THEOREM ProcsEofMeansGivenUp == Spec => []EofMeansGivenUp
<1>1. IInv => EofMeansGivenUp
  BY DEF IInv, MsgInv, Msg, EofMeansGivenUp
<1> QED
  BY Inductive, <1>1, PTL

\* Every write of RUN_FUNC and of a child finds a reader.
THEOREM ProcsNoSigpipe == Spec => []NoSigpipe
<1>1. IInv => NoSigpipe
  <2> SUFFICES ASSUME IInv PROVE NoSigpipe
    OBVIOUS
  <2>1. pc = "kick" => Open(<<"p2c", next, R>>)
    BY KickReader
  <2>2. \A i \in Children : child[i] = "write" => Open(<<"c2p", i, R>>)
    BY WriteReader
  <2> QED
    BY <2>1, <2>2 DEF NoSigpipe
<1> QED
  BY Inductive, <1>1, PTL

\* A step of RUN_FUNC is a child's arrival, the verdict, or nothing to the rendezvous.
LEMMA RunFuncMeets == IInv /\ RunFunc => [Meeting!Next]_(Meeting!vars)
<1> SUFFICES ASSUME IInv, RunFunc PROVE [Meeting!Next]_(Meeting!vars)
  OBVIOUS
<1>a. ASSUME UNCHANGED <<child, got, result>> PROVE UNCHANGED Meeting!vars
  BY <1>a DEF Meeting!vars
<1>b. ASSUME pc \in Early, UNCHANGED <<child, got>>, result' = "error" PROVE Meeting!GiveUp
  <2>1. {i \in Children : got[i] = "data"} = {}
    BY <1>b DEF IInv, MsgInv, Msg
  <2>2. result = "none"
    BY <1>b DEF IInv, ParentInv
  <2> QED
    BY <1>b, <2>1, <2>2 DEF Meeting!GiveUp
<1>1. CASE Prepare
  BY <1>1, <1>a, <1>b DEF Prepare, Return, Early, Meeting!Next
<1>2. CASE Pipe
  BY <1>2, <1>a, <1>b DEF Pipe, Return, Early, Meeting!Next
<1>3. CASE Fork_ok
  <2>1. forks \in Children /\ child[forks] = "none"
    BY <1>3, ProcAssumption DEF Fork_ok, IInv, TypeOK, ParentInv, Children, Early
  <2>2. {i \in Children : child'[i] # "none"} = {i \in Children : child[i] # "none"} \cup {forks}
    BY <1>3, <2>1 DEF Fork_ok, IInv, TypeOK
  <2> QED
    BY <1>3, <2>1, <2>2 DEF Fork_ok, Meeting!Arrive, Meeting!Next
<1>4. CASE Close
  BY <1>4, <1>a DEF Close
<1>5. CASE Fork_fails
  BY <1>5, <1>b DEF Fork_fails, Return, Early, Meeting!Next
<1>6. CASE Kick
  BY <1>6, <1>a DEF Kick
<1>7. CASE Wait
  <2>1. CASE result' = result
    BY <1>7, <1>a, <2>1 DEF Wait
  <2>2. CASE result' = "NULL"
    <3>1. {i \in Children : got[i] = "data"} = Children
      <4>1. \A i \in Children : heard'[i] = "data"
        BY <2>2, RunFuncInv DEF IInv, MsgInv, Msg
      <4>2. \A i \in Children : got'[i] = "data"
        BY <4>1, RunFuncInv DEF IInv, MsgInv, Msg
      <4> QED
        BY <1>7, <4>2 DEF Wait
    <3>2. result = "none"
      BY <1>7 DEF Wait, IInv, ParentInv
    <3> QED
      BY <1>7, <2>2, <3>1, <3>2 DEF Wait, Meeting!Succeed, Meeting!Next
  <2> QED
    BY <1>7, <2>1, <2>2 DEF Wait, Return
<1>8. CASE Report
  BY <1>8, <1>a DEF Report
<1> QED
  BY <1>1, <1>2, <1>3, <1>4, <1>5, <1>6, <1>7, <1>8 DEF RunFunc

\* A child is let go by reading its kick; its other steps do not show.
LEMMA ChildMeets == ASSUME NEW i \in Children, IInv, Child(i) PROVE [Meeting!Next]_(Meeting!vars)
<1>a. ASSUME child[i] # "none", NEW s, s # "none", child' = [child EXCEPT ![i] = s]
      PROVE  {j \in Children : child'[j] # "none"} = {j \in Children : child[j] # "none"}
  BY <1>a DEF IInv, TypeOK
<1>1. CASE Child_start(i)
  BY <1>1, <1>a DEF Child_start, Meeting!vars
<1>2. CASE Child_read(i)
  <2>0. /\ {j \in Children : child'[j] # "none"} = {j \in Children : child[j] # "none"}
        /\ result' = result
    BY <1>2, <1>a DEF Child_read
  <2>1. CASE got' = [got EXCEPT ![i] = "eof"]
    <3>1. got[i] = "none"
      BY <1>2 DEF Child_read, IInv, MsgInv, Msg
    <3>2. {j \in Children : got'[j] = "data"} = {j \in Children : got[j] = "data"}
      BY <2>1, <3>1 DEF IInv, TypeOK
    <3> QED
      BY <2>0, <3>2 DEF Meeting!vars
  <2>2. CASE kick[i] > 0 /\ got' = [got EXCEPT ![i] = "data"]
    <3>1. got[i] = "none" /\ heard[i] = "none"
      BY <1>2 DEF Child_read, IInv, TypeOK, MsgInv, Msg
    <3>2. pc \notin Early /\ result = "none"
      BY <2>2, <3>1 DEF IInv, TypeOK, MsgInv, Msg
    <3>3. pc \in {"kick", "wait"}
      BY <3>2 DEF IInv, TypeOK, ParentInv, Early
    <3>4. {j \in Children : child[j] # "none"} = Children
      BY <3>3, ProcAssumption DEF IInv, ParentInv, Children
    <3>5. {j \in Children : got'[j] = "data"} = {j \in Children : got[j] = "data"} \cup {i}
      BY <2>2 DEF IInv, TypeOK
    <3> QED
      BY <2>0, <3>1, <3>2, <3>4, <3>5 DEF Meeting!Release, Meeting!Next
  <2> QED
    BY <1>2, <2>1, <2>2 DEF Child_read
<1>3. CASE Child_write(i)
  BY <1>3, <1>a DEF Child_write, Meeting!vars
<1>4. CASE Child_exit(i)
  BY <1>4, <1>a DEF Child_exit, Meeting!vars
<1> QED
  BY <1>1, <1>2, <1>3, <1>4 DEF Child

\* cpu_proc_limits implements the rendezvous of its children, for every proc_num:
\* none reads a kick before all were forked, NULL is returned after all have, and a
\* test that gives up has kicked nobody.
THEOREM ProcsImplementMeeting == Spec => ProcsMeet
<1>1. Init => Meeting!Init
  BY DEF Init, Meeting!Init
<1>2. IInv /\ [Next]_vars => [Meeting!Next]_(Meeting!vars)
  <2> SUFFICES ASSUME IInv, [Next]_vars PROVE [Meeting!Next]_(Meeting!vars)
    OBVIOUS
  <2>1. CASE UNCHANGED vars
    BY <2>1 DEF vars, Meeting!vars
  <2>2. CASE Next
    BY <2>1, <2>2, RunFuncMeets, ChildMeets DEF Next, Finished
  <2> QED
    BY <2>1, <2>2
<1> QED
  BY Inductive, <1>1, <1>2, PTL DEF Spec, ProcsMeet, Meeting!Spec
=============================================================================
