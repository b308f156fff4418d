------------------------ MODULE ReadWriteThreadsProofs ------------------------
(***************************************************************************)
(* For every number of threads of lv07_read-write_with-glibc: the lines    *)
(* come out in the order of the thread numbers, a thread without the file  *)
(* holds all others in the first round, and every round of the barrier is  *)
(* a rendezvous.  The invariant says how far a thread can be from the      *)
(* barrier's round.                                                        *)
(***************************************************************************)
EXTENDS ReadWriteThreads, FiniteSetTheorems, TLAPS

\* A thread inside the barrier is in the current round or has not left the last one
\* yet; one outside is level with the barrier.
Level(t) ==
    /\ at[t] = "in" => i[t] < thread_num /\ (i[t] = round \/ i[t] + 1 = round)
    /\ at[t] = "loop" => i[t] = round
    /\ at[t] = "done" => i[t] = thread_num /\ round = thread_num
    /\ at[t] \in {"none", "start", "failed"} => i[t] = 0 /\ round = 0
    /\ t \in inside <=> at[t] = "in" /\ i[t] = round

LevelInv == \A t \in Ids : Level(t)

\* A line is out exactly from the thread's turn on.
Said(t) ==
    /\ t \in printed => t <= i[t]
    /\ t < i[t] => t \in printed
    /\ at[t] = "in" /\ i[t] = t => t \in printed

SaidInv == \A t \in Ids : Said(t)

\* The create and join loops of main.
LoopInv ==
    /\ pc = "setup" => ith = 1
    /\ pc \in {"setup", "create"} => \A t \in Ids : t = 0 \/ ith <= t => at[t] = "none"
    /\ pc = "join" => \A t \in Ids : t < ith => Ended(t)

IInv == TypeOK /\ LevelInv /\ SaidInv /\ LoopInv

LEMMA Zero == 0 \in Ids
  BY ThreadNumAssumption DEF Ids

LEMMA InitInv == Init => IInv
<1> SUFFICES ASSUME Init PROVE IInv
  OBVIOUS
<1> USE ThreadNumAssumption DEF Init
<1>1. TypeOK
  BY DEF TypeOK, Ids
<1>2. LevelInv
  BY DEF LevelInv, Level, Ids
<1>3. SaidInv
  BY DEF SaidInv, Said, Ids
<1>4. LoopInv
  BY DEF LoopInv, Ids
<1> QED
  BY <1>1, <1>2, <1>3, <1>4 DEF IInv

\* The barrier's count is full exactly when everybody else is inside.
LEMMA FullRound ==
    ASSUME NEW t \in Ids, inside \subseteq Ids, t \notin inside,
           Cardinality(inside) + 1 = thread_num
    PROVE  \A u \in Ids : u = t \/ u \in inside
<1>1. IsFiniteSet(Ids) /\ Cardinality(Ids) = thread_num
  <2>1. IsFiniteSet(0 .. thread_num - 1) /\ Cardinality(0 .. thread_num - 1) =
            IF 0 > thread_num - 1 THEN 0 ELSE (thread_num - 1) - 0 + 1
    BY FS_Interval, ThreadNumAssumption
  <2> QED
    BY <2>1, ThreadNumAssumption DEF Ids
<1>2. IsFiniteSet(inside)
  BY <1>1, FS_Subset
<1>3. Cardinality(inside \cup {t}) = thread_num
  BY <1>2, FS_AddElement
<1>4. inside \cup {t} = Ids
  BY <1>1, <1>3, FS_Subset
<1> QED
  BY <1>4

\* The steps of main do not move a thread that has begun.
LEMMA MainInv == IInv /\ Main => IInv'
<1> SUFFICES ASSUME IInv, Main PROVE IInv'
  OBVIOUS
<1> USE ThreadNumAssumption, Zero DEF IInv
<1>1. CASE Setup
  <2>1. TypeOK'
    BY <1>1 DEF Setup, TypeOK
  <2>2. LevelInv'
    BY <1>1 DEF Setup, LevelInv, Level
  <2>3. SaidInv'
    BY <1>1 DEF Setup, SaidInv, Said
  <2>4. LoopInv'
    BY <1>1 DEF Setup, LoopInv
  <2> QED
    BY <2>1, <2>2, <2>3, <2>4
<1>2. CASE Create
  <2>a. ith \in Ids /\ at[ith] = "none" /\ ith # 0
    BY <1>2 DEF Create, TypeOK, LoopInv, Ids
  <2>b. at' = at \/ at' = [at EXCEPT ![ith] = "start"]
    BY <1>2 DEF Create
  <2>1. TypeOK'
    BY <1>2, <2>a, <2>b DEF Create, TypeOK, Ids
  <2>2. LevelInv'
    BY <1>2, <2>a, <2>b DEF Create, TypeOK, LevelInv, Level
  <2>3. SaidInv'
    BY <1>2, <2>a, <2>b DEF Create, TypeOK, SaidInv, Said
  <2>4. LoopInv'
    BY <1>2, <2>a DEF Create, TypeOK, LoopInv, Ids
  <2> QED
    BY <2>1, <2>2, <2>3, <2>4
<1>3. CASE Main_read_write
  <2>a. at[0] = "none" /\ at' = [at EXCEPT ![0] = "start"]
    BY <1>3 DEF Main_read_write, LoopInv
  <2>1. TypeOK'
    BY <1>3, <2>a DEF Main_read_write, TypeOK
  <2>2. LevelInv'
    BY <1>3, <2>a DEF Main_read_write, TypeOK, LevelInv, Level
  <2>3. SaidInv'
    BY <1>3, <2>a DEF Main_read_write, TypeOK, SaidInv, Said
  <2>4. LoopInv'
    BY <1>3 DEF Main_read_write, LoopInv
  <2> QED
    BY <2>1, <2>2, <2>3, <2>4
<1>4. CASE Main_returns
  <2>1. TypeOK'
    BY <1>4 DEF Main_returns, TypeOK
  <2>2. LevelInv'
    BY <1>4 DEF Main_returns, LevelInv, Level
  <2>3. SaidInv'
    BY <1>4 DEF Main_returns, SaidInv, Said
  <2>4. LoopInv'
    BY <1>4 DEF Main_returns, LoopInv, Ended, Ids
  <2> QED
    BY <2>1, <2>2, <2>3, <2>4
<1>5. CASE Join
  <2>1. TypeOK'
    BY <1>5 DEF Join, TypeOK
  <2>2. LevelInv'
    BY <1>5 DEF Join, LevelInv, Level
  <2>3. SaidInv'
    BY <1>5 DEF Join, SaidInv, Said
  <2>4. LoopInv'
    BY <1>5 DEF Join, TypeOK, LoopInv, Ended, Ids
  <2> QED
    BY <2>1, <2>2, <2>3, <2>4
<1> QED
  BY <1>1, <1>2, <1>3, <1>4, <1>5 DEF Main

\* The steps of a thread.
LEMMA ThreadInv == ASSUME NEW t \in Ids, IInv, Thread(t) PROVE IInv'
<1> USE ThreadNumAssumption DEF IInv
<1>0. LoopInv'
  <2>1. at[t] \notin {"none", "done", "failed"} /\ UNCHANGED <<pc, ith>>
    BY DEF Thread, Open, PrintLine, Enter, Leave, Return
  <2>2. \A u \in Ids : u # t => at'[u] = at[u]
    BY DEF Thread, Open, PrintLine, Enter, Leave, Return, TypeOK
  <2> QED
    BY <2>1, <2>2 DEF LoopInv, Ended
<1>1. CASE Open(t)
  <2>1. TypeOK'
    BY <1>1 DEF Open, TypeOK
  <2>2. LevelInv'
    BY <1>1 DEF Open, TypeOK, LevelInv, Level
  <2>3. SaidInv'
    BY <1>1 DEF Open, TypeOK, SaidInv, Said
  <2> QED
    BY <1>0, <2>1, <2>2, <2>3
<1>2. CASE PrintLine(t)
  <2>1. TypeOK'
    BY <1>2 DEF PrintLine, TypeOK
  <2>2. LevelInv'
    BY <1>2 DEF PrintLine, LevelInv, Level
  <2>3. SaidInv'
    BY <1>2 DEF PrintLine, Turn, TypeOK, SaidInv, Said, Ids
  <2> QED
    BY <1>0, <2>1, <2>2, <2>3
<1>3. CASE Enter(t)
  <2>a. /\ at[t] = "loop" /\ i[t] < thread_num /\ i[t] = round /\ t \notin inside
        /\ at' = [at EXCEPT ![t] = "in"]
        /\ UNCHANGED <<i, printed>>
    BY <1>3 DEF Enter, LevelInv, Level
  <2>1. TypeOK'
    BY <1>3, <2>a DEF Enter, TypeOK
  <2>2. LevelInv'
    <3>1. CASE Cardinality(inside) + 1 = thread_num
      <4>1. round' = round + 1 /\ inside' = {}
        BY <1>3, <3>1 DEF Enter
      <4>2. \A u \in Ids : u = t \/ u \in inside
        BY <2>a, <3>1, FullRound DEF TypeOK
      <4>3. \A u \in Ids : at'[u] = "in" /\ i[u] = round /\ i[u] < thread_num
        BY <2>a, <4>2 DEF TypeOK, LevelInv, Level
      <4> QED
        BY <2>a, <4>1, <4>3 DEF TypeOK, LevelInv, Level
    <3>2. CASE ~(Cardinality(inside) + 1 = thread_num)
      <4>1. round' = round /\ inside' = inside \cup {t}
        BY <1>3, <3>2 DEF Enter
      <4> QED
        BY <2>a, <4>1 DEF TypeOK, LevelInv, Level
    <3> QED
      BY <3>1, <3>2
  <2>3. SaidInv'
    BY <1>3, <2>a DEF Enter, Turn, TypeOK, SaidInv, Said
  <2> QED
    BY <1>0, <2>1, <2>2, <2>3
<1>4. CASE Leave(t)
  <2>a. /\ at[t] = "in" /\ i[t] < thread_num /\ i[t] + 1 = round /\ t \notin inside
        /\ at' = [at EXCEPT ![t] = "loop"]
        /\ i' = [i EXCEPT ![t] = @ + 1]
        /\ UNCHANGED <<round, inside, printed>>
    BY <1>4 DEF Leave, TypeOK, LevelInv, Level
  <2>1. TypeOK'
    BY <1>4, <2>a DEF Leave, TypeOK
  <2>2. LevelInv'
    BY <2>a DEF TypeOK, LevelInv, Level
  <2>3. SaidInv'
    BY <2>a DEF TypeOK, SaidInv, Said, Ids
  <2> QED
    BY <1>0, <2>1, <2>2, <2>3
<1>5. CASE Return(t)
  <2>1. TypeOK'
    BY <1>5 DEF Return, TypeOK
  <2>2. LevelInv'
    BY <1>5 DEF Return, TypeOK, LevelInv, Level
  <2>3. SaidInv'
    BY <1>5 DEF Return, TypeOK, SaidInv, Said
  <2> QED
    BY <1>0, <2>1, <2>2, <2>3
<1> QED
  BY <1>1, <1>2, <1>3, <1>4, <1>5 DEF Thread

LEMMA Inductive == Spec => []IInv
<1>1. IInv /\ [Next]_vars => IInv'
  <2> SUFFICES ASSUME IInv, [Next]_vars PROVE IInv'
    OBVIOUS
  <2>1. CASE UNCHANGED vars
    BY <2>1 DEF vars, IInv, TypeOK, LevelInv, Level, SaidInv, Said, LoopInv, Ended
  <2>2. CASE Next
    BY <2>2, MainInv, ThreadInv DEF Next
  <2> QED
    BY <2>1, <2>2
<1> QED
  BY InitInv, <1>1, PTL DEF Spec

\* A thread's turn comes after those of the threads before it: it has finished one
\* wait more, which none of them can enter before it has printed.
THEOREM LinesInOrder == Spec => []InOrder
<1>1. IInv => InOrder
  <2> SUFFICES ASSUME IInv, NEW t \in printed, NEW u \in Ids, u < t PROVE u \in printed
    BY DEF InOrder
  <2>1. t \in Ids /\ t <= i[t] /\ i[t] <= round
    BY ThreadNumAssumption DEF IInv, TypeOK, LevelInv, Level, SaidInv, Said, Ids
  <2>2. u < round /\ round # 0
    BY <2>1, ThreadNumAssumption DEF IInv, TypeOK, Ids
  <2>3. i[u] = round \/ (at[u] = "in" /\ i[u] + 1 = round)
    BY <2>2 DEF IInv, TypeOK, LevelInv, Level
  <2> QED
    BY <2>2, <2>3, ThreadNumAssumption DEF IInv, TypeOK, SaidInv, Said, Ids
<1> QED
  BY Inductive, <1>1, PTL

\* One failed fopen keeps every thread in the first round.
THEOREM FailedOpenHoldsAll == Spec => []FailedHoldsAll
<1>1. IInv => FailedHoldsAll
  <2> SUFFICES ASSUME IInv, NEW f \in Ids, at[f] = "failed" PROVE printed \subseteq {0} /\ \A t \in Ids : i[t] = 0
    BY DEF FailedHoldsAll, Failed
  <2>1. round = 0
    BY DEF IInv, LevelInv, Level
  <2>2. \A t \in Ids : i[t] = 0
    BY <2>1, ThreadNumAssumption DEF IInv, TypeOK, LevelInv, Level
  <2>3. \A t \in printed : t = 0
    BY <2>2, ThreadNumAssumption DEF IInv, TypeOK, SaidInv, Said, Ids
  <2> QED
    BY <2>2, <2>3
<1> QED
  BY Inductive, <1>1, PTL

\* main ends the rendezvous or is not seen by it.
LEMMA MainMeets == IInv /\ Main => [Round!Next]_(Round!vars)
<1> SUFFICES ASSUME IInv, Main PROVE [Round!Next]_(Round!vars)
  OBVIOUS
<1> USE ThreadNumAssumption, Zero
<1>0. ~Exited
  BY DEF Main, Setup, Create, Main_read_write, Main_returns, Join, Exited
<1>a. ASSUME UNCHANGED i, ~Exited', \A u \in Ids : at'[u] = "in" <=> at[u] = "in"
      PROVE  UNCHANGED Round!vars
  BY <1>0, <1>a DEF Round!vars
<1>b. ASSUME Exited', UNCHANGED <<i, at>>, round = 0, pc' = "error" \/ Failed # {}
      PROVE  Round!GiveUp
  <2>1. \A u \in Ids : i[u] = 0
    BY <1>b DEF IInv, TypeOK, LevelInv, Level
  <2>2. {u \in Ids : i[u] > watched} = {}
    BY <2>1
  <2> QED
    BY <1>0, <1>b, <2>2 DEF Failed, Round!GiveUp
<1>c. pc \in {"setup", "create"} => at[0] = "none" /\ round = 0
  BY DEF IInv, LoopInv, LevelInv, Level
<1>1. CASE Setup
  BY <1>1, <1>a, <1>b, <1>c DEF Setup, Exited, Round!Next
<1>2. CASE Create
  <2>1. CASE pc' = "error"
    BY <1>2, <1>b, <1>c, <2>1 DEF Create, Exited, Round!Next
  <2>2. CASE at' = [at EXCEPT ![ith] = "start"] /\ UNCHANGED pc
    <3>1. ith \in Ids /\ at[ith] = "none"
      BY <1>2 DEF Create, IInv, TypeOK, LoopInv, Ids
    <3> QED
      BY <1>0, <1>2, <1>a, <2>2, <3>1 DEF Create, IInv, TypeOK, Exited
  <2> QED
    BY <1>2, <2>1, <2>2 DEF Create
<1>3. CASE Main_read_write
  BY <1>3, <1>a, <1>c DEF Main_read_write, IInv, TypeOK, Exited
<1>4. CASE Main_returns
  BY <1>4, <1>a DEF Main_returns, Exited
<1>5. CASE Join
  <2>1. CASE ith < thread_num /\ UNCHANGED pc
    BY <1>0, <1>5, <1>a, <2>1 DEF Join, IInv, TypeOK, Exited
  <2>3. CASE ith < thread_num /\ pc' = "error" /\ MayFail
    <3>1. Exited' /\ UNCHANGED <<i, at>>
      BY <1>5, <2>3 DEF Join, Exited
    <3>2. CASE at[0] = "failed"
      BY <1>b, <2>3, <3>1, <3>2 DEF IInv, LevelInv, Level, Round!Next
    <3>3. CASE at[0] = "done"
      <4>1. \A u \in Ids : i[u] > watched \/ (i[u] = watched /\ at[u] = "in")
        <5>1. round = thread_num
          BY <3>3 DEF IInv, LevelInv, Level
        <5> QED
          BY <5>1 DEF IInv, TypeOK, LevelInv, Level
      <4>2. {u \in Ids : i[u] > watched \/ (i[u] = watched /\ at[u] = "in")} = Ids
        BY <4>1
      <4> QED
        BY <1>0, <2>3, <3>1, <4>2 DEF Round!GiveUp, Round!Next
    <3> QED
      BY <1>5, <3>2, <3>3 DEF Join, IInv, TypeOK, LoopInv, Ended
  <2>2. CASE ith = thread_num
    <3>1. Exited' /\ UNCHANGED <<i, at>>
      BY <1>5, <2>2 DEF Join, Exited
    <3>2. \A u \in Ids : at[u] \in {"done", "failed"}
      BY <1>5, <2>2 DEF Join, IInv, LoopInv, Ended, Ids
    <3>3. CASE \A u \in Ids : at[u] = "done"
      <4>1. {u \in Ids : i[u] > watched} = Ids
        BY <3>3 DEF IInv, LevelInv, Level
      <4> QED
        BY <1>0, <1>5, <2>2, <3>1, <3>3, <4>1 DEF Join, Failed, Round!Succeed, Round!Next
    <3>4. CASE \E u \in Ids : at[u] = "failed"
      BY <1>b, <3>1, <3>4 DEF Failed, IInv, LevelInv, Level, Round!Next
    <3> QED
      BY <3>2, <3>3, <3>4
  <2> QED
    BY <1>5, <2>1, <2>2, <2>3 DEF Join
<1> QED
  BY <1>1, <1>2, <1>3, <1>4, <1>5 DEF Main

\* A thread arrives when it enters the watched round and is let go when it leaves it.
LEMMA ThreadMeets == ASSUME NEW t \in Ids, IInv, Thread(t) PROVE [Round!Next]_(Round!vars)
<1> USE ThreadNumAssumption
<1>0. ~Exited /\ ~Exited'
  BY DEF Thread, Open, PrintLine, Enter, Leave, Return, Exited
<1>a. ASSUME UNCHANGED i, \A u \in Ids : at'[u] = "in" <=> at[u] = "in"
      PROVE  UNCHANGED Round!vars
  BY <1>0, <1>a DEF Round!vars
<1>1. CASE Open(t)
  BY <1>1, <1>a DEF Open, IInv, TypeOK
<1>2. CASE PrintLine(t)
  BY <1>2, <1>a DEF PrintLine
<1>3. CASE Enter(t)
  <2>1. at[t] = "loop" /\ at' = [at EXCEPT ![t] = "in"] /\ UNCHANGED i
    BY <1>3 DEF Enter
  <2>2. CASE i[t] = watched
    <3>1. {u \in Ids : i'[u] > watched \/ (i'[u] = watched /\ at'[u] = "in")} =
              {u \in Ids : i[u] > watched \/ (i[u] = watched /\ at[u] = "in")} \cup {t}
      BY <2>1, <2>2 DEF IInv, TypeOK
    <3>2. ~(i[t] > watched \/ (i[t] = watched /\ at[t] = "in"))
      BY <2>1, <2>2
    <3> QED
      BY <1>0, <2>1, <3>1, <3>2 DEF Round!Arrive, Round!Next
  <2>3. CASE i[t] # watched
    <3>1. {u \in Ids : i'[u] > watched \/ (i'[u] = watched /\ at'[u] = "in")} =
              {u \in Ids : i[u] > watched \/ (i[u] = watched /\ at[u] = "in")}
      BY <2>1, <2>3 DEF IInv, TypeOK
    <3> QED
      BY <1>0, <2>1, <3>1 DEF Round!vars
  <2> QED
    BY <2>2, <2>3
<1>4. CASE Leave(t)
  <2>1. /\ at[t] = "in" /\ i[t] + 1 = round
        /\ at' = [at EXCEPT ![t] = "loop"]
        /\ i' = [i EXCEPT ![t] = @ + 1]
    BY <1>4 DEF Leave, IInv, TypeOK, LevelInv, Level
  <2>2. {u \in Ids : i'[u] > watched \/ (i'[u] = watched /\ at'[u] = "in")} =
            {u \in Ids : i[u] > watched \/ (i[u] = watched /\ at[u] = "in")}
    BY <2>1 DEF IInv, TypeOK
  <2>3. CASE i[t] = watched
    <3>1. \A u \in Ids : i[u] > watched \/ (i[u] = watched /\ at[u] = "in")
      BY <2>1, <2>3 DEF IInv, TypeOK, LevelInv, Level
    <3>2. {u \in Ids : i[u] > watched \/ (i[u] = watched /\ at[u] = "in")} = Ids
      BY <3>1
    <3>3. {u \in Ids : i'[u] > watched} = {u \in Ids : i[u] > watched} \cup {t}
      BY <2>1, <2>3 DEF IInv, TypeOK
    <3>4. ~(i[t] > watched)
      BY <2>3
    <3> QED
      BY <1>0, <2>2, <3>2, <3>3, <3>4 DEF Round!Release, Round!Next
  <2>4. CASE i[t] # watched
    <3>1. {u \in Ids : i'[u] > watched} = {u \in Ids : i[u] > watched}
      BY <2>1, <2>4 DEF IInv, TypeOK
    <3> QED
      BY <1>0, <2>2, <3>1 DEF Round!vars
  <2> QED
    BY <2>3, <2>4
<1>5. CASE Return(t)
  BY <1>5, <1>a DEF Return, IInv, TypeOK
<1> QED
  BY <1>1, <1>2, <1>3, <1>4, <1>5 DEF Thread

\* Whatever round of the barrier is watched, it implements the rendezvous, for every
\* thread_num.
THEOREM RoundsImplementMeeting == Spec => RoundMeets
<1>1. Init => Round!Init
  BY ThreadNumAssumption DEF Init, Exited, Round!Init
<1>2. IInv /\ [Next]_vars => [Round!Next]_(Round!vars)
  <2> SUFFICES ASSUME IInv, [Next]_vars PROVE [Round!Next]_(Round!vars)
    OBVIOUS
  <2>1. CASE UNCHANGED vars
    BY <2>1 DEF vars, Exited, Failed, Round!vars
  <2>2. CASE Next
    BY <2>2, MainMeets, ThreadMeets DEF Next
  <2> QED
    BY <2>1, <2>2
<1> QED
  BY Inductive, <1>1, <1>2, PTL DEF Spec, RoundMeets, Round!Spec
===============================================================================
