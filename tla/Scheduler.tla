----------------------------- MODULE Scheduler -----------------------------
(* The process scheduler of the systems programming course: the tick loop  *)
(* of scheduler.c, the queue of queue.c and the seven strategies.  A step  *)
(* is one pass of the loop.  The processes are an input and may arrive at  *)
(* the same time.                                                          *)
EXTENDS Naturals, Sequences, FiniteSets

CONSTANTS
    NumProc,    \* bound: how many processes there are
    Start,      \* bound: the times at which a process may arrive
    Burst,      \* bound: the ticks of work a process may bring
    Priority,   \* bound: the priorities
    Quantum,    \* what RR_startup is given
    Levels,     \* the queues of MLF; 4 in the code
    Base,       \* a level's quantum in those of the level below; 3 in the code
    None

ASSUME SchedulerAssumption ==
    /\ NumProc \in Nat \ {0}
    /\ Start \subseteq Nat /\ Burst \subseteq Nat \ {0} /\ Priority \subseteq Nat
    /\ Quantum \in Nat \ {0} /\ Levels \in Nat \ {0} /\ Base \in Nat \ {0}

Proc == 1 .. NumProc
ASSUME NoneAssumption == None \notin Proc

Strategy == {"FCFS", "LCFS", "RR", "PRIOP", "SRTNP", "HRRN", "MLF"}

VARIABLES
    strategy, start, burst, prio,   \* the arguments of scheduler
    time,
    left,       \* time_left of each process
    running,
    queue,      \* the queues, the oldest object first; only MLF uses more than queue 0
    slice,      \* what is left of the quantum (RR and MLF)
    level,      \* MLF
    wait,       \* wartezeit (HRRN)
    schedule,   \* resulting_schedule
    dropped,    \* processes whose queue_add fails
    status      \* "running" | "done" | "crashed"

input == <<strategy, start, burst, prio>>
vars == <<input, time, left, running, queue, slice, level, wait, schedule,
          dropped, status>>

\* sort_processes_by_start_time is stable.
Before(p, q) == start[p] < start[q] \/ (start[p] = start[q] /\ p < q)
Arriving(i) == CHOOSE p \in Proc : Cardinality({q \in Proc : Before(q, p)}) = i - 1

\* Mutant: what overlaps with the previous process is not added.
EndTimeNoOverlap == [i \in Proc |-> start[Arriving(i)] + burst[Arriving(i)]]

\* end_time and overlapping_time, by the place in the order of arrival.
EndTime ==
    LET end[i \in Proc] ==
            LET p == Arriving(i)
                own == start[p] + burst[p]
            IN IF i > 1 /\ end[i - 1] > start[p]
               THEN own + (end[i - 1] - start[p])
               ELSE own
    IN end

\* calc_max_time
MaxTime == EndTime[NumProc]

Init ==
    /\ strategy \in Strategy
    /\ start \in [Proc -> Start]
    /\ burst \in [Proc -> Burst]
    /\ prio \in [Proc -> Priority]
    /\ strategy # "PRIOP" => prio = [p \in Proc |-> CHOOSE n \in Priority : TRUE]
    /\ time = 0
    /\ left = burst
    /\ running = None
    /\ queue = [l \in 0 .. Levels - 1 |-> <<>>]
    /\ slice = IF strategy = "RR" THEN Quantum ELSE 0
    /\ level = 0
    /\ wait = [p \in Proc |-> 0]
    /\ schedule = <<>>
    /\ dropped = {}
    /\ status = "running"
-----------------------------------------------------------------------------
\* check_new_arrival: the first of those that arrive now, and no other.
NewArrival ==
    {p \in Proc : start[p] = time /\ ~ \E q \in Proc : start[q] = time /\ Before(q, p)}

\* The new object goes behind the head and passes those of the set that
\* stand next to it.
Sorted(q, p, passed) ==
    LET k == CHOOSE i \in 0 .. Len(q) :
                /\ i > 0 => q[i] \notin passed
                /\ \A j \in i + 1 .. Len(q) : q[j] \in passed
    IN SubSeq(q, 1, k) \o <<p>> \o SubSeq(q, k + 1, Len(q))

\* PRIOP_new_arrival
ByPriority(q, p) == Sorted(q, p, {r \in Proc : prio[r] < prio[p]})

\* SRTNP_new_arrival
ByTimeLeft(q, p) == Sorted(q, p, {r \in Proc : left[r] > left[p]})

Insert(q, p) ==
    CASE strategy = "PRIOP" -> ByPriority(q, p)
      [] strategy = "SRTNP" -> ByTimeLeft(q, p)
      [] OTHER -> Append(q, p)

\* The queue after X_new_arrival.
Ready ==
    IF NewArrival = {} THEN queue[0]
    ELSE Insert(queue[0], CHOOSE p \in NewArrival : TRUE)

Free == running # None => left[running] = 0

\* Mutant: the object behind is taken out.
RemoveNext(q, i) == SubSeq(q, 1, i) \o SubSeq(q, i + 2, Len(q))

Remove(q, i) == SubSeq(q, 1, i - 1) \o SubSeq(q, i + 1, Len(q))

\* print_and_save_process and the end of the loop's pass.
Save(p) ==
    /\ running' = p
    /\ schedule' = Append(schedule, p)
    /\ time' = time + 1
    /\ UNCHANGED <<input, status>>

Work(p) == left' = [left EXCEPT ![p] = @ - 1]

Run(p, q) ==
    /\ Save(p) /\ Work(p)
    /\ queue' = [queue EXCEPT ![0] = q]

Idle == Save(None) /\ UNCHANGED <<left, queue>>

\* A null pointer is used: the program ends.
Crash ==
    /\ status' = "crashed"
    /\ UNCHANGED <<input, time, left, running, queue, slice, level, wait,
                   schedule, dropped>>

\* Mutant: the tick in which the process changes does no work.
FCFS_tickSwitch ==
    /\ \/ Free /\ Ready = <<>> /\ Idle
       \/ /\ Free /\ Ready # <<>>
          /\ Save(Head(Ready))
          /\ queue' = [queue EXCEPT ![0] = Tail(Ready)]
          /\ UNCHANGED left
       \/ ~Free /\ Run(running, Ready)
    /\ UNCHANGED <<slice, level, wait, dropped>>

FCFS_tick ==
    /\ \/ Free /\ Ready = <<>> /\ Idle
       \/ Free /\ Ready # <<>> /\ Run(Head(Ready), Tail(Ready))
       \/ ~Free /\ Run(running, Ready)
    /\ UNCHANGED <<slice, level, wait, dropped>>

\* The newest object is taken without a look whether there is one.
LCFS_tick ==
    \/ Free /\ Ready = <<>> /\ Crash
    \/ /\ \/ /\ Free /\ Ready # <<>>
             /\ Run(Ready[Len(Ready)], Remove(Ready, Len(Ready)))
          \/ ~Free /\ Run(running, Ready)
       /\ UNCHANGED <<slice, level, wait, dropped>>

\* Mutant: a new quantum, but not for the next one in the queue.
RR_tickAgain ==
    /\ \/ Free /\ Ready = <<>> /\ Idle /\ slice' = Quantum
       \/ /\ Free /\ Ready # <<>>
          /\ Run(Head(Ready), Tail(Ready))
          /\ slice' = Quantum - 1
       \/ /\ ~Free
          /\ Run(running, Ready)
          /\ slice' = IF slice = 0 THEN Quantum - 1 ELSE slice - 1
    /\ UNCHANGED <<level, wait, dropped>>

RR_tick ==
    /\ \/ Free /\ Ready = <<>> /\ Idle /\ slice' = Quantum
       \/ /\ Free /\ Ready # <<>>
          /\ Run(Head(Ready), Tail(Ready))
          /\ slice' = Quantum - 1
       \/ /\ ~Free /\ slice = 0
          /\ LET q == Append(Ready, running) IN Run(Head(q), Tail(q))
          /\ slice' = Quantum - 1
       \/ /\ ~Free /\ slice > 0
          /\ Run(running, Ready)
          /\ slice' = slice - 1
    /\ UNCHANGED <<level, wait, dropped>>

\* The ticks without a process in the queue do no work.
PRIOP_tick ==
    /\ \/ Free /\ Ready = <<>> /\ Idle
       \/ /\ ~Free \/ Ready # <<>>
          /\ LET p == IF Free THEN Head(Ready) ELSE running
                 q == IF Free THEN Tail(Ready) ELSE Ready
             IN \/ /\ q = <<>>
                   /\ Save(p)
                   /\ queue' = [queue EXCEPT ![0] = q]
                   /\ UNCHANGED left
                \/ /\ q # <<>> /\ prio[Head(q)] > prio[p]
                   /\ Run(Head(q), ByPriority(Tail(q), p))
                \/ /\ q # <<>> /\ prio[Head(q)] <= prio[p]
                   /\ Run(p, q)
    /\ UNCHANGED <<slice, level, wait, dropped>>

SRTNP_tick ==
    /\ \/ Free /\ Ready = <<>> /\ Idle
       \/ Free /\ Ready # <<>> /\ Run(Head(Ready), Tail(Ready))
       \/ /\ ~Free /\ Ready # <<>> /\ left[Head(Ready)] < left[running]
          /\ Run(Head(Ready), ByTimeLeft(Tail(Ready), running))
       \/ /\ ~Free /\ (Ready # <<>> => left[Head(Ready)] >= left[running])
          /\ Run(running, Ready)
    /\ UNCHANGED <<slice, level, wait, dropped>>

\* Whole numbers, as the code divides them.
Ratio(p) == (wait[p] + left[p]) \div left[p]

\* The newest of those with the highest ratio.
Choice(q) ==
    CHOOSE i \in DOMAIN q : \A j \in DOMAIN q :
        Ratio(q[j]) < Ratio(q[i]) \/ (Ratio(q[j]) = Ratio(q[i]) /\ j <= i)

Waits(q) ==
    wait' = [p \in Proc |-> IF \E i \in DOMAIN q : q[i] = p
                            THEN wait[p] + 1 ELSE wait[p]]

\* Mutant: those that wait are not counted.
HRRN_tickNoWait ==
    \/ Free /\ Ready = <<>> /\ Crash
    \/ /\ \/ /\ Free /\ Ready # <<>>
             /\ LET i == Choice(Ready) IN Run(Ready[i], Remove(Ready, i))
          \/ ~Free /\ Run(running, Ready)
       /\ UNCHANGED <<slice, level, wait, dropped>>

\* The first object is taken for the best so far without a look whether
\* there is one.
HRRN_tick ==
    \/ Free /\ Ready = <<>> /\ Crash
    \/ /\ \/ /\ Free /\ Ready # <<>>
             /\ LET i == Choice(Ready)
                IN Run(Ready[i], Remove(Ready, i)) /\ Waits(Remove(Ready, i))
          \/ ~Free /\ Run(running, Ready) /\ Waits(Ready)
       /\ UNCHANGED <<slice, level, dropped>>

\* pi: the quantum of each level.
Slots ==
    LET pi[l \in 0 .. Levels] == IF l = 0 THEN 1 ELSE pi[l - 1] * Base IN pi

\* The levels are searched from the top; below the last one there is
\* nothing, and the search does not stop there.
FromTop(qs, refused) ==
    \/ (\A l \in DOMAIN qs : qs[l] = <<>>) /\ Crash
    \/ \E l \in DOMAIN qs :
          /\ qs[l] # <<>> /\ \A k \in 0 .. l - 1 : qs[k] = <<>>
          /\ Save(Head(qs[l])) /\ Work(Head(qs[l]))
          /\ queue' = [qs EXCEPT ![l] = Tail(@)]
          /\ level' = l
          /\ slice' = Slots[l] - 1
          /\ dropped' = dropped \cup refused
          /\ UNCHANGED wait

MLF_tick ==
    LET qs == [queue EXCEPT ![0] = Ready]
    IN \/ Free /\ FromTop(qs, {})
       \/ /\ ~Free /\ slice = 0 /\ level + 1 < Levels
          /\ FromTop([qs EXCEPT ![level + 1] = Append(@, running)], {})
       \* The word behind MLF_queues: a zero makes queue_add refuse the process.
       \/ ~Free /\ slice = 0 /\ level + 1 = Levels /\ (Crash \/ FromTop(qs, {running}))
       \/ /\ ~Free /\ slice > 0
          /\ Save(running) /\ Work(running)
          /\ queue' = qs
          /\ slice' = slice - 1
          /\ UNCHANGED <<level, wait, dropped>>

Loop(s, tick) == strategy = s /\ tick

Tick ==
    /\ status = "running" /\ time < MaxTime
    /\ \/ Loop("FCFS", FCFS_tick)
       \/ Loop("LCFS", LCFS_tick)
       \/ Loop("RR", RR_tick)
       \/ Loop("PRIOP", PRIOP_tick)
       \/ Loop("SRTNP", SRTNP_tick)
       \/ Loop("HRRN", HRRN_tick)
       \/ Loop("MLF", MLF_tick)

Finish ==
    /\ status = "running" /\ time = MaxTime
    /\ status' = "done"
    /\ UNCHANGED <<input, time, left, running, queue, slice, level, wait,
                   schedule, dropped>>

Next == Tick \/ Finish

Spec == Init /\ [][Next]_vars
-----------------------------------------------------------------------------
TypeOK ==
    /\ strategy \in Strategy
    /\ start \in [Proc -> Start] /\ burst \in [Proc -> Burst] /\ prio \in [Proc -> Priority]
    /\ time \in Nat /\ left \in [Proc -> Nat]
    /\ running \in Proc \cup {None}
    /\ queue \in [0 .. Levels - 1 -> Seq(Proc)]
    /\ slice \in Nat /\ level \in 0 .. Levels - 1
    /\ wait \in [Proc -> Nat]
    /\ schedule \in Seq(Proc \cup {None}) /\ Len(schedule) = time
    /\ dropped \subseteq Proc
    /\ status \in {"running", "done", "crashed"}

Distinct == \A p, q \in Proc : p # q => start[p] # start[q]

\* What check_new_arrival has returned so far.
Admitted ==
    {p \in Proc : start[p] < time /\ ~ \E q \in Proc : start[q] = start[p] /\ Before(q, p)}

Waiting == {p \in Admitted \ dropped : left[p] > 0 /\ p # running}

\* The ticks a process can spend above an MLF level.
Above ==
    LET sum[l \in 0 .. Levels] == IF l = 0 THEN 0 ELSE sum[l - 1] + Slots[l - 1]
    IN sum

\* No process is too long for the levels of MLF.
Fits == strategy = "MLF" => \A p \in Proc : burst[p] <= Above[Levels]

\* From time 0 on there is always something to do.
NoGap ==
    /\ start[Arriving(1)] = 0
    /\ \A i \in Proc \ {1} : start[Arriving(i)] <= EndTime[i - 1]

\* A process that has been admitted and is not finished is at one place of
\* the queues unless it runs, and no other process is in them: neither
\* preemption nor the sorted insertion loses or doubles a list element.
EveryoneOnce ==
    \A p \in Proc :
        Cardinality({at \in (DOMAIN queue) \X Proc :
                        /\ at[2] \in DOMAIN queue[at[1]]
                        /\ queue[at[1]][at[2]] = p})
            = IF p \in Waiting THEN 1 ELSE 0

\* The queues of queue.c and the variables of the strategies are well formed.
WellFormed == TypeOK /\ EveryoneOnce

\* The number of ticks computed beforehand is enough: when the loop ends,
\* every process has done all its work.  Of two processes that arrive at
\* the same time one is never admitted, and PRIOP wastes ticks.
FinishedInTime ==
    status = "done" /\ Distinct /\ Fits /\ strategy # "PRIOP" =>
        \A p \in Proc : left[p] = 0

\* LCFS, HRRN and MLF use a null pointer when there is nothing to do; it
\* takes a gap between the processes to get there.
CrashNeedsGap ==
    status = "crashed" =>
        /\ strategy \in {"LCFS", "HRRN", "MLF"}
        /\ ~(Distinct /\ Fits /\ NoGap)

\* The loop of scheduler.c ends with all the work done, or for that reason.
EndsAsPlanned == FinishedInTime /\ CrashNeedsGap

\* At no tick a process waits that comes before the running one: in order
\* of arrival (FCFS), of priority (PRIOP), of remaining time (SRTNP).
RunningRanksFirst ==
    running # None => \A w \in Waiting :
        /\ strategy = "FCFS" => start[running] < start[w]
        /\ strategy = "PRIOP" => prio[running] >= prio[w]
        /\ strategy = "SRTNP" => left[running] + 1 <= left[w]

\* The response ratio of p is Response(p) / burst[p], from the times of
\* arrival and without the counters.
Response(p) == (time - start[p]) + burst[p]

\* The ratio of p is higher than that of q by one or more.
HigherByOne(p, q) == Response(p) * burst[q] >= (Response(q) + burst[q]) * burst[p]

\* When p has become ready: it arrived, or a tick it worked in ended.
ReadyAt(p) == {start[p]} \cup {k \in DOMAIN schedule : schedule[k] = p}

\* p has been ready for longer than w, or it arrived when w was put back.
ReadyBefore(p, w) ==
    \E u \in ReadyAt(w) : \A t \in ReadyAt(p) : t < u \/ (t = u /\ t = start[p])

\* The running process has had a whole quantum of RR.
QuantumUsed ==
    /\ Quantum <= time
    /\ \A k \in DOMAIN schedule : k + Quantum > time => schedule[k] = running

\* LCFS and HRRN change the process only when it is finished, RR also when
\* it has used up its quantum.  LCFS takes the newest, RR the one that has
\* been ready for longest.  HRRN does not always take the highest response
\* ratio: it cuts the ratios to whole numbers before it compares them
\* (HRRN.c:70), so that another process's may be higher, but by less than one.
PickRanksFirst ==
    [][running' # running =>
         /\ strategy \in {"LCFS", "HRRN", "RR"} /\ running # None =>
               left[running] = 0 \/ (strategy = "RR" /\ QuantumUsed)
         /\ \A w \in Waiting' :
               /\ strategy = "LCFS" => start[w] < start[running']
               /\ strategy = "RR" => ReadyBefore(running', w)
               /\ strategy = "HRRN" => ~HigherByOne(w, running')]_vars

\* With round robin nobody waits longer than one quantum of everyone else.
RoundRobin ==
    strategy = "RR" => \A w \in Waiting :
        \E t \in {start[w]} \cup {k \in DOMAIN schedule : schedule[k] = w} :
            time - t <= (NumProc - 1) * Quantum

\* A process is on level l of MLF when it has used up the quanta of the
\* levels above, and no other time.
LevelTellsWork ==
    strategy = "MLF" =>
        /\ \A l \in DOMAIN queue : \A i \in DOMAIN queue[l] :
              burst[queue[l][i]] - left[queue[l][i]] = Above[l]
        /\ running # None =>
              burst[running] - left[running] = Above[level] + (Slots[level] - slice)

\* Every strategy keeps to its rule at every tick.
StrategyKept == RunningRanksFirst /\ RoundRobin /\ LevelTellsWork

\* Seven strategies of one processor: it works on one process that has
\* arrived and is not finished, and is idle only when there is none.
Cpu == INSTANCE Processor WITH
    diligent <- strategy # "PRIOP",
    careful <- Fits,
    clock <- time,
    known <- Admitted \ dropped,
    work <- left,
    cpu <- running

ImplementsProcessor == Cpu!Spec
=============================================================================
