------------------------------- MODULE Timers --------------------------------
(***************************************************************************)
(* lwIP's list of timeouts (timeouts.c) over the tick of this board        *)
(* (core_delay.c), and the waits of Firmware_Update (menu.c).              *)
(*                                                                         *)
(* HAL_GetTick divides the cycle counter by its frequency before it        *)
(* multiplies, so the tick moves in steps of a second, and it starts again *)
(* at 0 when the 32-bit counter wraps, after 10.7 seconds.  lwIP takes it  *)
(* for a clock that wraps at 2^32 ms.                                      *)
(*                                                                         *)
(* Time passes between any two reads of the tick, also while the handlers  *)
(* of expired timeouts run.                                                *)
(***************************************************************************)
EXTENDS Integers, Sequences

CONSTANTS
    lwip_cyclic_timers,   \* ip_reass_tmr, etharp_tmr: run always
    Tcp,        \* tcp_tmr: runs while there are connections
    Interval,   \* of each of them, in units of 250 ms
    Second,     \* units of a step of the tick
    Period,     \* units after which the cycle counter wraps
    Word,       \* of u32_t, in units
    Patience,   \* the 2 s that a wait compares with, in units
    MaxAway,    \* bound: a pass of the loop takes no longer
    MaxInside   \* bound: nor do the handlers of one call of sys_check_timeouts

Cyclic == {lwip_cyclic_timers[i] : i \in 1..Len(lwip_cyclic_timers)}
Timers == Cyclic \cup {Tcp}
TooLong == Patience + Second

ASSUME TimersAssumption ==
    /\ lwip_cyclic_timers \in Seq(Cyclic) /\ Len(lwip_cyclic_timers) > 1 /\ Tcp \notin Cyclic
    /\ \A i, j \in 1..Len(lwip_cyclic_timers) :
          lwip_cyclic_timers[i] = lwip_cyclic_timers[j] => i = j
    /\ Second \in Nat \ {0} /\ Period \in Nat \ {0} /\ Patience \in Nat /\ MaxAway \in Nat
    /\ MaxInside \in Nat
    /\ Word \in Nat /\ Interval \in [Timers -> Nat \ {0}]
    /\ \A t \in Timers : Interval[t] + Period < Word /\ Interval[t] + Interval[t] < Word

VARIABLES
    cyccnt,        \* the cycle counter
    next_timeout,  \* the list: who, and the time after the one before
    timeouts_last_time,
    diff,          \* of sys_check_timeouts; -1 outside
    active,        \* tcpip_tcp_timer_active
    pcbs,          \* there are connections, or some in TIME_WAIT
    t0,            \* when the wait of Firmware_Update began, or -1
    away,          \* for how long it has been outside, or inside, sys_check_timeouts
    since,         \* per timer: lwIP's time since it was armed (up to its interval)
    lag,           \* the time minus lwIP's time, until the counter wraps
    waited,        \* how long the wait has lasted (up to TooLong), or -1 when there
                   \* is none or the counter has wrapped in it
    wrapped        \* the counter has wrapped

vars == <<cyccnt, next_timeout, timeouts_last_time, diff, active, pcbs, t0, away,
          since, lag, waited, wrapped>>

TypeOK ==
    /\ cyccnt \in 0..(Period - 1)
    /\ next_timeout \in Seq([who : Timers, time : 0..(Word - 1)])
    /\ timeouts_last_time \in 0..(Word - 1) /\ diff \in -1..(Word - 1)
    /\ active \in BOOLEAN /\ pcbs \in BOOLEAN
    /\ t0 \in -1..(Word - 1) /\ since \in [Timers -> Nat]
    /\ lag \in Int /\ away \in Nat /\ waited \in -1..TooLong /\ wrapped \in BOOLEAN

Least(a, b) == IF a < b THEN a ELSE b

-----------------------------------------------------------------------------
(* The tick                                                                *)

HAL_GetTick == (cyccnt \div Second) * Second

\* Mutant: the difference is signed.
MutSince(t) == HAL_GetTick - t

Since(t) == (HAL_GetTick - t) % Word

\* Time passes.
Advance ==
    /\ away < (IF diff = -1 THEN MaxAway ELSE MaxInside) /\ away' = away + 1
    /\ cyccnt' = (cyccnt + 1) % Period
    /\ wrapped' = (wrapped \/ cyccnt' = 0)
    /\ lag' = IF wrapped' THEN 0 ELSE lag + 1
    /\ waited' = IF waited = -1 \/ cyccnt' = 0 THEN -1 ELSE Least(waited + 1, TooLong)
    /\ UNCHANGED <<next_timeout, timeouts_last_time, diff, active, pcbs, t0, since>>

-----------------------------------------------------------------------------
(* The wait for the PC.  The 6 s for the version server are counted alike. *)

WaitBegins ==
    /\ diff = -1 /\ t0 = -1 /\ t0' = HAL_GetTick /\ waited' = 0
    /\ UNCHANGED <<cyccnt, next_timeout, timeouts_last_time, diff, active, pcbs, away, since, lag,
                   wrapped>>

\* Mutant: over as soon as the tick has moved.
MutHasty == Since(t0) > 0

Over == Since(t0) >= Patience

WaitEnds ==
    /\ diff = -1 /\ t0 # -1 /\ Over
    /\ t0' = -1 /\ waited' = -1
    /\ UNCHANGED <<cyccnt, next_timeout, timeouts_last_time, diff, active, pcbs, away, since, lag,
                   wrapped>>

-----------------------------------------------------------------------------
(* The list                                                                *)

Entry(t, time) == [who |-> t, time |-> time % Word]

Sooner(e, time) == Entry(e.who, e.time - time)

\* From timeouts_last_time to each entry.
Totals(l) ==
    LET total[i \in 0..Len(l)] == IF i = 0 THEN 0 ELSE total[i - 1] + l[i].time
    IN  total

\* Mutant: the interval is left out.
MutAtEnd(m, first, left) == IF left > m THEN first ELSE left

\* The time of an entry at the end of the list, when the loop is late.
AtEnd(m, first, left) == IF left > m THEN m + first ELSE left

\* What the walk leaves of the time due behind the i-th entry, and the entry at
\* which it stops.
Left(l, due, i) == (due - Totals(l)[i]) % Word
Stops(l, due, i) == i = Len(l) \/ l[i + 1].time > Left(l, due, i)
Place(l, due) ==
    CHOOSE i \in 1..Len(l) : Stops(l, due, i) /\ \A j \in 1..(i - 1) : ~Stops(l, due, j)

\* The list l with e linked in as its k-th entry; the time of the one after is
\* less by time.
Linked(l, k, e, time) ==
    [j \in 1..(Len(l) + 1) |->
        IF j < k THEN l[j]
        ELSE IF j = k THEN e
        ELSE IF j = k + 1 THEN Sooner(l[k], time)
        ELSE l[j - 1]]

\* The list l with t inserted, ago after timeouts_last_time.  The comparison
\* with the first entry leaves ago out.
Inserted(l, t, ago) ==
    LET m == Interval[t]
        due == (m + ago) % Word
        i == Place(l, due)
        left == Left(l, due, i)
        time == IF i = Len(l) THEN AtEnd(m, l[1].time, left) ELSE left
    IN  IF l[1].time > m THEN Linked(l, 1, Entry(t, due), m)
        ELSE Linked(l, i + 1, Entry(t, time), left)

\* sys_timeout, on a list with entries.
sys_timeout(l, t, last) == Inserted(l, t, (HAL_GetTick - last) % Word)

\* sys_timeouts_init arms the cyclic timers one after the other, at once.
sys_timeouts_init ==
    LET c == lwip_cyclic_timers
        list[i \in 1..Len(c)] == IF i = 1 THEN <<Entry(c[1], Interval[c[1]])>>
                                 ELSE Inserted(list[i - 1], c[i], 0)
    IN  list[Len(c)]

\* Mutant: the timer is started for every connection.
MutNeeded == TRUE

\* tcp_timer_needed's condition.
Needed == ~active

\* A connection is registered (TCP_REG calls tcp_timer_needed).
Open ==
    /\ diff = -1 /\ pcbs' = TRUE /\ active' = TRUE
    /\ IF Needed
       THEN /\ next_timeout' = sys_timeout(next_timeout, Tcp, timeouts_last_time)
            /\ since' = [since EXCEPT ![Tcp] = 0]
       ELSE UNCHANGED <<next_timeout, since>>
    /\ UNCHANGED <<cyccnt, timeouts_last_time, diff, t0, away, lag, waited, wrapped>>

\* The last one is gone, by a segment or by a call of the application.
Close ==
    /\ diff = -1 /\ pcbs /\ pcbs' = FALSE
    /\ UNCHANGED <<cyccnt, next_timeout, timeouts_last_time, diff, active, t0, away, since, lag,
                   waited, wrapped>>

\* sys_check_timeouts is called, by a wait only as long as it lasts.
Check ==
    /\ diff = -1 /\ (t0 = -1 \/ ~Over)
    /\ diff' = Since(timeouts_last_time) /\ away' = 0
    /\ UNCHANGED <<cyccnt, next_timeout, timeouts_last_time, active, pcbs, t0, since, lag, waited,
                   wrapped>>

\* Mutant: an entry also expires a unit too soon.
MutDue(time) == time <= diff + 1

Due(time) == time <= diff

\* cyclic_timer schedules itself again, tcpip_tcp_timer while it is needed.
Again(t) == t # Tcp \/ pcbs'

\* The first entry has expired: its handler runs.
Expire ==
    LET e == Head(next_timeout)
        last == (timeouts_last_time + e.time) % Word
    IN  /\ diff >= 0 /\ Due(e.time)
        /\ timeouts_last_time' = last /\ diff' = diff - e.time
        /\ pcbs' \in IF e.who = Tcp THEN {FALSE, pcbs} ELSE {pcbs}
        /\ active' = IF e.who = Tcp THEN Again(Tcp) ELSE active
        /\ next_timeout' = IF Again(e.who) THEN sys_timeout(Tail(next_timeout), e.who, last)
                           ELSE Tail(next_timeout)
        /\ since' = [t \in Timers |-> IF t = e.who THEN 0
                                      ELSE Least(since[t] + e.time, Interval[t])]
        /\ lag' = IF wrapped THEN 0 ELSE lag - e.time
        /\ UNCHANGED <<cyccnt, t0, away, waited, wrapped>>

\* None has.
Checked ==
    /\ diff >= 0 /\ ~Due(Head(next_timeout).time) /\ diff' = -1 /\ away' = 0
    /\ UNCHANGED <<cyccnt, next_timeout, timeouts_last_time, active, pcbs, t0, since, lag,
                   waited, wrapped>>

-----------------------------------------------------------------------------

Init ==
    /\ cyccnt \in 0..(Period - 1) /\ timeouts_last_time = HAL_GetTick
    /\ next_timeout = sys_timeouts_init
    /\ diff = -1 /\ active = FALSE /\ pcbs = FALSE /\ t0 = -1 /\ away = 0
    /\ since = [t \in Timers |-> 0] /\ lag = cyccnt - timeouts_last_time
    /\ waited = -1 /\ wrapped = FALSE

Loop == Check \/ Expire \/ Checked \/ WaitEnds
Polling == Advance \/ Open \/ Close \/ Loop
Next == Polling \/ WaitBegins

Spec == Init /\ [][Next]_vars

\* The main loop, which waits for nothing.  Time goes on and the loop does; a
\* pass is short, so it polls again and again at every value of the tick,
\* whatever it does now and then.
CheckAt(tick) == Check /\ HAL_GetTick = tick
PollingSpec ==
    /\ Init /\ [][Polling]_vars
    /\ SF_vars(Advance) /\ WF_vars(Loop)
    /\ \A tick \in {(c \div Second) * Second : c \in 0..(Period - 1)} : SF_vars(CheckAt(tick))

-----------------------------------------------------------------------------
(* Properties                                                              *)

\* Each cyclic timer is in the list once, and TCP's is when it is active: the
\* ten entries of the pool (MEMP_NUM_SYS_TIMEOUT) are never used up by
\* connections that come and go.
ArmedOnce ==
    /\ \A i, j \in 1..Len(next_timeout) : next_timeout[i].who = next_timeout[j].who => i = j
    /\ {next_timeout[i].who : i \in 1..Len(next_timeout)}
         = Cyclic \cup (IF active THEN {Tcp} ELSE {})

\* No timer runs before its interval has passed by lwIP's own clock, however
\* late the loop is and wherever sys_timeout inserts it, until the tick falls
\* back.
NotEarly ==
    wrapped \/ \A i \in 1..Len(next_timeout) :
        LET who == next_timeout[i].who
        IN  since[who] + Totals(next_timeout)[i] >= Interval[who]

\* lwIP's clock never runs ahead of the time, until the tick falls back.
NeverAhead == lag >= 0

\* The cyclic timers run again and again, across the wrap too: sys_check_timeouts
\* says of its difference that "this cares for wraparounds" (timeouts.c 322).
TimersRun == \A t \in Cyclic : []<>(since[t] = 0)

\* A wait ends no more than a step of the tick too early, and never polls for
\* more than a step too long, unless the tick falls back meanwhile ("send once ->
\* wait 2 seconds", menu.c 577).
WaitFits ==
    [][waited # -1 => /\ WaitEnds => waited > Patience - Second
                      /\ Check => waited < TooLong]_vars

=============================================================================
