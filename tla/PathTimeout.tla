---------------------------- MODULE PathTimeout ----------------------------
(***************************************************************************)
(* The two path timers of one extension that passes commands on: the       *)
(* timeouts it is configured with, the expiry times of its paths, and the  *)
(* periodic checks that remove the expired ones.                           *)
(*                                                                         *)
(* The extension answers a command only after it was answered itself, so   *)
(* an IN path that expires before the OUT path of the same command takes   *)
(* the answer away; ten_extension_adjust_in_path_timeout is there to       *)
(* prevent this.                                                           *)
(*                                                                         *)
(* Times are in microseconds, counted from the start of the extension.     *)
(***************************************************************************)
EXTENDS Integers

CONSTANTS
    MaxUInt,         \* UINT64_MAX
    Second,          \* one second: what an extension has for its own work
    DefaultTimeout,  \* TEN_DEFAULT_PATH_TIMEOUT
    DefaultInterval, \* TEN_DEFAULT_PATH_CHECK_INTERVAL
    Sections,        \* whether the property has a `_ten` section
    Settings,        \* values in that section; one below 1 is not used
    MaxForward,      \* bound on the time from receiving to passing on
    MaxLate,         \* bound on the time a timer fires late (a busy thread)
    MaxCmd,          \* bound on the commands received
    Horizon          \* bound on the clock

ASSUME TimeAssumption ==
    /\ MaxUInt \in Nat
    /\ Second \in 0 .. MaxUInt
    /\ DefaultTimeout \in 1 .. MaxUInt
    /\ DefaultInterval \in 1 .. MaxUInt
    /\ Sections \subseteq BOOLEAN
    /\ Settings \subseteq {s \in Int : s <= MaxUInt}

ASSUME LimitAssumption ==
    /\ MaxForward \in Nat
    /\ MaxLate \in Nat
    /\ MaxCmd \in Nat
    /\ Horizon \in 0 .. MaxUInt - 1

VARIABLES
    info,       \* path_timeout_info: the timeouts and the check interval
    timersOn,   \* the timers are created
    now,        \* the clock
    inDue,      \* when the timer of the IN paths fires next
    outDue,     \* when the timer of the OUT paths fires next
    inPaths,    \* the IN paths
    outPaths,   \* the OUT paths
    received    \* the number of commands received

vars == <<info, timersOn, now, inDue, outDue, inPaths, outPaths, received>>

Time == 0 .. MaxUInt

\* A path of command cmd, when it was made and when it expires.
Path == [cmd : Nat, born : Time, expired : Time]

Info == [in : Time, out : 1 .. MaxUInt, check : 1 .. MaxUInt]

-----------------------------------------------------------------------------
\* The timeouts.

\* Unsigned addition.
Add(x, y) == IF x + y <= MaxUInt THEN x + y ELSE x + y - (MaxUInt + 1)

\* A value of the property section is used if it is positive.
Setting(s, default) == IF s > 0 THEN s ELSE default

\* The second is left out.
BadLeastNoSecond(out, check) ==
    IF out < MaxUInt - check THEN Add(out, check) ELSE MaxUInt

\* The least timeout of an IN path: the OUT path's, a check interval and a
\* second, as far as that does not overflow.
LeastInTimeout(out, check) ==
    LET sum == IF out < MaxUInt - check THEN Add(out, check) ELSE MaxUInt
    IN  IF sum < MaxUInt - Second THEN Add(sum, Second) ELSE sum

Adjusted(i) ==
    LET least == LeastInTimeout(i.out, i.check)
    IN  [i EXCEPT !.in = IF @ < least THEN least ELSE @]

\* The expiry time wraps around.
BadExpiry(timeout) == Add(now, timeout)

\* The expiry time, as late as the type can hold.
Expiry(timeout) ==
    IF timeout > MaxUInt - now THEN MaxUInt ELSE Add(now, timeout)

\* Where a timer of the interval is due: it is counted from the time its
\* runloop last looked at the clock, and in whole milliseconds.
NextDue(interval) == {d \in now + 1 .. now + interval : d <= MaxUInt}

-----------------------------------------------------------------------------
Init ==
    /\ info = [in |-> DefaultTimeout, out |-> DefaultTimeout,
               check |-> DefaultInterval]
    /\ timersOn = FALSE
    /\ now = 0
    /\ inDue = 0
    /\ outDue = 0
    /\ inPaths = {}
    /\ outPaths = {}
    /\ received = 0

\* on_configure_done: the timeouts are read from the `_ten` section, adjusted
\* if there is one, and the timers are created and enabled.
ConfigureDone(section, in, out, check) ==
    /\ ~timersOn
    /\ timersOn' = TRUE
    /\ info' = IF section
                 THEN Adjusted([in |-> Setting(in, info.in),
                                out |-> Setting(out, info.out),
                                check |-> Setting(check, info.check)])
                 ELSE info
    /\ inDue' \in NextDue(info'.check)
    /\ outDue' \in NextDue(info'.check)
    /\ UNCHANGED <<now, inPaths, outPaths, received>>

\* A command enters: its IN path is made.
Receive ==
    /\ timersOn
    /\ received < MaxCmd
    /\ received' = received + 1
    /\ inPaths' = inPaths \cup {[cmd |-> received + 1, born |-> now,
                                 expired |-> Expiry(info.in)]}
    /\ UNCHANGED <<info, timersOn, now, inDue, outDue, outPaths>>

\* The command of p leaves: an OUT path is made.
Forward(p) ==
    /\ p \in inPaths
    /\ now <= p.born + MaxForward
    /\ \A q \in outPaths : q.cmd # p.cmd
    /\ outPaths' = outPaths \cup {[cmd |-> p.cmd, born |-> now,
                                   expired |-> Expiry(info.out)]}
    /\ UNCHANGED <<info, timersOn, now, inDue, outDue, inPaths, received>>

\* The answer for q comes, and the command is answered in turn.
Answer(q) ==
    /\ q \in outPaths
    /\ outPaths' = outPaths \ {q}
    /\ inPaths' = {p \in inPaths : p.cmd # q.cmd}
    /\ UNCHANGED <<info, timersOn, now, inDue, outDue, received>>

Expired(paths) == {p \in paths : now >= p.expired}

\* The timer of the IN paths fires: the expired ones are removed.
InTimer ==
    /\ timersOn
    /\ now >= inDue
    /\ inPaths' = inPaths \ Expired(inPaths)
    /\ inDue' \in NextDue(info.check)
    /\ UNCHANGED <<info, timersOn, now, outDue, outPaths, received>>

\* The timer of the OUT paths fires: the expired ones get an error result.
OutTimer ==
    /\ timersOn
    /\ now >= outDue
    /\ outPaths' = outPaths \ Expired(outPaths)
    /\ outDue' \in NextDue(info.check)
    /\ UNCHANGED <<info, timersOn, now, inDue, inPaths, received>>

\* Time passes, but no timer is later than the thread makes it.
Tick ==
    /\ now < Horizon
    /\ timersOn => now < inDue + MaxLate /\ now < outDue + MaxLate
    /\ now' = now + 1
    /\ UNCHANGED <<info, timersOn, inDue, outDue, inPaths, outPaths, received>>

Next ==
    \/ \E s \in Sections, in, out, check \in Settings :
         ConfigureDone(s, in, out, check)
    \/ Receive
    \/ \E p \in inPaths : Forward(p)
    \/ \E q \in outPaths : Answer(q)
    \/ InTimer
    \/ OutTimer
    \/ Tick

Spec == Init /\ [][Next]_vars

-----------------------------------------------------------------------------
\* The state is well formed; the expiry times stay in the unsigned range.
TypeOK ==
    /\ info \in Info
    /\ timersOn \in BOOLEAN
    /\ now \in 0 .. Horizon
    /\ inDue \in Time
    /\ outDue \in Time
    /\ inPaths \subseteq Path
    /\ outPaths \subseteq Path
    /\ received \in 0 .. MaxCmd

\* While the OUT path of a command waits, its IN path is there, so that the
\* answer, or the error result of the timeout, finds its way back: "we have to
\* ensure that, for ExtensionB, the in_path is removed after the out_path is
\* removed" (extension/internal/metadata.c:100-101).
AnswerFindsWay ==
    \A q \in outPaths : \E p \in inPaths : p.cmd = q.cmd

\* No path expires before the time it was given, although the timeouts may be
\* as large as the type allows (get_expired_time, path/path_table.c:145-156),
\* and an IN path is given no less time than an OUT path.
TimeNotLost ==
    /\ \A p \in inPaths : p.expired >= p.born + info.in \/ p.expired = MaxUInt
    /\ \A q \in outPaths : q.expired >= q.born + info.out \/ q.expired = MaxUInt
    /\ timersOn => info.in >= info.out

\* The parts of the inductive invariants that are not properties of their own.

\* There is a path only when there are timers; until then the timeouts are the
\* default ones.
NothingBefore ==
    ~timersOn => /\ inPaths = {} /\ outPaths = {}
                 /\ info = [in |-> DefaultTimeout, out |-> DefaultTimeout,
                            check |-> DefaultInterval]

\* The check comes before an OUT path is over its time by a whole interval.
CheckedInTime ==
    /\ timersOn => /\ info.in >= info.out + info.check + Second
                   /\ now <= outDue /\ outDue <= now + info.check
    /\ \A q \in outPaths : outDue < q.expired + info.check

\* An OUT path expires an interval before the IN path of its command.
ExpiresFirst ==
    /\ \A q \in outPaths : \E p \in inPaths :
         /\ p.cmd = q.cmd
         /\ p.expired >= q.expired + info.check \/ p.expired = MaxUInt
    /\ \A q, r \in outPaths : q.cmd = r.cmd => q = r
=============================================================================
