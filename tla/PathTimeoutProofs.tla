------------------------- MODULE PathTimeoutProofs -------------------------
(***************************************************************************)
(* For every setting of the timeouts: a command that is passed on in time  *)
(* can be answered as long as its OUT path waits.                          *)
(***************************************************************************)
EXTENDS PathTimeout, TLAPS

\* What the proof rests on: there is a `_ten` section, the timers fire in
\* time, a command is passed on within a second, and the timeouts are small
\* enough to be added.
Punctual ==
    /\ Sections \subseteq {TRUE}
    /\ MaxLate = 0
    /\ MaxForward <= Second
    /\ \A o \in Settings \cup {DefaultTimeout}, z \in Settings \cup {DefaultInterval} :
         o + z + Second < MaxUInt

-----------------------------------------------------------------------------
\* A sum that fits is the sum.
LEMMA AddFits ==
    ASSUME NEW x \in Nat, NEW y \in Nat, x + y <= MaxUInt
    PROVE  Add(x, y) = x + y
  BY DEF Add

\* Any sum of two times is a time.
LEMMA AddTime ==
    ASSUME NEW x \in Time, NEW y \in Time
    PROVE  Add(x, y) \in Time
  BY TimeAssumption DEF Add, Time

\* The least IN timeout is a time.
LEMMA LeastType ==
    ASSUME NEW out \in Time, NEW check \in Time
    PROVE  LeastInTimeout(out, check) \in Time
<1> DEFINE sum == IF out < MaxUInt - check THEN Add(out, check) ELSE MaxUInt
<1>1. Second \in Time /\ MaxUInt \in Time
  BY TimeAssumption DEF Time
<1>2. sum \in Time
  BY <1>1, AddTime
<1>3. LeastInTimeout(out, check) = IF sum < MaxUInt - Second THEN Add(sum, Second) ELSE sum
  BY DEF LeastInTimeout
<1> HIDE DEF sum
<1> QED
  BY <1>1, <1>2, <1>3, AddTime

\* The adjusted timeout of the IN paths leaves room for the OUT path's
\* timeout, a check interval and a second.
LEMMA LeastCovers ==
    ASSUME NEW out \in Time, NEW check \in Time, out + check + Second < MaxUInt
    PROVE  LeastInTimeout(out, check) = out + check + Second
<1>1. Add(out, check) = out + check /\ Add(out + check, Second) = out + check + Second
  BY TimeAssumption, AddFits DEF Time
<1> QED
  BY <1>1, TimeAssumption DEF LeastInTimeout, Time

\* Even where it does overflow, an IN path is given no less than an OUT path.
LEMMA LeastIsMore ==
    ASSUME NEW out \in Time, NEW check \in Time
    PROVE  LeastInTimeout(out, check) >= out
<1>1. CASE out < MaxUInt - check
  <2>1. Add(out, check) = out + check
    BY <1>1, TimeAssumption, AddFits DEF Time
  <2>2. out + check < MaxUInt - Second => Add(out + check, Second) = out + check + Second
    BY TimeAssumption, AddFits DEF Time
  <2> QED
    BY <1>1, <2>1, <2>2, TimeAssumption DEF LeastInTimeout, Time
<1>2. CASE ~(out < MaxUInt - check)
  <2>1. ~(MaxUInt < MaxUInt - Second)
    BY TimeAssumption
  <2> QED
    BY <1>2, <2>1, TimeAssumption DEF LeastInTimeout, Time
<1> QED
  BY <1>1, <1>2

\* An expiry time is the sum, or never.
LEMMA ExpiryValue ==
    ASSUME NEW t \in Time, now \in Time
    PROVE  /\ Expiry(t) \in Time
           /\ Expiry(t) = now + t \/ (Expiry(t) = MaxUInt /\ now + t > MaxUInt)
<1>1. CASE t > MaxUInt - now
  BY <1>1, TimeAssumption DEF Expiry, Time
<1>2. CASE ~(t > MaxUInt - now)
  <2>1. Add(now, t) = now + t
    BY <1>2, TimeAssumption, AddFits DEF Time
  <2> QED
    BY <1>2, <2>1, TimeAssumption DEF Expiry, Time
<1> QED
  BY <1>1, <1>2

-----------------------------------------------------------------------------
\* Type correctness.

\* The settings are times after the configuration.
LEMMA ConfiguredType ==
    ASSUME TypeOK, NEW section, NEW in \in Settings, NEW out \in Settings,
           NEW check \in Settings, ConfigureDone(section, in, out, check)
    PROVE  info' \in Info
<1> DEFINE i == [in |-> Setting(in, info.in), out |-> Setting(out, info.out),
                 check |-> Setting(check, info.check)]
<1>1. i \in Info
  BY TimeAssumption DEF TypeOK, Setting, Info, Time
<1>2. LeastInTimeout(i.out, i.check) \in Time
  BY <1>1, LeastType, TimeAssumption DEF Info, Time
<1>3. info' = IF section THEN Adjusted(i) ELSE info
  BY DEF ConfigureDone
<1> HIDE DEF i
<1>4. Adjusted(i) \in Info
  BY <1>1, <1>2 DEF Adjusted, Info
<1> QED
  BY <1>3, <1>4 DEF TypeOK

\* The state keeps its type: in particular no expiry time leaves the unsigned
\* range, whatever the timeouts (get_expired_time, path/path_table.c:145-156).
THEOREM TimesInRange == Spec => []TypeOK
<1>1. Init => TypeOK
  <2>1. Init => info \in Info
    BY TimeAssumption DEF Init, Info, Time
  <2>2. 0 \in Time /\ 0 \in 0 .. Horizon /\ 0 \in 0 .. MaxCmd
    BY TimeAssumption, LimitAssumption DEF Time
  <2> QED
    BY <2>1, <2>2 DEF Init, TypeOK
<1>2. TypeOK /\ [Next]_vars => TypeOK'
  <2> SUFFICES ASSUME TypeOK, [Next]_vars PROVE TypeOK'
    OBVIOUS
  <2>0. now \in Time
    BY LimitAssumption, TimeAssumption DEF TypeOK, Time
  <2>1. ASSUME NEW s \in Sections, NEW in \in Settings, NEW out \in Settings,
               NEW check \in Settings, ConfigureDone(s, in, out, check)
        PROVE  TypeOK'
    BY <2>1, ConfiguredType, TimeAssumption DEF ConfigureDone, TypeOK, NextDue, Time,
         Info
  <2>2. CASE Receive
    <3>1. Expiry(info.in) \in Time
      BY <2>0, ExpiryValue DEF TypeOK, Info
    <3>2. [cmd |-> received + 1, born |-> now, expired |-> Expiry(info.in)] \in Path
      BY <2>0, <3>1, LimitAssumption DEF Path, TypeOK
    <3> QED
      BY <2>2, <3>2, LimitAssumption DEF Receive, TypeOK
  <2>3. ASSUME NEW p \in inPaths, Forward(p)
        PROVE  TypeOK'
    <3>1. Expiry(info.out) \in Time
      BY <2>0, ExpiryValue DEF TypeOK, Info, Time
    <3>2. [cmd |-> p.cmd, born |-> now, expired |-> Expiry(info.out)] \in Path
      BY <2>0, <3>1 DEF Path, TypeOK
    <3> QED
      BY <2>3, <3>2 DEF Forward, TypeOK
  <2>4. ASSUME NEW q \in outPaths, Answer(q)
        PROVE  TypeOK'
    BY <2>4 DEF Answer, TypeOK
  <2>5. CASE InTimer
    BY <2>0, <2>5, TimeAssumption DEF InTimer, TypeOK, NextDue, Time, Info
  <2>6. CASE OutTimer
    BY <2>0, <2>6, TimeAssumption DEF OutTimer, TypeOK, NextDue, Time, Info
  <2>7. CASE Tick
    BY <2>7, LimitAssumption DEF Tick, TypeOK
  <2>8. CASE UNCHANGED vars
    BY <2>8 DEF vars, TypeOK
  <2> QED
    BY <2>1, <2>2, <2>3, <2>4, <2>5, <2>6, <2>7, <2>8 DEF Next
<1> QED
  BY <1>1, <1>2, PTL DEF Spec

-----------------------------------------------------------------------------
\* What holds whatever the settings.

\* Every step keeps the two facts that need no punctual timers.
LEMMA BeforeStep ==
    ASSUME TypeOK, NothingBefore, TimeNotLost, [Next]_vars
    PROVE  NothingBefore' /\ TimeNotLost'
<1>0. now \in Time /\ info \in Info
  BY LimitAssumption, TimeAssumption DEF TypeOK, Time
<1>1. ASSUME NEW s \in Sections, NEW in \in Settings, NEW out \in Settings,
             NEW check \in Settings, ConfigureDone(s, in, out, check)
      PROVE  NothingBefore' /\ TimeNotLost'
  <2> DEFINE i == [in |-> Setting(in, info.in), out |-> Setting(out, info.out),
                   check |-> Setting(check, info.check)]
  <2>1. i \in Info
    BY TimeAssumption DEF TypeOK, Setting, Info, Time
  <2>2. /\ info' = IF s THEN Adjusted(i) ELSE info
        /\ timersOn' /\ ~timersOn /\ inPaths' = inPaths /\ outPaths' = outPaths
    BY <1>1 DEF ConfigureDone
  <2> HIDE DEF i
  <2>3. Adjusted(i).in >= Adjusted(i).out
    <3>1. /\ LeastInTimeout(i.out, i.check) >= i.out
          /\ LeastInTimeout(i.out, i.check) \in Time
      BY <2>1, LeastIsMore, LeastType, TimeAssumption DEF Info, Time
    <3> QED
      BY <2>1, <3>1 DEF Adjusted, Info, Time
  <2>4. info.in >= info.out
    BY <2>2, TimeAssumption DEF NothingBefore
  <2>5. inPaths' = {} /\ outPaths' = {}
    BY <2>2 DEF NothingBefore
  <2> QED
    BY <2>2, <2>3, <2>4, <2>5 DEF NothingBefore, TimeNotLost
<1>2. CASE Receive
  <2>1. Expiry(info.in) >= now + info.in \/ Expiry(info.in) = MaxUInt
    BY <1>0, ExpiryValue DEF Info, Time
  <2> QED
    BY <1>2, <2>1 DEF Receive, NothingBefore, TimeNotLost
<1>3. ASSUME NEW p \in inPaths, Forward(p)
      PROVE  NothingBefore' /\ TimeNotLost'
  <2>1. Expiry(info.out) >= now + info.out \/ Expiry(info.out) = MaxUInt
    BY <1>0, ExpiryValue DEF Info, Time
  <2> QED
    BY <1>3, <2>1 DEF Forward, NothingBefore, TimeNotLost
<1>4. ASSUME NEW q \in outPaths, Answer(q)
      PROVE  NothingBefore' /\ TimeNotLost'
  BY <1>4 DEF Answer, NothingBefore, TimeNotLost
<1>5. CASE InTimer \/ OutTimer
  BY <1>5 DEF InTimer, OutTimer, NothingBefore, TimeNotLost
<1>6. CASE Tick \/ UNCHANGED vars
  BY <1>6 DEF Tick, vars, NothingBefore, TimeNotLost
<1> QED
  BY <1>1, <1>2, <1>3, <1>4, <1>5, <1>6 DEF Next

\* No timeout is too large for the type: a path never expires before its time,
\* and an IN path is given no less than an OUT path (the overflow checks of
\* extension/internal/metadata.c:140-158 and path/path_table.c:145-156).
THEOREM NoTimeLost == Spec => []TimeNotLost
<1>1. Init => NothingBefore /\ TimeNotLost
  BY DEF Init, NothingBefore, TimeNotLost
<1>2. TypeOK /\ NothingBefore /\ TimeNotLost /\ [Next]_vars
      => NothingBefore' /\ TimeNotLost'
  BY BeforeStep
<1> QED
  BY <1>1, <1>2, TimesInRange, PTL DEF Spec

-----------------------------------------------------------------------------
\* What holds if everything is punctual.

\* Every step keeps the OUT timer due within an interval of every expiry.
LEMMA CheckedStep ==
    ASSUME Punctual, TypeOK, NothingBefore, CheckedInTime, [Next]_vars
    PROVE  CheckedInTime'
<1>0. now \in Time /\ info \in Info /\ outDue \in Time
  BY LimitAssumption, TimeAssumption DEF TypeOK, Time
<1>1. ASSUME NEW s \in Sections, NEW in \in Settings, NEW out \in Settings,
             NEW check \in Settings, ConfigureDone(s, in, out, check)
      PROVE  CheckedInTime'
  <2> DEFINE o == Setting(out, info.out)
             z == Setting(check, info.check)
             i == [in |-> Setting(in, info.in), out |-> o, check |-> z]
  <2>1. /\ info' = Adjusted(i) /\ outDue' \in NextDue(info'.check)
        /\ now' = now /\ outPaths' = outPaths /\ ~timersOn
    BY <1>1 DEF ConfigureDone, Punctual
  <2>2. i \in Info
    BY TimeAssumption DEF TypeOK, Setting, Info, Time
  <2>3. o \in Settings \cup {DefaultTimeout} /\ z \in Settings \cup {DefaultInterval}
    BY <2>1 DEF NothingBefore, Setting
  <2>4. o \in Time /\ z \in Time
    BY <2>2 DEF Info, Time
  <2> HIDE DEF o, z
  <2>5. LeastInTimeout(o, z) = o + z + Second
    BY <2>3, <2>4, LeastCovers DEF Punctual
  <2>6. /\ Adjusted(i).in >= o + z + Second
        /\ Adjusted(i).out = o /\ Adjusted(i).check = z
    BY <2>2, <2>4, <2>5, TimeAssumption DEF Adjusted, Info, Time
  <2>7. outPaths' = {}
    BY <2>1 DEF NothingBefore
  <2>8. now <= outDue' /\ outDue' <= now + z
    BY <1>0, <2>1, <2>4, <2>6 DEF NextDue, Time
  <2> QED
    BY <2>1, <2>6, <2>7, <2>8 DEF CheckedInTime
<1>2. CASE Receive
  BY <1>2 DEF Receive, CheckedInTime
<1>3. ASSUME NEW p \in inPaths, Forward(p)
      PROVE  CheckedInTime'
  <2>1. outDue < Expiry(info.out) + info.check
    <3>1. timersOn
      BY DEF NothingBefore
    <3>2. Expiry(info.out) = now + info.out \/ Expiry(info.out) = MaxUInt
      BY <1>0, ExpiryValue DEF Info, Time
    <3>3. /\ info.out \in 1 .. MaxUInt /\ info.check \in 1 .. MaxUInt
          /\ now \in Int /\ outDue \in Int /\ outDue <= MaxUInt /\ MaxUInt \in Int
      BY <1>0, TimeAssumption DEF Info, Time
    <3>4. outDue <= now + info.check
      BY <3>1 DEF CheckedInTime
    <3> QED
      BY <3>2, <3>3, <3>4
  <2> QED
    BY <1>3, <2>1 DEF Forward, CheckedInTime
<1>4. ASSUME NEW q \in outPaths, Answer(q)
      PROVE  CheckedInTime'
  BY <1>4 DEF Answer, CheckedInTime
<1>5. CASE InTimer
  BY <1>5 DEF InTimer, CheckedInTime
<1>6. CASE OutTimer
  <2>1. ASSUME NEW q \in outPaths'
        PROVE  outDue' < q.expired + info.check
    <3>1. q.expired \in Int /\ now \in Int /\ info.check \in Int
      BY <1>0, <1>6 DEF OutTimer, TypeOK, Path, Info, Time
    <3>2. now < q.expired /\ outDue' <= now + info.check /\ outDue' \in Int
      BY <1>0, <1>6, <3>1 DEF OutTimer, Expired, NextDue, Time
    <3> QED
      BY <3>1, <3>2
  <2>2. now <= outDue' /\ outDue' <= now + info.check
    BY <1>0, <1>6 DEF OutTimer, NextDue, Time, Info
  <2> QED
    BY <1>6, <2>1, <2>2 DEF OutTimer, CheckedInTime
<1>7. CASE Tick
  BY <1>0, <1>7 DEF Tick, CheckedInTime, Punctual, Time, Info
<1>8. CASE UNCHANGED vars
  BY <1>8 DEF vars, CheckedInTime
<1> QED
  BY <1>1, <1>2, <1>3, <1>4, <1>5, <1>6, <1>7, <1>8 DEF Next

\* Every step keeps an IN path ahead of the OUT path made from it.
LEMMA FirstStep ==
    ASSUME Punctual, TypeOK, NothingBefore, TimeNotLost, CheckedInTime, ExpiresFirst,
           [Next]_vars
    PROVE  ExpiresFirst'
<1>0. /\ now \in Time /\ info \in Info /\ outDue \in Time /\ MaxUInt \in Nat
      /\ now < MaxUInt /\ Second \in Nat
  BY LimitAssumption, TimeAssumption DEF TypeOK, Time
<1>1. ASSUME NEW s \in Sections, NEW in \in Settings, NEW out \in Settings,
             NEW check \in Settings, ConfigureDone(s, in, out, check)
      PROVE  ExpiresFirst'
  BY <1>1 DEF ConfigureDone, NothingBefore, ExpiresFirst
<1>2. CASE Receive
  BY <1>2 DEF Receive, ExpiresFirst
<1>3. ASSUME NEW p \in inPaths, Forward(p)
      PROVE  ExpiresFirst'
  <2> DEFINE q == [cmd |-> p.cmd, born |-> now, expired |-> Expiry(info.out)]
  <2>1. p.expired >= q.expired + info.check \/ p.expired = MaxUInt
    <3>1. p.born \in Int /\ p.expired \in Int
      BY DEF TypeOK, Path, Time
    <3>2. p.expired >= p.born + info.in \/ p.expired = MaxUInt
      BY DEF TimeNotLost
    <3>3. now <= p.born + Second
      BY <1>0, <1>3, <3>1, LimitAssumption DEF Forward, Punctual, Time
    <3>4. info.in >= info.out + info.check + Second
      BY <1>3 DEF CheckedInTime, NothingBefore
    <3>5. q.expired \in Int /\ q.expired <= now + info.out
      BY <1>0, ExpiryValue DEF Info, Time
    <3>6. info.in \in Int /\ info.out \in Int /\ info.check \in Int /\ now \in Int
      BY <1>0 DEF Info, Time
    <3> HIDE DEF q
    <3> QED
      BY <1>0, <3>1, <3>2, <3>3, <3>4, <3>5, <3>6
  <2>2. /\ outPaths' = outPaths \cup {q} /\ inPaths' = inPaths /\ info' = info
        /\ \A r \in outPaths : r.cmd # p.cmd
    BY <1>3 DEF Forward
  <2>3. q.cmd = p.cmd
    OBVIOUS
  <2> HIDE DEF q
  <2> QED
    BY <2>1, <2>2, <2>3 DEF ExpiresFirst
<1>4. ASSUME NEW q \in outPaths, Answer(q)
      PROVE  ExpiresFirst'
  BY <1>4 DEF Answer, ExpiresFirst
<1>5. CASE InTimer
  <2>1. ASSUME NEW q \in outPaths, NEW p \in inPaths,
               p.expired >= q.expired + info.check \/ p.expired = MaxUInt
        PROVE  p \in inPaths'
    <3>1. now <= outDue /\ outDue < q.expired + info.check
      BY <1>5 DEF InTimer, CheckedInTime
    <3>2. q.expired \in Int /\ p.expired \in Int /\ info.check \in Int
      BY <1>0 DEF TypeOK, Path, Info, Time
    <3>3. ~(now >= p.expired)
      BY <1>0, <2>1, <3>1, <3>2 DEF Time
    <3> QED
      BY <1>5, <3>3 DEF InTimer, Expired
  <2> QED
    BY <1>5, <2>1 DEF InTimer, ExpiresFirst
<1>6. CASE OutTimer
  BY <1>6 DEF OutTimer, ExpiresFirst
<1>7. CASE Tick \/ UNCHANGED vars
  BY <1>7 DEF Tick, vars, ExpiresFirst
<1> QED
  BY <1>1, <1>2, <1>3, <1>4, <1>5, <1>6, <1>7 DEF Next

\* What ten_extension_adjust_in_path_timeout is for
\* (extension/internal/metadata.c:81-160): the answer to a command that was
\* passed on finds the command's IN path, for all settings of the timeouts.
THEOREM AnswersFindTheirWay ==
    ASSUME Punctual
    PROVE  Spec => []AnswerFindsWay
<1>1. Init => CheckedInTime /\ ExpiresFirst
  BY DEF Init, CheckedInTime, ExpiresFirst
<1>2. Init => NothingBefore /\ TimeNotLost
  BY DEF Init, NothingBefore, TimeNotLost
<1>3. /\ TypeOK /\ NothingBefore /\ TimeNotLost /\ CheckedInTime /\ ExpiresFirst
      /\ [Next]_vars
      => NothingBefore' /\ TimeNotLost' /\ CheckedInTime' /\ ExpiresFirst'
  BY BeforeStep, CheckedStep, FirstStep
<1>4. ExpiresFirst => AnswerFindsWay
  BY DEF ExpiresFirst, AnswerFindsWay
<1> QED
  BY <1>1, <1>2, <1>3, <1>4, TimesInRange, PTL DEF Spec
=============================================================================
