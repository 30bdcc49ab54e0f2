------------------------- MODULE CacheTimer_proofs --------------------------
(***************************************************************************)
(* Theorems about CacheTimer for every width and every argument of Tick.   *)
(***************************************************************************)
EXTENDS CacheTimer, TLAPS

\* What the remainder does to a sum of two words.
LEMMA ModFacts ==
  /\ \A a \in Word : a % M = a /\ (a + M) % M = a
  /\ \A a \in Nat : a % M \in Word
<1> USE TimerAssumption DEF Word
<1>1. \A a \in Word : a % M = a
  OBVIOUS
<1>2. \A a \in Word : (a + M) % M = a
  OBVIOUS
<1>3. \A a \in Nat : a % M \in Word
  OBVIOUS
<1> QED BY <1>1, <1>2, <1>3

\* While the cached time goes forward, the time counted and pending is at most
\* the cached time: the sums that could wrap are below M.
IInv ==
  /\ clock \in 0 .. MaxClock
  /\ cur \in Word /\ start \in Word /\ net \in Word /\ skipped \in Word
  /\ course \in {"forward", "back"}
  /\ course = "forward" => start <= cur /\ net + (cur - start) <= cur

\* On words whose sum or difference is a word, Plus and Minus are + and -.
LEMMA WordFacts ==
  /\ 0 \in Word
  /\ \A a, b \in Word : Plus(a, b) \in Word /\ Minus(a, b) \in Word
  /\ \A a, b \in Word : a + b < M => Plus(a, b) = a + b
  /\ \A a, b \in Word : b <= a => Minus(a, b) = a - b
<1> USE TimerAssumption
<1>1. \A a, b \in Word : a + b \in Nat /\ a + M - b \in Nat
  BY DEF Word
<1>2. \A a, b \in Word : a + b < M => a + b \in Word
  BY DEF Word
<1>3. \A a, b \in Word :
        b <= a => a - b \in Word /\ a + M - b = (a - b) + M
  BY DEF Word
<1> QED BY <1>1, <1>2, <1>3, ModFacts DEF Plus, Minus, Word

\* IInv holds initially and every step keeps it.
LEMMA IInvInductive ==
  /\ Init => IInv
  /\ IInv /\ [Next]_vars => IInv'
<1> USE TimerAssumption
<1>1. Init => IInv
  BY WordFacts DEF Init, IInv, Word
<1>2. ASSUME IInv, [Next]_vars
      PROVE  IInv'
  <2>1. /\ clock \in 0 .. MaxClock /\ clock \in Word
        /\ cur \in Word /\ start \in Word /\ net \in Word /\ skipped \in Word
        /\ course \in {"forward", "back"}
        /\ course = "forward" => start <= cur /\ net + (cur - start) <= cur
    BY <1>2 DEF IInv, Word
  <2>2. ASSUME NEW t \in Word, SetCur(t)
        PROVE  IInv'
    BY <2>1, <2>2 DEF SetCur, IInv, Word
  <2>3. ASSUME Elapse
        PROVE  IInv'
    BY <2>1, <2>3 DEF Elapse, IInv
  <2>4. ASSUME Refresh
        PROVE  IInv'
    BY <2>1, <2>2, <2>4 DEF Refresh
  <2>5. ASSUME NEW t \in Word, Wrap(t)
        PROVE  IInv'
    BY <2>2, <2>5 DEF Wrap
  <2>6. ASSUME NEW n \in Ticks, Tick(n)
        PROVE  IInv'
    <3>1. Plus(cur, n) \in Word
      <4>1. n \in Word
        BY DEF Word
      <4> QED BY <2>1, <4>1, WordFacts
    <3> QED BY <3>1, <2>2, <2>6 DEF Tick
  <2>7. ASSUME Resume
        PROVE  IInv'
    <3>1. skipped' \in Word
      BY <2>1, <2>7, WordFacts DEF Resume, GetNsecFromStart
    <3> QED BY <2>1, <2>7, <3>1 DEF Resume, IInv, Word
  <2>8. ASSUME Pause
        PROVE  IInv'
    <3>1. net' \in Word
      BY <2>1, <2>8, WordFacts DEF Pause
    <3>2. ASSUME course = "forward"
          PROVE  net' = net + (cur - start)
      <4>1. Minus(cur, start) = cur - start
        BY <2>1, <3>2, WordFacts
      <4>2. cur - start \in Word /\ net + (cur - start) < M
        BY <2>1, <3>2 DEF Word
      <4>3. Plus(net, cur - start) = net + (cur - start)
        BY <2>1, <4>2, WordFacts
      <4> QED BY <2>8, <4>1, <4>3 DEF Pause
    <3> QED BY <2>1, <2>8, <3>1, <3>2 DEF Pause, IInv, Word
  <2>9. ASSUME Reset
        PROVE  IInv'
    BY <2>1, <2>9, WordFacts DEF Reset, IInv, Word
  <2>10. ASSUME UNCHANGED vars
         PROVE  IInv'
    BY <2>1, <2>10 DEF vars, IInv
  <2> QED BY <1>2, <2>3, <2>4, <2>5, <2>6, <2>7, <2>8, <2>9, <2>10 DEF Next
<1> QED BY <1>1, <1>2

\* IInv gives the property of the run.
LEMMA IInvSuffices == IInv => ForwardIsSound
<1> SUFFICES ASSUME IInv PROVE ForwardIsSound
  OBVIOUS
<1>1. ASSUME course = "forward"
      PROVE  GetNsecFromStart = cur - start /\ GetNsecFrom(start) = cur - start
  <2>1. cur \in Word /\ start \in Word /\ start <= cur
    BY <1>1 DEF IInv
  <2>2. Minus(cur, start) = cur - start
    BY <2>1, WordFacts
  <2> QED BY <2>1, <2>2, TimerAssumption DEF GetNsecFromStart, GetNsecFrom, Word
<1> QED BY <1>1 DEF IInv, ForwardIsSound

\* Without a step back of the cached time, GetNsec never exceeds it, and the
\* differences of Pause and GetNsecFromStart never wrap.
THEOREM ForwardTimeIsSound == Spec => []ForwardIsSound
<1>1. Spec => []IInv
  BY IInvInductive, PTL DEF Spec
<1> QED BY <1>1, IInvSuffices, PTL

\* On words, Plus and Minus wrap at most once.
LEMMA WrapOnce ==
  \A a, b \in Word :
    /\ Plus(a, b) = IF a + b < M THEN a + b ELSE a + b - M
    /\ Minus(a, b) = IF b <= a THEN a - b ELSE a + M - b
<1> USE TimerAssumption
<1> SUFFICES ASSUME NEW a \in Word, NEW b \in Word
             PROVE  /\ Plus(a, b) = IF a + b < M THEN a + b ELSE a + b - M
                    /\ Minus(a, b) = IF b <= a THEN a - b ELSE a + M - b
  OBVIOUS
<1>1. ASSUME a + b < M
      PROVE  Plus(a, b) = a + b
  BY <1>1, WordFacts
<1>2. ASSUME ~(a + b < M)
      PROVE  Plus(a, b) = a + b - M
  <2>1. a + b - M \in Word /\ a + b = (a + b - M) + M
    BY <1>2 DEF Word
  <2>2. ((a + b - M) + M) % M = a + b - M
    BY <2>1, ModFacts
  <2> QED BY <2>1, <2>2 DEF Plus
<1>3. ASSUME b <= a
      PROVE  Minus(a, b) = a - b
  BY <1>3, WordFacts
<1>4. ASSUME ~(b <= a)
      PROVE  Minus(a, b) = a + M - b
  <2>1. a + M - b \in Word
    BY <1>4 DEF Word
  <2> QED BY <2>1, ModFacts DEF Minus
<1> QED BY <1>1, <1>2, <1>3, <1>4

\* Where the cached time is: counted, pending and skipped, in words.
LEMMA Moved ==
  \A c, s, n, k, d \in Word :
    Plus(Plus(n, Minus(c, s)), k) = c =>
      /\ Plus(Plus(n, Minus(d, s)), k) = d
      /\ Plus(Plus(n, Minus(c, c)), Plus(k, Minus(c, s))) = c
      /\ Plus(Plus(Plus(n, Minus(c, s)), Minus(c, c)), k) = c
<1> USE TimerAssumption
<1> SUFFICES ASSUME NEW c \in Word, NEW s \in Word, NEW n \in Word,
                    NEW k \in Word, NEW d \in Word,
                    Plus(Plus(n, Minus(c, s)), k) = c
             PROVE  /\ Plus(Plus(n, Minus(d, s)), k) = d
                    /\ Plus(Plus(n, Minus(c, c)), Plus(k, Minus(c, s))) = c
                    /\ Plus(Plus(Plus(n, Minus(c, s)), Minus(c, c)), k) = c
  OBVIOUS
<1> DEFINE p == Minus(c, s)
           q == Minus(d, s)
<1>1. p \in Word /\ q \in Word /\ Minus(c, c) \in Word
  BY WordFacts
<1>2. /\ p = IF s <= c THEN c - s ELSE c + M - s
      /\ q = IF s <= d THEN d - s ELSE d + M - s
      /\ Minus(c, c) = 0
  BY WrapOnce DEF Word
<1> HIDE DEF p, q
<1>3. /\ Plus(n, p) \in Word /\ Plus(n, q) \in Word /\ Plus(k, p) \in Word
      /\ Plus(n, 0) = n /\ Plus(Plus(n, p), 0) = Plus(n, p)
  <2>1. \A a \in Word : a + 0 = a /\ a < M
    BY DEF Word
  <2>2. \A a \in Word : Plus(a, 0) = a
    BY <2>1, WordFacts
  <2> QED BY <1>1, <2>2, WordFacts
<1>4. Plus(Plus(n, p), k) = c
  BY DEF p
<1>5. /\ Plus(n, p) = IF n + p < M THEN n + p ELSE n + p - M
      /\ Plus(n, q) = IF n + q < M THEN n + q ELSE n + q - M
      /\ Plus(k, p) = IF k + p < M THEN k + p ELSE k + p - M
  BY <1>1, WrapOnce
<1> DEFINE np == Plus(n, p)
           nq == Plus(n, q)
           kp == Plus(k, p)
<1>6. /\ Plus(np, k) = IF np + k < M THEN np + k ELSE np + k - M
      /\ Plus(nq, k) = IF nq + k < M THEN nq + k ELSE nq + k - M
      /\ Plus(n, kp) = IF n + kp < M THEN n + kp ELSE n + kp - M
  BY <1>3, WrapOnce
<1>7. /\ np \in Word /\ nq \in Word /\ kp \in Word
      /\ np = IF n + p < M THEN n + p ELSE n + p - M
      /\ nq = IF n + q < M THEN n + q ELSE n + q - M
      /\ kp = IF k + p < M THEN k + p ELSE k + p - M
      /\ Plus(np, k) = c
  BY <1>3, <1>4, <1>5
<1> HIDE DEF np, nq, kp
<1>8. Plus(nq, k) = d
  BY <1>1, <1>2, <1>6, <1>7 DEF Word
<1>9. Plus(n, kp) = c
  BY <1>1, <1>2, <1>6, <1>7 DEF Word
<1> QED BY <1>2, <1>3, <1>4, <1>8, <1>9 DEF p, q, nq, kp

\* No nanosecond of cached time is lost or counted twice, whatever wraps and in
\* whatever order Refresh, Tick, Wrap, Resume, Pause and Reset are called.
THEOREM NoTimeLost == Spec => []TimeConserved
<1> USE TimerAssumption
<1>1. Init => TimeConserved
  BY WordFacts DEF Init, TimeConserved, GetNsecFromStart
<1>2. ASSUME IInv, TimeConserved, [Next]_vars
      PROVE  TimeConserved'
  <2>1. /\ cur \in Word /\ start \in Word /\ net \in Word /\ skipped \in Word
        /\ clock \in Word
        /\ Plus(Plus(net, Minus(cur, start)), skipped) = cur
    BY <1>2 DEF IInv, TimeConserved, GetNsecFromStart, Word
  <2>2. ASSUME NEW t \in Word, SetCur(t)
        PROVE  TimeConserved'
    BY <2>1, <2>2, Moved DEF SetCur, TimeConserved, GetNsecFromStart
  <2>3. CASE Elapse
    BY <1>2, <2>3 DEF Elapse, TimeConserved, GetNsecFromStart
  <2>4. CASE Refresh
    BY <2>1, <2>2, <2>4 DEF Refresh
  <2>5. ASSUME NEW t \in Word, Wrap(t)
        PROVE  TimeConserved'
    BY <2>2, <2>5 DEF Wrap
  <2>6. ASSUME NEW n \in Ticks, Tick(n)
        PROVE  TimeConserved'
    <3>1. Plus(cur, n) \in Word
      <4>1. n \in Word
        BY DEF Word
      <4> QED BY <2>1, <4>1, WordFacts
    <3> QED BY <3>1, <2>2, <2>6 DEF Tick
  <2>7. CASE Resume
    BY <2>1, <2>7, Moved DEF Resume, TimeConserved, GetNsecFromStart
  <2>8. CASE Pause
    BY <2>1, <2>8, Moved DEF Pause, TimeConserved, GetNsecFromStart
  <2>9. CASE Reset
    <3>1. Minus(cur, cur) = 0 /\ Plus(0, 0) = 0 /\ Plus(0, cur) = cur
      BY <2>1, WordFacts, WrapOnce DEF Word
    <3> QED BY <2>9, <3>1 DEF Reset, TimeConserved, GetNsecFromStart
  <2>10. CASE UNCHANGED vars
    BY <1>2, <2>10 DEF vars, TimeConserved, GetNsecFromStart
  <2> QED BY <1>2, <2>3, <2>4, <2>5, <2>6, <2>7, <2>8, <2>9, <2>10 DEF Next
<1>3. Spec => []IInv
  BY IInvInductive, PTL DEF Spec
<1> QED BY <1>1, <1>2, <1>3, PTL DEF Spec
=============================================================================
