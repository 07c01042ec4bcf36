----------------------------- MODULE DesktopProofs -----------------------------
(***************************************************************************)
(* What holds of the window and of the terminal dashboard for logs, pipes  *)
(* and queues of any length, and any number of records, pauses and         *)
(* signals.                                                                *)
(*                                                                         *)
(* The argument: messages are numbered in their order, so that a log is a  *)
(* range of numbers, and the latest ones of a range stay the same however  *)
(* often it is cut off on its way through the held messages; and the exit  *)
(* is behind every line, in the pipe and in the queue, so that a view that *)
(* judges it has seen whether the child said that its run ended.           *)
(***************************************************************************)
EXTENDS Desktop, SequenceTheorems, TLAPS

\* The dashboard's thread is past its loop (close, _stop_receiver).
Stopping == ui \in {"stop", "join", "over"}

\* The end of the run is known to the view or on its way.
Said == \/ stopped
        \/ \E i \in DOMAIN pipe : pipe[i] = "recon_stopped"
        \/ \E i \in DOMAIN inbox : inbox[i] = "recon_stopped"

\* What is between the child and the view, with the exit behind every line.
Lines ==
    /\ child = "said" \/ cause = "clean" => Said
    /\ \A i \in DOMAIN inbox : inbox[i] = "exit" => i = Len(inbox) /\ reader = "done"
    /\ reader = "done" => child = "ended" /\ pipe = <<>>
    /\ front = "terminal" => inbox = <<>> /\ reader = "none"
    /\ child = "none" => pipe = <<>> /\ inbox = <<>> /\ cause = "none"
    /\ ui = "start" => child = "none" /\ ~exited
    /\ cause # "none" <=> child = "ended"

\* What ended, and whether somebody had asked for it.
Asked ==
    /\ Stopping /\ ~stopRequested => ~Running
    /\ late \/ cause = "killed" => stopRequested
    /\ cause = "signal" => ready
    /\ exited => ~Running
    /\ failed => exited

\* The view of a thread that is in its loop.
Screen ==
    /\ ui = "start" => ~paused
    /\ ~paused /\ ui \in {"start", "loop"} => shown = applied

Inv == TypeOK /\ Lines /\ Asked /\ Screen /\ ScreenIsLatest /\ FailureIsUncleanEnd

-----------------------------------------------------------------------------
(* The log.                                                                  *)

\* The first of the latest messages of a range.
From(a, b) == IF b - a <= LogLines THEN a ELSE b - LogLines

\* The numbers of a range are a sequence.
LEMMA NumbersProperties ==
  ASSUME NEW a \in Nat, NEW b \in Nat, a <= b
  PROVE  /\ Numbers(a, b) \in Seq(1..b) /\ Numbers(a, b) \in Seq(Nat)
         /\ Len(Numbers(a, b)) = b - a
         /\ \A i \in 1..b - a : Numbers(a, b)[i] = a + i
<1>1. b - a \in Nat
  OBVIOUS
<1>2. \A i \in 1..b - a : a + i \in 1..b /\ a + i \in Nat
  OBVIOUS
<1>3. Numbers(a, b) \in Seq(1..b) /\ Numbers(a, b) \in Seq(Nat)
  <2>1. Numbers(a, b) \in [1..b - a -> 1..b] /\ Numbers(a, b) \in [1..b - a -> Nat]
    BY <1>2 DEF Numbers
  <2> QED
    BY <1>1, <2>1, SeqDef
<1>4. Len(Numbers(a, b)) = b - a
  <2>1. /\ Len(Numbers(a, b)) \in Nat
        /\ DOMAIN Numbers(a, b) = 1..Len(Numbers(a, b)) /\ DOMAIN Numbers(a, b) = 1..b - a
    BY <1>3, LenProperties DEF Numbers
  <2> QED
    BY <1>1, <2>1
<1> QED
  BY <1>3, <1>4 DEF Numbers

\* The latest messages of a range are a range.
LEMMA LatestOfNumbers ==
  ASSUME NEW a \in Nat, NEW b \in Nat, a <= b
  PROVE  /\ From(a, b) \in a..b /\ b - From(a, b) <= LogLines
         /\ Latest(Numbers(a, b)) = Numbers(From(a, b), b)
<1> DEFINE all == Numbers(a, b)
<1>1. LogLines \in Nat \ {0}
  BY BoundsAssumption
<1>2. /\ all \in Seq(Nat) /\ Len(all) = b - a
      /\ \A i \in 1..b - a : all[i] = a + i
  BY NumbersProperties
<1>3. CASE b - a <= LogLines
  BY <1>1, <1>2, <1>3 DEF Latest, From
<1>4. CASE ~(b - a <= LogLines)
  <2> DEFINE first == b - LogLines
  <2>1. /\ From(a, b) = first /\ first \in Nat /\ first <= b /\ a <= first
        /\ b - first = LogLines
    BY <1>1, <1>4 DEF From
  <2>2. Latest(all) = SubSeq(all, first - a + 1, b - a)
    <3>1. b - a - LogLines + 1 = first - a + 1
      BY <1>1
    <3>2. ~(Len(all) <= LogLines)
      BY <1>2, <1>4
    <3> QED
      BY <1>2, <3>1, <3>2 DEF Latest
  <2>3. /\ first - a + 1 \in Int /\ b - a \in Int
        /\ \A i \in first - a + 1..b - a : all[i] \in Nat
        /\ first - a + 1 <= b - a
        /\ (b - a) - (first - a + 1) + 1 = LogLines
    BY <1>1, <1>2, <1>4
  <2>4. /\ SubSeq(all, first - a + 1, b - a) \in Seq(Nat)
        /\ Len(SubSeq(all, first - a + 1, b - a)) = LogLines
        /\ \A i \in 1..LogLines :
              SubSeq(all, first - a + 1, b - a)[i] = all[first - a + 1 + i - 1]
    <3> HIDE DEF all, first
    <3> QED
      BY <2>3, SubSeqProperties
  <2>5. /\ Numbers(first, b) \in Seq(Nat) /\ Len(Numbers(first, b)) = LogLines
        /\ \A i \in 1..LogLines : Numbers(first, b)[i] = first + i
    BY <2>1, NumbersProperties
  <2>6. \A i \in 1..LogLines : all[first - a + 1 + i - 1] = first + i
    <3> TAKE i \in 1..LogLines
    <3>1. first - a + 1 + i - 1 \in 1..b - a /\ a + (first - a + 1 + i - 1) = first + i
      BY <1>1, <2>1
    <3> QED
      BY <1>2, <3>1
  <2>7. SubSeq(all, first - a + 1, b - a) = Numbers(first, b)
    BY <2>4, <2>5, <2>6, SeqEqual
  <2> QED
    BY <1>1, <2>1, <2>2, <2>7
<1> QED
  BY <1>3, <1>4

\* Two ranges, one after the other, are a range.
LEMMA NumbersJoin ==
  ASSUME NEW a \in Nat, NEW b \in Nat, NEW c \in Nat, a <= b, b <= c
  PROVE  Numbers(a, b) \o Numbers(b, c) = Numbers(a, c)
<1> DEFINE s == Numbers(a, b)
           t == Numbers(b, c)
           all == Numbers(a, c)
<1>1. /\ s \in Seq(Nat) /\ Len(s) = b - a /\ \A i \in 1..b - a : s[i] = a + i
      /\ t \in Seq(Nat) /\ Len(t) = c - b /\ \A i \in 1..c - b : t[i] = b + i
      /\ all \in Seq(Nat) /\ Len(all) = c - a /\ \A i \in 1..c - a : all[i] = a + i
  <2>1. s \in Seq(Nat) /\ Len(s) = b - a /\ \A i \in 1..b - a : s[i] = a + i
    BY NumbersProperties
  <2>2. t \in Seq(Nat) /\ Len(t) = c - b /\ \A i \in 1..c - b : t[i] = b + i
    BY NumbersProperties
  <2>3. a <= c
    OBVIOUS
  <2>4. all \in Seq(Nat) /\ Len(all) = c - a /\ \A i \in 1..c - a : all[i] = a + i
    BY <2>3, NumbersProperties
  <2> QED
    BY <2>1, <2>2, <2>4
<1> HIDE DEF s, t, all
<1>2. /\ s \o t \in Seq(Nat) /\ Len(s \o t) = Len(s) + Len(t)
      /\ \A i \in 1..Len(s) + Len(t) :
            (s \o t)[i] = IF i <= Len(s) THEN s[i] ELSE t[i - Len(s)]
  BY <1>1, ConcatProperties
<1>3. Len(s \o t) = Len(all)
  BY <1>1, <1>2
<1>4. ASSUME NEW i \in 1..c - a PROVE (s \o t)[i] = all[i]
  <2>1. (s \o t)[i] = IF i <= b - a THEN s[i] ELSE t[i - (b - a)]
    <3>1. i \in 1..Len(s) + Len(t) /\ Len(s) = b - a
      BY <1>1
    <3> QED
      BY <1>2, <3>1
  <2>2. CASE i <= b - a
    BY <1>1, <2>1, <2>2
  <2>3. CASE ~(i <= b - a)
    <3>1. i - (b - a) \in 1..c - b /\ b + (i - (b - a)) = a + i
      BY <2>3
    <3> QED
      BY <1>1, <2>1, <2>3, <3>1
  <2> QED
    BY <2>2, <2>3
<1> QED
  BY <1>1, <1>2, <1>3, <1>4, SeqEqual DEF s, t, all

\* As many messages as the log has lines leave nothing of the others.
LEMMA LatestOfMany ==
  ASSUME NEW s \in Seq(Nat), NEW t \in Seq(Nat), Len(t) = LogLines
  PROVE  Latest(s \o t) = t
<1>1. LogLines \in Nat \ {0} /\ Len(s) \in Nat
  BY BoundsAssumption, LenProperties
<1>2. /\ s \o t \in Seq(Nat) /\ Len(s \o t) = Len(s) + LogLines
      /\ \A i \in 1..Len(s) + LogLines :
            (s \o t)[i] = IF i <= Len(s) THEN s[i] ELSE t[i - Len(s)]
  BY ConcatProperties
<1>3. CASE Len(s) = 0
  <2>1. s = <<>>
    BY <1>3, EmptySeq
  <2>2. s \o t = t
    BY <2>1, ConcatEmptySeq
  <2> QED
    BY <2>2, <1>1 DEF Latest
<1>4. CASE Len(s) # 0
  <2> DEFINE all == s \o t
             m == Len(s) + LogLines - LogLines + 1
             n == Len(s) + LogLines
  <2>1. Latest(all) = SubSeq(all, m, n)
    BY <1>1, <1>2, <1>4 DEF Latest
  <2>2. m = Len(s) + 1 /\ m \in Int /\ n \in Int /\ m <= n /\ n - m + 1 = LogLines
    BY <1>1
  <2>3. \A i \in m..n : all[i] \in Nat
    <3> TAKE i \in m..n
    <3>1. i \in 1..Len(all)
      BY <1>1, <1>2, <2>2
    <3> QED
      BY <1>2, <3>1, ElementOfSeq
  <2>4. \A i \in 1..LogLines : all[m + i - 1] = t[i]
    <3> TAKE i \in 1..LogLines
    <3>1. /\ m + i - 1 \in 1..Len(s) + LogLines /\ ~(m + i - 1 <= Len(s))
          /\ (m + i - 1) - Len(s) = i
      BY <1>1, <2>2
    <3>2. all[m + i - 1] = t[(m + i - 1) - Len(s)]
      BY <1>2, <3>1
    <3> QED
      BY <3>1, <3>2
  <2> HIDE DEF all, m, n
  <2>5. /\ SubSeq(all, m, n) \in Seq(Nat) /\ Len(SubSeq(all, m, n)) = LogLines
        /\ \A i \in 1..LogLines : SubSeq(all, m, n)[i] = all[m + i - 1]
    BY <2>2, <2>3, SubSeqProperties
  <2>6. SubSeq(all, m, n) = t
    BY <2>4, <2>5, SeqEqual
  <2> QED
    BY <2>1, <2>6 DEF all
<1> QED
  BY <1>3, <1>4

\* The latest messages, however they were cut off on the way, are the latest.
LEMMA LatestTwice ==
  ASSUME NEW a \in Nat, NEW b \in Nat, NEW c \in Nat, a <= b, b <= c
  PROVE  Latest(Latest(Numbers(a, b)) \o Latest(Numbers(b, c))) = Latest(Numbers(a, c))
<1>1. LogLines \in Nat \ {0}
  BY BoundsAssumption
<1>2. /\ From(a, b) \in a..b /\ Latest(Numbers(a, b)) = Numbers(From(a, b), b)
      /\ From(b, c) \in b..c /\ Latest(Numbers(b, c)) = Numbers(From(b, c), c)
      /\ From(a, c) \in a..c /\ Latest(Numbers(a, c)) = Numbers(From(a, c), c)
  BY LatestOfNumbers
<1> DEFINE f == From(a, b)
<1>3. f \in Nat /\ f <= b /\ f <= c
  BY <1>2
<1>4. CASE c - b >= LogLines
  <2>1. From(b, c) = c - LogLines /\ From(a, c) = c - LogLines /\ c - LogLines \in Nat
    BY <1>1, <1>4 DEF From
  <2>2. /\ Numbers(c - LogLines, c) \in Seq(Nat) /\ Len(Numbers(c - LogLines, c)) = LogLines
        /\ Numbers(f, b) \in Seq(Nat)
    <3> DEFINE m == c - LogLines
    <3>1. m \in Nat /\ m <= c /\ c - m = LogLines
      BY <1>1, <2>1
    <3> HIDE DEF m, f
    <3>2. Numbers(m, c) \in Seq(Nat) /\ Len(Numbers(m, c)) = LogLines
      BY <3>1, NumbersProperties
    <3>3. Numbers(f, b) \in Seq(Nat)
      BY <1>3, NumbersProperties
    <3> QED
      BY <3>2, <3>3 DEF m
  <2> QED
    BY <1>2, <2>1, <2>2, LatestOfMany
<1>5. CASE c - b < LogLines
  <2>1. From(b, c) = b
    BY <1>1, <1>5 DEF From
  <2>2. Numbers(f, b) \o Numbers(b, c) = Numbers(f, c)
    BY <1>3, NumbersJoin
  <2>3. Latest(Numbers(f, c)) = Numbers(From(f, c), c)
    BY <1>3, LatestOfNumbers
  <2>4. From(f, c) = From(a, c)
    BY <1>1, <1>5 DEF From
  <2> QED
    BY <1>2, <2>1, <2>2, <2>3, <2>4
<1> QED
  BY <1>1, <1>4, <1>5

\* What the log and the held messages are.
LogInv == count \in Nat /\ pausedAt \in 0..count /\ paused \in BOOLEAN
          /\ IF paused THEN /\ log = Latest(Numbers(0, pausedAt))
                            /\ held = Latest(Numbers(pausedAt, count))
             ELSE held = <<>> /\ log = Latest(Numbers(0, count))

\* One message more, or none, is the latest.
LEMMA OneMore ==
  ASSUME NEW a \in Nat, NEW c \in Nat, a <= c, NEW n \in {0, 1}
  PROVE  Latest(Latest(Numbers(a, c)) \o [i \in 1..n |-> c + i]) = Latest(Numbers(a, c + n))
<1>1. LogLines \in Nat \ {0} /\ c + n \in Nat /\ c <= c + n /\ c + n - c = n
  BY BoundsAssumption
<1>2. [i \in 1..n |-> c + i] = Numbers(c, c + n)
  BY <1>1 DEF Numbers
<1>3. Latest(Numbers(c, c + n)) = Numbers(c, c + n)
  <2>1. Len(Numbers(c, c + n)) = n
    BY <1>1, NumbersProperties
  <2>2. n <= LogLines
    BY <1>1
  <2> QED
    BY <2>1, <2>2 DEF Latest
<1>4. Latest(Latest(Numbers(a, c)) \o Latest(Numbers(c, c + n))) = Latest(Numbers(a, c + n))
  BY <1>1, LatestTwice
<1> QED
  BY <1>2, <1>3, <1>4

\* Messages, pauses and their ends keep the log.
LEMMA LogKept ==
  ASSUME LogInv, \/ \E n \in {0, 1} : Log(n)
                 \/ TogglePause
                 \/ UNCHANGED logVars
  PROVE  LogInv'
<1>1. count \in Nat /\ pausedAt \in Nat /\ pausedAt <= count /\ 0 <= count /\ paused \in BOOLEAN
  BY DEF LogInv
<1>2. ASSUME NEW n \in {0, 1}, Log(n) PROVE LogInv'
  <2>1. count' = count + n /\ UNCHANGED <<paused, pausedAt>> /\ count + n \in Nat
    BY <1>1, <1>2 DEF Log
  <2>2. CASE paused
    <3>1. held' = Latest(held \o [i \in 1..n |-> count + i]) /\ UNCHANGED log
      BY <1>2, <2>2 DEF Log
    <3>2. held' = Latest(Numbers(pausedAt, count + n))
      BY <1>1, <2>2, <3>1, OneMore DEF LogInv
    <3> QED
      BY <1>1, <2>1, <2>2, <3>1, <3>2 DEF LogInv
  <2>3. CASE ~paused
    <3>1. log' = Latest(log \o [i \in 1..n |-> count + i]) /\ UNCHANGED held
      BY <1>2, <2>3 DEF Log
    <3>2. log' = Latest(Numbers(0, count + n))
      BY <1>1, <2>3, <3>1, OneMore DEF LogInv
    <3> QED
      BY <1>1, <2>1, <2>3, <3>1, <3>2 DEF LogInv
  <2> QED
    BY <2>2, <2>3
<1>3. CASE TogglePause
  <2>1. paused' = ~paused /\ UNCHANGED count
    BY <1>3 DEF TogglePause
  <2>2. CASE paused
    <3>1. held' = <<>> /\ log' = Latest(log \o held) /\ UNCHANGED pausedAt
      BY <1>3, <2>2 DEF TogglePause, Resume
    <3>2. log' = Latest(Numbers(0, count))
      BY <1>1, <2>2, <3>1, LatestTwice DEF LogInv
    <3> QED
      BY <1>1, <2>1, <2>2, <3>1, <3>2 DEF LogInv
  <2>3. CASE ~paused
    <3>1. pausedAt' = count /\ UNCHANGED <<log, held>>
      BY <1>3, <2>3 DEF TogglePause
    <3>2. Latest(Numbers(count, count)) = <<>>
      <4>0. count <= count /\ count - count = 0
        BY <1>1
      <4>1. Numbers(count, count) \in Seq(Nat) /\ Len(Numbers(count, count)) = 0
        BY <1>1, <4>0, NumbersProperties
      <4>2. Numbers(count, count) = <<>> /\ 0 <= LogLines
        BY <4>1, EmptySeq, BoundsAssumption
      <4> QED
        BY <4>1, <4>2 DEF Latest
    <3> QED
      BY <1>1, <2>1, <2>3, <3>1, <3>2 DEF LogInv
  <2> QED
    BY <2>2, <2>3
<1>4. CASE UNCHANGED logVars
  BY <1>4 DEF LogInv, logVars
<1> QED
  BY <1>2, <1>3, <1>4

\* The latest messages of a range are messages so far, and as many as the log has lines.
LEMMA LatestTypes ==
  ASSUME NEW a \in Nat, NEW b \in Nat, NEW c \in Nat, a <= b, b <= c
  PROVE  Latest(Numbers(a, b)) \in Seq(1..c) /\ Len(Latest(Numbers(a, b))) <= LogLines
<1>1. /\ From(a, b) \in a..b /\ b - From(a, b) <= LogLines
      /\ Latest(Numbers(a, b)) = Numbers(From(a, b), b)
  BY LatestOfNumbers
<1> DEFINE f == From(a, b)
<1>2. f \in Nat /\ f <= b
  BY <1>1
<1>3. Numbers(f, b) \in Seq(1..b) /\ Len(Numbers(f, b)) = b - f
  BY <1>2, NumbersProperties
<1>4. 1..b \subseteq 1..c
  OBVIOUS
<1>5. Numbers(f, b) \in Seq(1..c)
  BY <1>3, <1>4, SeqMonotonic
<1> QED
  BY <1>1, <1>3, <1>5

\* The log that a step leaves has the type it should have.
LEMMA LogTypes ==
  ASSUME LogInv'
  PROVE  /\ log' \in Seq(1..count') /\ Len(log') <= LogLines
         /\ held' \in Seq(1..count') /\ Len(held') <= LogLines
<1> DEFINE c == count'
           p == pausedAt'
<1>1. c \in Nat /\ p \in Nat /\ p <= c /\ 0 \in Nat /\ 0 <= c /\ 0 <= p /\ c <= c
  BY DEF LogInv
<1>2. /\ paused' => log' = Latest(Numbers(0, p)) /\ held' = Latest(Numbers(p, c))
      /\ ~paused' => log' = Latest(Numbers(0, c)) /\ held' = <<>>
  BY DEF LogInv
<1> HIDE DEF c, p
<1>3. Latest(Numbers(0, p)) \in Seq(1..c) /\ Len(Latest(Numbers(0, p))) <= LogLines
  BY <1>1, LatestTypes
<1>4. Latest(Numbers(p, c)) \in Seq(1..c) /\ Len(Latest(Numbers(p, c))) <= LogLines
  BY <1>1, LatestTypes
<1>5. Latest(Numbers(0, c)) \in Seq(1..c) /\ Len(Latest(Numbers(0, c))) <= LogLines
  BY <1>1, LatestTypes
<1>6. <<>> \in Seq(1..c) /\ Len(<<>>) <= LogLines
  BY EmptySeq, BoundsAssumption
<1> QED
  BY <1>2, <1>3, <1>4, <1>5, <1>6 DEF c

-----------------------------------------------------------------------------
(* The steps.                                                                *)

\* What a step does to the log.
LEMMA LogSteps ==
  ASSUME Next
  PROVE  (\E n \in {0, 1} : Log(n)) \/ TogglePause \/ UNCHANGED logVars
<1> USE DEF Ui, User
<1>1. CASE Drain \/ FollowLine \/ FollowExit \/ LoopSigUsr1 \/ TakeSigUsr1 \/ Start \/ StopEnds
  BY <1>1 DEF Drain, FollowLine, FollowExit, LoopSigUsr1, TakeSigUsr1, Start, StopEnds, Apply, Rescan
<1>2. CASE Keys
  BY <1>2 DEF Keys, Rescan
<1>3. CASE Leave \/ Poll \/ DrainEnds \/ TakeSigInt \/ KeyQuit
  BY <1>3 DEF Leave, Poll, DrainEnds, TakeSigInt, KeyQuit, BeginStop
<1>4. CASE (\E s \in Signals : Signal(s)) \/ ChildStep \/ QueueLine \/ QueueExit
  BY <1>4 DEF Signal, ChildStep, QueueLine, QueueExit
<1> QED
  BY <1>1, <1>2, <1>3, <1>4 DEF Next

\* The view of a step.
LEMMA ScreenStep ==
  ASSUME TypeOK, Screen, Lines, Next
  PROVE  Screen'
<1> USE DEF Screen, Ui, User
<1>1. CASE Drain \/ FollowLine \/ FollowExit
  BY <1>1 DEF Drain, FollowLine, FollowExit, Apply, Log, Refresh, InTerminal, TypeOK
<1>2. CASE TakeSigUsr1
  BY <1>2 DEF TakeSigUsr1, Refresh, Rescan, Log, TypeOK, logVars
<1>3. CASE LoopSigUsr1 \/ Start \/ StopEnds
  BY <1>3 DEF LoopSigUsr1, Start, StopEnds, Rescan, Log, TypeOK, logVars, viewVars
<1>4. CASE Keys
  BY <1>4 DEF Keys, TogglePause, Rescan, Log, TypeOK, viewVars
<1>5. CASE Leave \/ Poll \/ DrainEnds \/ TakeSigInt \/ KeyQuit
  BY <1>5 DEF Leave, Poll, DrainEnds, Drained, TakeSigInt, KeyQuit, BeginStop, logVars, viewVars
<1>6. CASE (\E s \in Signals : Signal(s)) \/ ChildStep \/ QueueLine \/ QueueExit
  BY <1>6 DEF Signal, ChildStep, QueueLine, QueueExit, logVars, viewVars
<1> QED
  BY <1>1, <1>2, <1>3, <1>4, <1>5, <1>6 DEF Next

\* The exit is what comes last from the child.
LEMMA ExitIsLast ==
  ASSUME TypeOK, Lines
  PROVE  /\ pipe # <<>> => Head(pipe) # "exit"
         /\ inbox # <<>> /\ Head(inbox) = "exit" =>
               /\ child = "ended" /\ pipe = <<>> /\ inbox[1] = "exit" /\ DOMAIN inbox = {1}
<1>1. ASSUME pipe # <<>> PROVE Head(pipe) # "exit"
  <2>1. pipe \in Seq({"recon_started", "event", "recon_stopped"})
    BY DEF TypeOK
  <2>2. Head(pipe) \in {"recon_started", "event", "recon_stopped"}
    BY <1>1, <2>1, HeadTailProperties
  <2> QED
    BY <2>2
<1>2. ASSUME inbox # <<>>, Head(inbox) = "exit"
      PROVE  child = "ended" /\ pipe = <<>> /\ inbox[1] = "exit" /\ DOMAIN inbox = {1}
  <2>1. inbox \in Seq({"recon_started", "event", "recon_stopped", "exit"})
    BY DEF TypeOK
  <2>2. Len(inbox) \in Nat \ {0} /\ DOMAIN inbox = 1..Len(inbox) /\ Head(inbox) = inbox[1]
    BY <1>2, <2>1, EmptySeq, LenProperties, HeadTailProperties
  <2>3. 1 = Len(inbox) /\ reader = "done"
    BY <1>2, <2>2 DEF Lines
  <2> QED
    BY <1>2, <2>2, <2>3 DEF Lines
<1> QED
  BY <1>1, <1>2

\* Who asked for the end of the child.
LEMMA AskedStep ==
  ASSUME TypeOK, Asked, Lines, Next
  PROVE  Asked'
<1> USE DEF Asked, Stopping, Running, Ui, User
<1>0. /\ ui \in {"start", "loop", "drain", "int", "usr1", "stop", "join", "over"}
      /\ child \in {"none", "loading", "running", "said", "ended"} /\ stopRequested \in BOOLEAN
      /\ front \in {"window", "terminal"} /\ late \in BOOLEAN /\ exited \in BOOLEAN
      /\ ready \in BOOLEAN
  BY FrontsAssumption DEF TypeOK
<1>1. CASE Drain \/ FollowLine \/ FollowExit
  <2>1. exited' => exited \/ child = "ended"
    BY <1>1, ExitIsLast DEF Drain, FollowLine, FollowExit, Apply, AtEof
  <2>2. UNCHANGED <<ui, stopRequested, child, cause, late>>
    BY <1>1 DEF Drain, FollowLine, FollowExit, childVars
  <2>3. (failed' => exited') /\ (ready => ready')
    BY <1>1 DEF Drain, FollowLine, FollowExit, Apply
  <2> QED
    BY <2>1, <2>2, <2>3
<1>2. CASE TakeSigUsr1 \/ LoopSigUsr1
  BY <1>0, <1>2
  DEF TakeSigUsr1, LoopSigUsr1, Rescan, CanRescan, Ends, viewVars, childVars, InTerminal
<1>3. CASE Start \/ StopEnds
  BY <1>0, <1>3 DEF Start, StopEnds, Ends, viewVars, Lines
<1>4. CASE Keys
  BY <1>0, <1>4 DEF Keys, TogglePause, Rescan, CanRescan, Ends, viewVars, childVars
<1>5. CASE Leave \/ Poll \/ DrainEnds
  BY <1>0, <1>5 DEF Leave, Poll, DrainEnds, Drained, viewVars, childVars
<1>6. CASE TakeSigInt \/ KeyQuit
  BY <1>0, <1>6 DEF TakeSigInt, KeyQuit, BeginStop, Requested, viewVars, childVars
<1>7. CASE (\E s \in Signals : Signal(s)) \/ QueueLine \/ QueueExit
  BY <1>0, <1>7 DEF Signal, QueueLine, QueueExit, viewVars, childVars
<1>8. CASE ChildStep
  BY <1>0, <1>8 DEF ChildStep, Ends, Write, viewVars
<1> QED
  BY <1>1, <1>2, <1>3, <1>4, <1>5, <1>6, <1>7, <1>8 DEF Next

\* What a step moves on the way from the child to the view.
LEMMA LinesStep ==
  ASSUME TypeOK, Lines, Next
  PROVE  Lines'
<1> USE DEF Ui, User
<1>0. /\ pipe \in Seq({"recon_started", "event", "recon_stopped"})
      /\ inbox \in Seq({"recon_started", "event", "recon_stopped", "exit"})
      /\ ui \in {"start", "loop", "drain", "int", "usr1", "stop", "join", "over"}
      /\ child \in {"none", "loading", "running", "said", "ended"}
      /\ front \in {"window", "terminal"} /\ exited \in BOOLEAN
  BY FrontsAssumption DEF TypeOK
<1>1. CASE Drain
  <2>1. inbox # <<>> /\ inbox' = Tail(inbox) /\ stopped' = (stopped \/ Head(inbox) = "recon_stopped")
        /\ exited' = (exited \/ Head(inbox) = "exit")
        /\ UNCHANGED <<front, ui, reader, child, cause, pipe>>
    BY <1>1 DEF Drain, Apply, childVars
  <2>2. /\ DOMAIN inbox = 1..Len(inbox) /\ Len(inbox) \in Nat \ {0} /\ Head(inbox) = inbox[1]
        /\ Len(inbox') = Len(inbox) - 1 /\ DOMAIN inbox' = 1..Len(inbox) - 1
        /\ \A i \in 1..Len(inbox) - 1 : inbox'[i] = inbox[i + 1]
    <3>1. Tail(inbox) \in Seq({"recon_started", "event", "recon_stopped", "exit"})
      BY <1>0, <2>1, HeadTailProperties
    <3>2. DOMAIN Tail(inbox) = 1..Len(Tail(inbox))
      BY <3>1, LenProperties
    <3> QED
      BY <1>0, <2>1, <3>2, EmptySeq, LenProperties, HeadTailProperties
  <2>3. Said => Said'
    <3>1. ASSUME NEW i \in DOMAIN inbox, inbox[i] = "recon_stopped", inbox[1] # "recon_stopped"
          PROVE  \E j \in DOMAIN inbox' : inbox'[j] = "recon_stopped"
      <4>1. i - 1 \in DOMAIN inbox' /\ i - 1 + 1 = i
        BY <2>2, <3>1
      <4>2. inbox'[i - 1] = inbox[i - 1 + 1]
        BY <2>2, <4>1
      <4> QED
        BY <3>1, <4>1, <4>2
    <3> QED
      BY <2>1, <2>2, <3>1 DEF Said
  <2>4. \A i \in DOMAIN inbox' : inbox'[i] = "exit" => i = Len(inbox') /\ reader' = "done"
    <3> TAKE i \in DOMAIN inbox'
    <3>1. i + 1 \in DOMAIN inbox /\ inbox'[i] = inbox[i + 1]
      BY <2>2
    <3>2. inbox[i + 1] = "exit" => i + 1 = Len(inbox) /\ reader = "done"
      BY <3>1 DEF Lines
    <3> QED
      BY <2>1, <2>2, <3>1, <3>2
  <2>5. ui # "start" /\ front # "terminal" /\ child # "none"
    BY <1>1, <2>1 DEF Drain, Lines
  <2> QED
    BY <2>1, <2>3, <2>4, <2>5 DEF Lines
<1>2. CASE FollowLine
  <2>1. pipe # <<>> /\ pipe' = Tail(pipe) /\ stopped' = (stopped \/ Head(pipe) = "recon_stopped")
        /\ exited' = (exited \/ Head(pipe) = "exit")
        /\ UNCHANGED <<front, ui, reader, child, cause, inbox>>
    BY <1>2 DEF FollowLine, Apply, childVars, readerVars
  <2>2. /\ DOMAIN pipe = 1..Len(pipe) /\ Len(pipe) \in Nat \ {0} /\ Head(pipe) = pipe[1]
        /\ DOMAIN pipe' = 1..Len(pipe) - 1
        /\ \A i \in 1..Len(pipe) - 1 : pipe'[i] = pipe[i + 1]
    <3>1. Tail(pipe) \in Seq({"recon_started", "event", "recon_stopped"})
      BY <1>0, <2>1, HeadTailProperties
    <3>2. DOMAIN Tail(pipe) = 1..Len(Tail(pipe))
      BY <3>1, LenProperties
    <3> QED
      BY <1>0, <2>1, <3>2, EmptySeq, LenProperties, HeadTailProperties
  <2>3. Said => Said'
    <3>1. ASSUME NEW i \in DOMAIN pipe, pipe[i] = "recon_stopped", pipe[1] # "recon_stopped"
          PROVE  \E j \in DOMAIN pipe' : pipe'[j] = "recon_stopped"
      <4>1. i - 1 \in DOMAIN pipe' /\ i - 1 + 1 = i
        BY <2>2, <3>1
      <4>2. pipe'[i - 1] = pipe[i - 1 + 1]
        BY <2>2, <4>1
      <4> QED
        BY <3>1, <4>1, <4>2
    <3> QED
      BY <2>1, <2>2, <3>1 DEF Said
  <2>4. child # "none" /\ reader # "done" /\ ui # "start"
    BY <2>1 DEF Lines
  <2> QED
    BY <2>1, <2>3, <2>4 DEF Lines
<1>3. CASE FollowExit
  BY <1>3 DEF FollowExit, Apply, childVars, readerVars, Lines, Said
<1>4. CASE QueueLine
  <2>1. /\ pipe # <<>> /\ pipe' = Tail(pipe) /\ inbox' = Append(inbox, Head(pipe))
        /\ UNCHANGED <<front, ui, reader, child, cause, stopped, exited>> /\ reader = "reading"
    BY <1>4 DEF QueueLine, childVars, viewVars
  <2>2. /\ DOMAIN pipe = 1..Len(pipe) /\ Len(pipe) \in Nat \ {0} /\ Head(pipe) = pipe[1]
        /\ DOMAIN pipe' = 1..Len(pipe) - 1
        /\ \A i \in 1..Len(pipe) - 1 : pipe'[i] = pipe[i + 1]
    <3>1. Tail(pipe) \in Seq({"recon_started", "event", "recon_stopped"})
      BY <1>0, <2>1, HeadTailProperties
    <3>2. DOMAIN Tail(pipe) = 1..Len(Tail(pipe))
      BY <3>1, LenProperties
    <3> QED
      BY <1>0, <2>1, <3>2, EmptySeq, LenProperties, HeadTailProperties
  <2>3. /\ DOMAIN inbox = 1..Len(inbox) /\ Len(inbox) \in Nat
        /\ DOMAIN inbox' = 1..Len(inbox) + 1 /\ inbox'[Len(inbox) + 1] = Head(pipe)
        /\ \A i \in 1..Len(inbox) : inbox'[i] = inbox[i]
    <3>1. Head(pipe) \in {"recon_started", "event", "recon_stopped", "exit"}
      BY <1>0, <2>1, HeadTailProperties
    <3> QED
      BY <1>0, <2>1, <3>1, AppendProperties, LenProperties
  <2>4. Said => Said'
    <3>1. ASSUME NEW i \in DOMAIN pipe, pipe[i] = "recon_stopped", pipe[1] # "recon_stopped"
          PROVE  \E j \in DOMAIN pipe' : pipe'[j] = "recon_stopped"
      <4>1. i - 1 \in DOMAIN pipe' /\ i - 1 + 1 = i
        BY <2>2, <3>1
      <4>2. pipe'[i - 1] = pipe[i - 1 + 1]
        BY <2>2, <4>1
      <4> QED
        BY <3>1, <4>1, <4>2
    <3>2. Head(pipe) = "recon_stopped" => \E i \in DOMAIN inbox' : inbox'[i] = "recon_stopped"
      <4>1. Len(inbox) + 1 \in DOMAIN inbox'
        BY <2>3
      <4> QED
        BY <2>3, <4>1
    <3>3. ASSUME NEW i \in DOMAIN inbox, inbox[i] = "recon_stopped"
          PROVE  \E j \in DOMAIN inbox' : inbox'[j] = "recon_stopped"
      <4>1. i \in DOMAIN inbox' /\ inbox'[i] = inbox[i]
        BY <2>3
      <4> QED
        BY <3>3, <4>1
    <3> QED
      BY <2>1, <2>2, <3>1, <3>2, <3>3 DEF Said
  <2>5. \A i \in DOMAIN inbox' : inbox'[i] # "exit"
    <3> TAKE i \in DOMAIN inbox'
    <3>1. CASE i = Len(inbox) + 1
      BY <2>1, <2>3, <3>1, ExitIsLast
    <3>2. CASE i # Len(inbox) + 1
      <4>1. i \in DOMAIN inbox /\ inbox'[i] = inbox[i]
        BY <2>3, <3>2
      <4> QED
        BY <2>1, <4>1 DEF Lines
    <3> QED
      BY <3>1, <3>2
  <2>6. child # "none" /\ ui # "start" /\ front # "terminal"
    BY <2>1 DEF Lines
  <2> QED
    BY <2>1, <2>4, <2>5, <2>6 DEF Lines
<1>5. CASE QueueExit
  <2>1. /\ inbox' = Append(inbox, "exit") /\ reader' = "done" /\ child = "ended" /\ pipe = <<>>
        /\ UNCHANGED <<front, ui, child, cause, stopped, exited, pipe>> /\ reader = "reading"
    BY <1>5 DEF QueueExit, AtEof, childVars, viewVars
  <2>2. /\ DOMAIN inbox = 1..Len(inbox) /\ Len(inbox) \in Nat /\ Len(inbox') = Len(inbox) + 1
        /\ DOMAIN inbox' = 1..Len(inbox) + 1
        /\ \A i \in 1..Len(inbox) : inbox'[i] = inbox[i]
    BY <1>0, <2>1, AppendProperties, LenProperties
  <2>3. Said => Said'
    <3>1. ASSUME NEW i \in DOMAIN inbox, inbox[i] = "recon_stopped"
          PROVE  \E j \in DOMAIN inbox' : inbox'[j] = "recon_stopped"
      <4>1. i \in DOMAIN inbox' /\ inbox'[i] = inbox[i]
        BY <2>2
      <4> QED
        BY <3>1, <4>1
    <3> QED
      BY <2>1, <3>1 DEF Said
  <2>4. \A i \in DOMAIN inbox' : inbox'[i] = "exit" => i = Len(inbox')
    <3> TAKE i \in DOMAIN inbox'
    <3>1. i # Len(inbox) + 1 => i \in DOMAIN inbox /\ inbox'[i] = inbox[i]
      BY <2>2
    <3> QED
      BY <2>1, <2>2, <3>1 DEF Lines
  <2>5. ui # "start" /\ front # "terminal"
    BY <2>1 DEF Lines
  <2> QED
    BY <2>1, <2>3, <2>4, <2>5 DEF Lines
<1>6. CASE ChildStep
  <2>0. UNCHANGED <<front, ui, stopped, exited, inbox, reader>>
    BY <1>6 DEF ChildStep, viewVars, readerVars
  <2>1. \A line \in {"recon_started", "event", "recon_stopped"} :
           pipe' = Append(pipe, line) =>
             /\ Said => Said'
             /\ line = "recon_stopped" => Said'
    <3> TAKE line \in {"recon_started", "event", "recon_stopped"}
    <3> HAVE pipe' = Append(pipe, line)
    <3>1. /\ DOMAIN pipe = 1..Len(pipe) /\ Len(pipe) \in Nat /\ DOMAIN pipe' = 1..Len(pipe) + 1
          /\ pipe'[Len(pipe) + 1] = line /\ \A i \in 1..Len(pipe) : pipe'[i] = pipe[i]
      BY <1>0, AppendProperties, LenProperties
    <3>2. Len(pipe) + 1 \in DOMAIN pipe'
      BY <3>1
    <3>3. ASSUME NEW i \in DOMAIN pipe, pipe[i] = "recon_stopped"
          PROVE  \E j \in DOMAIN pipe' : pipe'[j] = "recon_stopped"
      <4>1. i \in DOMAIN pipe' /\ pipe'[i] = pipe[i]
        BY <3>1
      <4> QED
        BY <3>3, <4>1
    <3> QED
      BY <2>0, <3>1, <3>2, <3>3 DEF Said
  <2>2. UNCHANGED pipe => (Said => Said')
    BY <2>0 DEF Said
  <2> QED
    BY <1>0, <1>6, <2>0, <2>1, <2>2 DEF ChildStep, Write, Ends, Lines
<1>7. ASSUME UNCHANGED <<front, inbox, reader, pipe, stopped, exited>>, ui' = "start" => ui = "start",
             \/ UNCHANGED <<child, cause>>
             \/ Running /\ child' = "ended" /\ cause' \in {"signal", "killed"}
      PROVE  Lines'
  <2>1. CASE UNCHANGED <<child, cause>>
    BY <1>7, <2>1 DEF Lines, Said
  <2>2. CASE Running /\ child' = "ended" /\ cause' \in {"signal", "killed"}
    BY <1>7, <2>2 DEF Lines, Running
  <2> QED
    BY <1>7, <2>1, <2>2
<1>8. CASE Start
  <2>1. /\ ui = "start" /\ ui' = "loop" /\ UNCHANGED <<front, stopped, inbox, cause, pipe>>
        /\ \/ child' = "loading" /\ reader' = (IF front = "window" THEN "reading" ELSE "none")
              /\ UNCHANGED exited
           \/ UNCHANGED <<child, reader>>
    BY <1>8 DEF Start
  <2>2. /\ child = "none" /\ cause = "none" /\ pipe = <<>> /\ inbox = <<>> /\ reader # "done"
    BY <2>1 DEF Lines
  <2>3. DOMAIN inbox = {}
    BY <1>0, <2>2, EmptySeq, LenProperties
  <2>4. child' # "said" /\ cause' # "clean" /\ reader' # "done" /\ child' # "ended" /\ cause' = "none"
    BY <2>1, <2>2
  <2>5. front' = "terminal" => inbox' = <<>> /\ reader' = "none"
    BY <2>1, <2>2 DEF Lines
  <2> QED
    BY <2>1, <2>2, <2>3, <2>4, <2>5 DEF Lines
<1>9. CASE StopEnds
  BY <1>7, <1>9 DEF StopEnds, Ends, viewVars, readerVars
<1>10. CASE TakeSigUsr1
  BY <1>7, <1>10 DEF TakeSigUsr1, Rescan, Ends, Running, viewVars, readerVars, childVars
<1>11. CASE LoopSigUsr1
  BY <1>7, <1>11 DEF LoopSigUsr1, Rescan, Ends, Running, viewVars, readerVars, childVars
<1>12. CASE Keys
  BY <1>7, <1>12 DEF Keys, TogglePause, Rescan, Ends, Running, viewVars, readerVars, childVars
<1>13. CASE Leave \/ Poll \/ DrainEnds
  BY <1>7, <1>13 DEF Leave, Poll, DrainEnds, Drained, viewVars, readerVars, childVars
<1>14. CASE TakeSigInt \/ KeyQuit
  BY <1>7, <1>14 DEF TakeSigInt, KeyQuit, BeginStop, viewVars, readerVars, childVars
<1>15. CASE \E s \in Signals : Signal(s)
  BY <1>7, <1>15 DEF Signal, viewVars, readerVars
<1> QED
  BY <1>1, <1>2, <1>3, <1>4, <1>5, <1>6, <1>8, <1>9, <1>10, <1>11, <1>12, <1>13, <1>14, <1>15 DEF Next

\* A failure stands for an unclean end after every step.
LEMMA StatusStep ==
  ASSUME TypeOK, Lines, Asked, FailureIsUncleanEnd, Next
  PROVE  FailureIsUncleanEnd'
<1> USE DEF FailureIsUncleanEnd, Ui, User
<1>0. /\ child \in {"none", "loading", "running", "said", "ended"} /\ stopRequested \in BOOLEAN
      /\ cause \in {"none", "clean", "crash", "interrupted", "signal", "killed"}
      /\ {failed, exited, stopped, late, ready} \subseteq BOOLEAN
  BY DEF TypeOK
<1>1. ASSUME NEW item, Apply(item), UNCHANGED <<stopRequested, child, cause, late>>,
             item = "exit" => child = "ended" /\ (cause = "clean" => stopped)
      PROVE  FailureIsUncleanEnd'
  <2>1. CASE item = "exit"
    <3>1. failed' = ExitFailed /\ child = "ended" /\ (cause = "clean" => stopped) /\ cause # "none"
      BY <1>1, <2>1 DEF Apply, Lines
    <3>2. ExitFailed => cause \in {"crash", "interrupted", "signal"} /\ ~late
      BY <1>0, <3>1 DEF ExitFailed, Asked
    <3>3. /\ cause = "signal" => ready'
          /\ exited' /\ child' = child /\ cause' = cause /\ late' = late
          /\ stopRequested' = stopRequested
      BY <1>0, <1>1, <2>1 DEF Apply, Asked
    <3> QED
      BY <1>0, <3>1, <3>2, <3>3 DEF ExitFailed
  <2>2. CASE item # "exit"
    BY <1>0, <1>1, <2>2 DEF Apply
  <2> QED
    BY <2>1, <2>2
<1>2. CASE Drain
  <2>1. inbox # <<>> /\ Apply(Head(inbox)) /\ UNCHANGED <<stopRequested, child, cause, late>>
    BY <1>2 DEF Drain, childVars
  <2>2. Head(inbox) = "exit" => child = "ended" /\ (cause = "clean" => stopped)
    <3> HAVE Head(inbox) = "exit"
    <3>1. /\ child = "ended" /\ pipe = <<>> /\ inbox[1] = "exit" /\ DOMAIN inbox = {1}
      BY <2>1, ExitIsLast
    <3>2. DOMAIN pipe = {}
      BY <3>1, EmptySeq, LenProperties DEF TypeOK
    <3> QED
      BY <3>1, <3>2 DEF Lines, Said
  <2> QED
    BY <1>1, <2>1, <2>2
<1>3. CASE FollowLine
  <2>1. Apply(Head(pipe)) /\ Head(pipe) # "exit" /\ UNCHANGED <<stopRequested, child, cause, late>>
    BY <1>3, ExitIsLast DEF FollowLine, childVars
  <2> QED
    BY <1>1, <2>1
<1>4. CASE FollowExit
  <2>1. /\ Apply("exit") /\ child = "ended" /\ pipe = <<>> /\ inbox = <<>>
        /\ UNCHANGED <<stopRequested, child, cause, late>>
    BY <1>4 DEF FollowExit, InTerminal, AtEof, childVars, Lines
  <2>2. DOMAIN pipe = {} /\ DOMAIN inbox = {}
    BY <2>1, EmptySeq, LenProperties
  <2>3. cause = "clean" => stopped
    BY <2>2 DEF Lines, Said
  <2> QED
    BY <1>1, <2>1, <2>3
<1>5. CASE Start
  BY <1>0, <1>5 DEF Start, Lines, Asked
<1>6. CASE StopEnds
  BY <1>0, <1>6 DEF StopEnds, Ends, Running, viewVars, Asked
<1>7. CASE TakeSigUsr1
  BY <1>0, <1>7 DEF TakeSigUsr1, Rescan, CanRescan, Ends, childVars, Asked
<1>8. CASE LoopSigUsr1
  BY <1>0, <1>8 DEF LoopSigUsr1, Rescan, CanRescan, Ends, viewVars, Asked
<1>9. CASE Keys
  BY <1>0, <1>9 DEF Keys, TogglePause, Rescan, CanRescan, Ends, viewVars, childVars, Asked
<1>10. CASE Leave \/ Poll \/ DrainEnds
  BY <1>10 DEF Leave, Poll, DrainEnds, viewVars, childVars
<1>11. CASE TakeSigInt \/ KeyQuit
  BY <1>0, <1>11 DEF TakeSigInt, KeyQuit, BeginStop, Requested, viewVars, childVars
<1>12. CASE (\E s \in Signals : Signal(s)) \/ QueueLine \/ QueueExit
  BY <1>12 DEF Signal, QueueLine, QueueExit, viewVars, childVars
<1>13. CASE ChildStep
  BY <1>0, <1>13 DEF ChildStep, Ends, viewVars, Asked, Running
<1> QED
  BY <1>2, <1>3, <1>4, <1>5, <1>6, <1>7, <1>8, <1>9, <1>10, <1>11, <1>12, <1>13 DEF Next

\* The types that a step leaves, but for the log's.
LEMMA TypeStep ==
  ASSUME TypeOK, Next, LogInv'
  PROVE  TypeOK'
<1> DEFINE Lineset == {"recon_started", "event", "recon_stopped"}
           Itemset == {"recon_started", "event", "recon_stopped", "exit"}
           Causes == {"none", "clean", "crash", "interrupted", "signal", "killed"}
           Flags == {stopRequested, failed, ready, stopped, exited, sigint, late} \subseteq BOOLEAN
           Control == /\ front \in Fronts /\ keys \in 0..MaxKeys
                      /\ ui \in {"start", "loop", "drain", "int", "usr1", "stop", "join", "over"}
           View == applied \in Nat /\ shown \in 0..applied
           Counts == /\ received \in [Signals -> 0..MaxSignals]
                     /\ handled \in [Signals -> 0..MaxSignals]
           Child == /\ child \in {"none", "loading", "running", "said", "ended"}
                    /\ events \in 0..MaxEvents /\ cause \in Causes
                    /\ reader \in {"none", "reading", "done"}
           Between == inbox \in Seq(Itemset) /\ pipe \in Seq(Lineset) /\ Len(pipe) <= PipeSize
<1>0. /\ Flags /\ Control /\ View /\ Counts /\ Child /\ Between
      /\ MaxEvents \in Nat /\ MaxSignals \in Nat /\ MaxKeys \in Nat /\ PipeSize \in Nat \ {0}
  BY BoundsAssumption DEF TypeOK
<1> USE DEF Ui, User
<1>1. Control'
  <2>1. CASE Start \/ StopEnds \/ Leave \/ Poll \/ DrainEnds
    BY <1>0, <2>1 DEF Start, StopEnds, Leave, Poll, DrainEnds, Drained
  <2>2. CASE TakeSigInt \/ KeyQuit
    BY <1>0, <2>2 DEF TakeSigInt, KeyQuit, BeginStop
  <2>3. CASE Drain \/ FollowLine \/ FollowExit \/ TakeSigUsr1 \/ LoopSigUsr1
    BY <1>0, <2>3 DEF Drain, FollowLine, FollowExit, TakeSigUsr1, LoopSigUsr1
  <2>4. CASE Keys
    BY <1>0, <2>4 DEF Keys, TogglePause
  <2>5. CASE (\E s \in Signals : Signal(s)) \/ ChildStep \/ QueueLine \/ QueueExit
    BY <1>0, <2>5 DEF Signal, ChildStep, QueueLine, QueueExit
  <2> QED
    BY <2>1, <2>2, <2>3, <2>4, <2>5 DEF Next
<1>2. View'
  <2>1. CASE Start \/ StopEnds \/ Leave \/ Poll \/ DrainEnds
    BY <1>0, <2>1 DEF Start, StopEnds, Leave, Poll, DrainEnds, viewVars
  <2>2. CASE TakeSigInt \/ KeyQuit
    BY <1>0, <2>2 DEF TakeSigInt, KeyQuit, BeginStop, viewVars
  <2>3. CASE Drain \/ FollowLine \/ FollowExit \/ TakeSigUsr1 \/ LoopSigUsr1
    BY <1>0, <2>3
    DEF Drain, FollowLine, FollowExit, TakeSigUsr1, LoopSigUsr1, Apply, Refresh, viewVars
  <2>4. CASE Keys
    BY <1>0, <2>4 DEF Keys, TogglePause, viewVars
  <2>5. CASE (\E s \in Signals : Signal(s)) \/ ChildStep \/ QueueLine \/ QueueExit
    BY <1>0, <2>5 DEF Signal, ChildStep, QueueLine, QueueExit, viewVars
  <2> QED
    BY <2>1, <2>2, <2>3, <2>4, <2>5 DEF Next
<1>3. Counts'
  <2>1. CASE Start \/ StopEnds \/ Leave \/ Poll \/ DrainEnds
    BY <1>0, <2>1 DEF Start, StopEnds, Leave, Poll, DrainEnds, signalVars
  <2>2. CASE TakeSigInt \/ TakeSigUsr1 \/ LoopSigUsr1
    <3>1. UNCHANGED <<received, handled>> \/ \E s \in Signals : Take(s)
      BY <2>2 DEF TakeSigInt, TakeSigUsr1, LoopSigUsr1, signalVars, Signals
    <3> QED
      BY <1>0, <3>1 DEF Take
  <2>3. CASE Drain \/ FollowLine \/ FollowExit \/ KeyQuit
    BY <1>0, <2>3 DEF Drain, FollowLine, FollowExit, KeyQuit, signalVars
  <2>4. CASE Keys
    BY <1>0, <2>4 DEF Keys, TogglePause, signalVars
  <2>5. CASE \E s \in Signals : Signal(s)
    BY <1>0, <2>5 DEF Signal
  <2>6. CASE ChildStep \/ QueueLine \/ QueueExit
    BY <1>0, <2>6 DEF ChildStep, QueueLine, QueueExit, signalVars
  <2> QED
    BY <2>1, <2>2, <2>3, <2>4, <2>5, <2>6 DEF Next
<1>4. Child'
  <2>1. CASE Start \/ StopEnds \/ Leave \/ Poll \/ DrainEnds
    BY <1>0, <2>1 DEF Start, StopEnds, Leave, Poll, DrainEnds, Ends, childVars, readerVars
  <2>2. CASE TakeSigInt \/ KeyQuit
    BY <1>0, <2>2 DEF TakeSigInt, KeyQuit, BeginStop, childVars, readerVars
  <2>3. CASE Drain \/ FollowLine \/ FollowExit \/ TakeSigUsr1 \/ LoopSigUsr1
    BY <1>0, <2>3
    DEF Drain, FollowLine, FollowExit, TakeSigUsr1, LoopSigUsr1, Rescan, Ends, childVars, readerVars
  <2>4. CASE Keys
    BY <1>0, <2>4 DEF Keys, TogglePause, Rescan, Ends, childVars, readerVars
  <2>5. CASE (\E s \in Signals : Signal(s)) \/ ChildStep \/ QueueLine \/ QueueExit
    BY <1>0, <2>5 DEF Signal, ChildStep, QueueLine, QueueExit, Ends, childVars, readerVars
  <2> QED
    BY <2>1, <2>2, <2>3, <2>4, <2>5 DEF Next
<1>5. Flags'
  <2>1. CASE Start \/ StopEnds \/ Leave \/ Poll \/ DrainEnds
    BY <1>0, <2>1 DEF Start, StopEnds, Leave, Poll, DrainEnds, Ends, childVars, viewVars
  <2>2. CASE TakeSigInt \/ KeyQuit
    BY <1>0, <2>2 DEF TakeSigInt, KeyQuit, BeginStop, Requested, Running, childVars, viewVars
  <2>3. CASE Drain \/ FollowLine \/ FollowExit
    BY <1>0, <2>3 DEF Drain, FollowLine, FollowExit, Apply, ExitFailed, childVars
  <2>4. ASSUME NEW why, Ends(why) PROVE sigint' \in BOOLEAN /\ late' \in BOOLEAN
    <3>1. sigint' = FALSE /\ late' = (ui \in {"stop", "join", "over"})
      BY <2>4 DEF Ends
    <3>2. (ui \in {"stop", "join", "over"}) \in BOOLEAN
      OBVIOUS
    <3> QED
      BY <3>1, <3>2
  <2>5. Rescan => sigint' \in BOOLEAN /\ late' \in BOOLEAN /\ UNCHANGED stopRequested
    BY <1>0, <2>4 DEF Rescan
  <2>6. CASE TakeSigUsr1 \/ LoopSigUsr1
    BY <1>0, <2>5, <2>6 DEF TakeSigUsr1, LoopSigUsr1, childVars, viewVars
  <2>7. CASE Keys
    BY <1>0, <2>5, <2>7 DEF Keys, TogglePause, childVars, viewVars
  <2>8. CASE (\E s \in Signals : Signal(s)) \/ QueueLine \/ QueueExit
    BY <1>0, <2>8 DEF Signal, QueueLine, QueueExit, Running, childVars, viewVars
  <2>9. CASE ChildStep
    BY <1>0, <2>4, <2>9 DEF ChildStep, viewVars
  <2> QED
    BY <2>1, <2>2, <2>3, <2>6, <2>7, <2>8, <2>9 DEF Next
<1>6. Between'
  <2>1. \A s \in Seq(Lineset) : s # <<>> =>
           Tail(s) \in Seq(Lineset) /\ Len(Tail(s)) <= Len(s) /\ Head(s) \in Itemset
    <3> TAKE s \in Seq(Lineset)
    <3> HAVE s # <<>>
    <3>1. Head(s) \in Lineset /\ Tail(s) \in Seq(Lineset) /\ Len(Tail(s)) = Len(s) - 1
      BY HeadTailProperties
    <3>2. Len(s) \in Nat
      BY LenProperties
    <3> QED
      BY <3>1, <3>2
  <2>2. \A e \in Itemset : Append(inbox, e) \in Seq(Itemset)
    BY <1>0, AppendProperties
  <2>3. inbox # <<>> => Tail(inbox) \in Seq(Itemset)
    BY <1>0, HeadTailProperties
  <2>4. \A e \in Lineset : /\ Append(pipe, e) \in Seq(Lineset)
                           /\ Len(pipe) < PipeSize => Len(Append(pipe, e)) <= PipeSize
    <3> TAKE e \in Lineset
    <3>1. /\ Append(pipe, e) \in Seq(Lineset) /\ Len(Append(pipe, e)) = Len(pipe) + 1
          /\ Len(pipe) \in Nat
      BY <1>0, AppendProperties, LenProperties
    <3> QED
      BY <1>0, <3>1
  <2>5. pipe # <<>> =>
           Tail(pipe) \in Seq(Lineset) /\ Len(Tail(pipe)) <= PipeSize /\ Head(pipe) \in Itemset
    <3> HAVE pipe # <<>>
    <3>1. /\ Tail(pipe) \in Seq(Lineset) /\ Len(Tail(pipe)) <= Len(pipe) /\ Head(pipe) \in Itemset
      BY <1>0, <2>1
    <3>2. Len(pipe) \in Nat /\ Len(Tail(pipe)) \in Nat /\ Len(pipe) <= PipeSize
      BY <1>0, <3>1, LenProperties
    <3> QED
      BY <1>0, <3>1, <3>2
  <2> HIDE DEF Lineset, Itemset
  <2>6. CASE Drain
    BY <1>0, <2>3, <2>6 DEF Drain
  <2>7. CASE FollowLine
    BY <1>0, <2>5, <2>7 DEF FollowLine, readerVars
  <2>8. CASE QueueLine
    BY <1>0, <2>2, <2>5, <2>8 DEF QueueLine
  <2>9. CASE QueueExit
    <3>1. "exit" \in Itemset
      BY DEF Itemset
    <3> QED
      BY <1>0, <2>2, <2>9, <3>1 DEF QueueExit
  <2>10. CASE ChildStep
    <3>1. "recon_started" \in Lineset /\ "event" \in Lineset /\ "recon_stopped" \in Lineset
      BY DEF Lineset
    <3>2. UNCHANGED pipe \/ \E e \in Lineset : Write(e)
      BY <2>10, <3>1 DEF ChildStep
    <3>3. UNCHANGED inbox
      BY <2>10 DEF ChildStep, readerVars
    <3> QED
      BY <1>0, <2>4, <3>2, <3>3 DEF Write
  <2>11. CASE FollowExit \/ TakeSigUsr1 \/ LoopSigUsr1 \/ Start \/ StopEnds
    BY <1>0, <2>11
    DEF FollowExit, TakeSigUsr1, LoopSigUsr1, Start, StopEnds, Rescan, readerVars
  <2>12. CASE Keys
    BY <1>0, <2>12 DEF Keys, TogglePause, Rescan, readerVars
  <2>13. CASE Leave \/ Poll \/ DrainEnds \/ TakeSigInt \/ KeyQuit \/ \E s \in Signals : Signal(s)
    BY <1>0, <2>13 DEF Leave, Poll, DrainEnds, TakeSigInt, KeyQuit, BeginStop, Signal, readerVars
  <2> QED
    BY <2>6, <2>7, <2>8, <2>9, <2>10, <2>11, <2>12, <2>13 DEF Next
<1>7. /\ count' \in Nat /\ pausedAt' \in 0..count' /\ paused' \in BOOLEAN
      /\ log' \in Seq(1..count') /\ Len(log') <= LogLines
      /\ held' \in Seq(1..count') /\ Len(held') <= LogLines
  BY LogTypes DEF LogInv
<1> QED
  BY <1>1, <1>2, <1>3, <1>4, <1>5, <1>6, <1>7 DEF TypeOK

\* The invariant holds at the start.
LEMMA Initially == Init => Inv
<1> SUFFICES ASSUME Init PROVE Inv
  OBVIOUS
<1>1. Latest(Numbers(0, 0)) = <<>>
  <2>1. Latest(Numbers(0, 0)) \in Seq(1..0)
    BY LatestTypes
  <2>2. Latest(Numbers(0, 0)) = Numbers(From(0, 0), 0) /\ From(0, 0) = 0
    BY LatestOfNumbers
  <2>3. Len(Numbers(0, 0)) = 0
    BY NumbersProperties
  <2> QED
    BY <2>1, <2>2, <2>3, EmptySeq
<1>2. ScreenIsLatest /\ Screen
  BY <1>1 DEF Init, ScreenIsLatest, Screen
<1>3. Len(<<>>) = 0 /\ \A S : <<>> \in Seq(S)
  BY EmptySeq
<1>4. TypeOK
  <2>1. /\ MaxEvents \in Nat /\ MaxSignals \in Nat /\ MaxKeys \in Nat /\ 0 <= PipeSize
        /\ 0 <= LogLines
    BY BoundsAssumption
  <2>2. log \in Seq(1..count) /\ held \in Seq(1..count) /\ Len(log) <= LogLines /\ Len(held) <= LogLines
    BY <1>3, <2>1 DEF Init
  <2>3. /\ inbox \in Seq({"recon_started", "event", "recon_stopped", "exit"})
        /\ pipe \in Seq({"recon_started", "event", "recon_stopped"}) /\ Len(pipe) <= PipeSize
    BY <1>3, <2>1 DEF Init
  <2>4. received \in [Signals -> 0..MaxSignals] /\ handled \in [Signals -> 0..MaxSignals]
    BY <2>1 DEF Init
  <2>5. /\ {stopRequested, failed, ready, stopped, exited, sigint, late} \subseteq BOOLEAN
        /\ paused \in BOOLEAN /\ front \in Fronts /\ ui = "start" /\ child = "none"
        /\ reader = "none" /\ cause = "none"
    BY DEF Init
  <2>6. /\ count \in Nat /\ pausedAt \in 0..count /\ keys \in 0..MaxKeys /\ applied \in Nat
        /\ shown \in 0..applied /\ events \in 0..MaxEvents
    BY <2>1 DEF Init
  <2> QED
    BY <2>2, <2>3, <2>4, <2>5, <2>6 DEF TypeOK
<1>5. DOMAIN <<>> = {}
  OBVIOUS
<1>6. Lines /\ Asked /\ FailureIsUncleanEnd
  BY <1>5 DEF Init, Lines, Asked, FailureIsUncleanEnd, Stopping, Running
<1> QED
  BY <1>2, <1>4, <1>6 DEF Inv

\* Every step keeps the invariant.
LEMMA Inductive == Inv /\ [Next]_vars => Inv'
<1> SUFFICES ASSUME Inv, [Next]_vars PROVE Inv'
  OBVIOUS
<1>1. CASE Next
  <2>1. LogInv
    BY DEF Inv, ScreenIsLatest, LogInv, TypeOK
  <2>2. LogInv'
    BY <1>1, <2>1, LogSteps, LogKept
  <2>3. TypeOK' /\ Lines' /\ Asked' /\ Screen' /\ FailureIsUncleanEnd'
    BY <1>1, <2>2, TypeStep, LinesStep, AskedStep, ScreenStep, StatusStep DEF Inv
  <2>4. ScreenIsLatest'
    BY <2>2, <2>3 DEF LogInv, Screen, ScreenIsLatest
  <2> QED
    BY <2>3, <2>4 DEF Inv
<1>2. CASE UNCHANGED vars
  BY <1>2 DEF Inv, TypeOK, Lines, Said, Asked, Stopping, Running, Screen, ScreenIsLatest,
     FailureIsUncleanEnd, vars, logVars, viewVars, signalVars, readerVars, childVars
<1> QED
  BY <1>1, <1>2

\* The dashboard's types: the log, the queue and the pipe keep within their bounds
\* (LOG_LINES, the queue of records, the child's stdout).
THEOREM TypeCorrect == Spec => []TypeOK
<1>1. Inv => TypeOK
  BY DEF Inv
<1> QED
  BY <1>1, Initially, Inductive, PTL DEF Spec

\* The log shows the latest messages and only those, in their order, whatever a pause held
\* back and however it overflowed (_log, toggle_pause, action_pause, _poll).
THEOREM ScreenShowsTheLatest == Spec => []ScreenIsLatest
<1>1. Inv => ScreenIsLatest
  BY DEF Inv
<1> QED
  BY <1>1, Initially, Inductive, PTL DEF Spec

\* What is reported as a failure is a child that did not start or ended uncleanly before a
\* stop (by itself, or by a rescan's SIGUSR1 past its last record), and every unclean end
\* that was judged before a stop is (exit_failed, receiver_exited, close, _stop_receiver).
THEOREM FailuresAreUncleanEnds == Spec => []FailureIsUncleanEnd
<1>1. Inv => FailureIsUncleanEnd
  BY DEF Inv
<1> QED
  BY <1>1, Initially, Inductive, PTL DEF Spec

=============================================================================
