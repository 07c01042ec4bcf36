--------------------------- MODULE ConnectionProofs ---------------------------
(***************************************************************************)
(* What holds of a receiver's connection: what a fresh capture reads from  *)
(* it (FreshCapture), for every size of the transfers, the buffers, the    *)
(* queue and the capture, and for every timeout; and, in the second part,  *)
(* who opens and closes it (ReceiverConnect), for any set of receivers.    *)
(*                                                                         *)
(* A capture's bytes are whole I/Q pairs, it is never dated too early, and *)
(* it ends in time.  The argument about the bytes: what is on its way to   *)
(* the client is an increasing sequence of byte numbers, followed by the   *)
(* next byte that the receiver sends; dropping samples makes this sequence *)
(* jump, but by whole samples only, so the parity of a byte is that of its *)
(* place in it.                                                            *)
(***************************************************************************)
EXTENDS FreshCapture, ReceiverConnect, SequenceTheorems, TLAPS

\* The next byte that the receiver will send.
NextByte == IF Unsent > 0 THEN pending.from ELSE 2 * sent

\* The bytes on their way and to be sent: in order, none twice.
InOrder ==
    /\ ended => Unsent = 0
    /\ \A i, j \in 1..Len(wire) : i <= j => wire[j] >= wire[i] + (j - i)
    /\ \A i \in 1..Len(wire) : wire[i] < 2 * sent
    /\ ~ended => \A i \in 1..Len(wire) : NextByte >= wire[i] + (Len(wire) - i + 1)

\* The parity of what the client has taken of the sample that it is in.
Taken == CASE phase = "drain" -> IF odd THEN 1 ELSE 0
           [] phase = "read" -> received
           [] OTHER -> 0

\* The parity of a byte is that of its place after what was taken.
InStep ==
    /\ pending.to % 2 = 0
    /\ phase \in {"idle", "drain", "read"} =>
        /\ \A i \in 1..Len(wire) : (wire[i] - (i - 1) - Taken) % 2 = 0
        /\ ~ended => (NextByte - Len(wire) - Taken) % 2 = 0

\* What the capture has read comes before what is still to come.
AfterLast ==
    phase = "read" /\ received > 0 =>
        /\ last < 2 * sent
        /\ \A i \in 1..Len(wire) : wire[i] >= last + i
        /\ ~ended => NextByte >= last + Len(wire) + 1

\* What the capture has read spans at least as many bytes as it counted.
Spanned ==
    Reading => first <= last /\ last - first + 1 >= received

\* Until the first read, the date is that of the beginning.
Begun ==
    phase = "read" /\ received = 0 => start = readStart

\* The inductive invariant, with the types.
StreamInv ==
    /\ InOrder /\ InStep /\ AfterLast /\ Spanned /\ Begun
    /\ PairsAreWhole /\ NeverDatedTooEarly

-----------------------------------------------------------------------------

\* The place in the file stays in the file (_advance).
LEMMA AdvancedInFile ==
    ASSUME NEW from \in Nat, NEW count \in Nat
    PROVE  Advanced(from, count) \in 0..FileSamples
  BY SizesAssumption DEF Advanced, Smaller

\* A drop leaves less than what exists, and never goes back.
LEMMA DropsForward ==
    ASSUME TypeOK, Overfull
    PROVE  /\ Behind - Smaller(Transfer, MaxQueue) \in Nat
           /\ sent + (Behind - Smaller(Transfer, MaxQueue)) \in sent..now
  BY SizesAssumption DEF TypeOK, ServerTypeOK, Overfull, Behind, Smaller

\* A transfer that is read from the file has samples, all of which exist.
LEMMA LoadsWhatExists ==
    ASSUME TypeOK, Loadable, ~(AtFileEnd /\ ~looped)
    PROVE  LET count == Smaller(Transfer, FileSamples - Reopened)
           IN  /\ count \in Nat \ {0} /\ sent + count <= now
               /\ Reopened + count \in 0..FileSamples
  BY SizesAssumption DEF TypeOK, ServerTypeOK, Loadable, Full, Behind, AtFileEnd, Reopened, Smaller

\* What is sent fits the wire and is part of the transfer.
LEMMA RoomFits ==
    ASSUME TypeOK
    PROVE  /\ Room \in Int /\ Room <= Unsent
           /\ Len(wire) + Room <= WireBytes \/ Room <= 0
           /\ carried + Room <= LinkBytes \/ Room <= 0
  BY SizesAssumption DEF TypeOK, ServerTypeOK, Room, Unsent, Smaller

-----------------------------------------------------------------------------

\* What is sent is appended to the wire, byte after byte.
LEMMA SendAppends ==
    ASSUME TypeOK, Send
    PROVE  /\ Room \in Nat \ {0} /\ Room <= Unsent /\ carried + Room <= LinkBytes
           /\ wire' \in Seq(Nat) /\ Len(wire') = Len(wire) + Room /\ Len(wire') <= WireBytes
           /\ \A i \in 1..Len(wire') :
                  wire'[i] = IF i <= Len(wire) THEN wire[i] ELSE pending.from + (i - Len(wire)) - 1
           /\ pending' \in [from : Nat, to : Nat]
           /\ pending'.from = pending.from + Room /\ pending'.to = pending.to
<1> DEFINE bytes == [i \in 1..Room |-> pending.from + i - 1]
<1>1. /\ Room \in Nat \ {0} /\ Room <= Unsent /\ carried + Room <= LinkBytes
      /\ Len(wire) + Room <= WireBytes /\ Len(wire) \in Nat
  BY RoomFits DEF Send, TypeOK, ServerTypeOK
<1>2. pending \in [from : Nat, to : Nat] /\ pending.from + Room <= pending.to
  BY <1>1 DEF TypeOK, ServerTypeOK, Unsent
<1> HIDE DEF Room
<1>3. bytes \in Seq(Nat) /\ Len(bytes) = Room /\ \A i \in 1..Room : bytes[i] = pending.from + i - 1
  BY <1>1, <1>2
<1>4. wire' = wire \o bytes /\ wire \in Seq(Nat)
  BY DEF Send, TypeOK, ServerTypeOK
<1> HIDE DEF bytes
<1>5. /\ wire' \in Seq(Nat) /\ Len(wire') = Len(wire) + Room
      /\ \A i \in 1..Len(wire) + Room :
             wire'[i] = IF i <= Len(wire) THEN wire[i] ELSE bytes[i - Len(wire)]
  BY <1>3, <1>4, ConcatProperties
<1>6. \A i \in 1..Len(wire') :
          wire'[i] = IF i <= Len(wire) THEN wire[i] ELSE pending.from + (i - Len(wire)) - 1
  <2> SUFFICES ASSUME NEW i \in 1..Len(wire) + Room
               PROVE  wire'[i] = IF i <= Len(wire) THEN wire[i]
                                 ELSE pending.from + (i - Len(wire)) - 1
    BY <1>5
  <2>1. CASE i <= Len(wire)
    BY <1>5, <2>1
  <2>2. CASE i > Len(wire)
    <3>1. i - Len(wire) \in 1..Room
      BY <1>1, <2>2
    <3>2. bytes[i - Len(wire)] = pending.from + (i - Len(wire)) - 1
      BY <1>3, <3>1
    <3> QED BY <1>1, <1>5, <2>2, <3>2
  <2> QED BY <1>1, <2>1, <2>2
<1>7. pending' = [pending EXCEPT !.from = @ + Room]
  BY DEF Send
<1>8. /\ pending' \in [from : Nat, to : Nat]
      /\ pending'.from = pending.from + Room /\ pending'.to = pending.to
  BY <1>1, <1>2, <1>7
<1> QED BY <1>1, <1>5, <1>6, <1>8

\* A read takes bytes from the front of the wire, and at least one.
LEMMA ReadTakes ==
    ASSUME TypeOK, ReadRecv
    PROVE  /\ Arriving \in 1..Len(wire) /\ received + Arriving \in 1..2 * Samples
           /\ wire' \in Seq(Nat) /\ Len(wire') = Len(wire) - Arriving
           /\ \A i \in 1..Len(wire') : wire'[i] = wire[Arriving + i]
<1>1. wire \in Seq(Nat) /\ Len(wire) \in Nat \ {0}
  BY DEF ReadRecv, TypeOK, ServerTypeOK
<1>2. Arriving \in 1..Len(wire) /\ received + Arriving \in 1..2 * Samples
  BY <1>1, SizesAssumption DEF ReadRecv, TypeOK, ClientTypeOK, Smaller, Arriving
<1> HIDE DEF Arriving
<1>3. wire' = SubSeq(wire, Arriving + 1, Len(wire))
  BY DEF ReadRecv
<1>4. \A i \in Arriving + 1..Len(wire) : wire[i] \in Nat
  BY <1>1, <1>2
<1>5. /\ wire' \in Seq(Nat)
      /\ Len(wire') = IF Arriving + 1 <= Len(wire) THEN Len(wire) - (Arriving + 1) + 1 ELSE 0
      /\ \A i \in 1..Len(wire) - (Arriving + 1) + 1 : wire'[i] = wire[Arriving + 1 + i - 1]
  <2> DEFINE m == Arriving + 1
             n == Len(wire)
  <2>1. m \in Int /\ n \in Int /\ \A i \in m..n : wire[i] \in Nat
    BY <1>1, <1>2, <1>4
  <2> HIDE DEF m, n
  <2>2. /\ SubSeq(wire, m, n) \in Seq(Nat)
        /\ Len(SubSeq(wire, m, n)) = IF m <= n THEN n - m + 1 ELSE 0
        /\ \A i \in 1..n - m + 1 : SubSeq(wire, m, n)[i] = wire[m + i - 1]
    BY <2>1, SubSeqProperties
  <2> QED BY <1>3, <2>2 DEF m, n
<1> QED BY <1>1, <1>2, <1>5

\* What the client keeps has its type after every step of the server.
LEMMA ClientUntouched ==
    ASSUME TypeOK, UNCHANGED <<now, stalls, phase, drainVars, readVars>>
    PROVE  now' \in Nat /\ stalls' \in Nat /\ ClientTypeOK'
  BY DEF TypeOK, ClientTypeOK, drainVars, readVars

\* What the server and the link keep has its type after the steps that leave them.
LEMMA ServerUntouched ==
    ASSUME TypeOK, UNCHANGED <<now, linkVars>>
    PROVE  now' \in Nat /\ ServerTypeOK'
  BY DEF TypeOK, ServerTypeOK, linkVars

\* The state stays well formed, and what is sent exists: no counter of the server
\* runs ahead of the clock (ReplayServer._serve_client).
THEOREM TypeCorrect == Spec => []TypeOK
<1>1. Init => TypeOK
  <2> SUFFICES ASSUME Init PROVE TypeOK
    OBVIOUS
  <2>1. now \in Nat /\ stalls \in Nat /\ ServerTypeOK
    <3>1. looped \in BOOLEAN /\ ended \in BOOLEAN /\ silent \in BOOLEAN
      BY Zenon DEF Init
    <3>2. wire \in Seq(Nat) /\ Len(wire) <= WireBytes
      BY SizesAssumption DEF Init
    <3>3. pending \in [from : Nat, to : Nat] /\ pending.from <= pending.to /\ pending.to <= 2 * sent
      BY DEF Init
    <3> QED BY <3>1, <3>2, <3>3, SizesAssumption DEF Init, ServerTypeOK
  <2>2. ClientTypeOK
    <3>1. odd \in BOOLEAN
      BY Zenon DEF Init
    <3>2. capture \in [backlogged : BOOLEAN, caughtUp : BOOLEAN]
      BY Zenon DEF Init
    <3>3. recent \subseteq [at : 0..now, bound : Int] /\ phase \in Phases
      BY DEF Init, Phases
    <3> QED BY <3>1, <3>2, <3>3, SizesAssumption DEF Init, ClientTypeOK
  <2> QED BY <2>1, <2>2 DEF TypeOK
<1>2. TypeOK /\ [Next]_vars => TypeOK'
  <2> SUFFICES ASSUME TypeOK, [Next]_vars PROVE TypeOK'
    OBVIOUS
  <2>1. CASE Drop
    <3>1. offset' \in 0..FileSamples /\ sent' \in sent..now
      BY <2>1, DropsForward, AdvancedInFile DEF Drop, TypeOK, ServerTypeOK
    <3>2. ServerTypeOK'
      BY <2>1, <3>1 DEF Drop, TypeOK, ServerTypeOK
    <3> QED BY <2>1, <3>2, ClientUntouched DEF Drop, TypeOK
  <2>2. CASE Load
    <3>1. CASE AtFileEnd /\ ~looped
      <4>1. ServerTypeOK'
        BY <2>2, <3>1 DEF Load, TypeOK, ServerTypeOK
      <4> QED BY <2>2, <4>1, ClientUntouched DEF Load, TypeOK
    <3>2. CASE ~(AtFileEnd /\ ~looped)
      <4>1. ServerTypeOK'
        BY <2>2, <3>2, LoadsWhatExists DEF Load, TypeOK, ServerTypeOK
      <4> QED BY <2>2, <4>1, ClientUntouched DEF Load, TypeOK
    <3> QED BY <3>1, <3>2
  <2>3. CASE Send
    <3>5. ServerTypeOK'
      BY <2>3, SendAppends DEF Send, TypeOK, ServerTypeOK, Unsent
    <3> QED BY <2>3, <3>5, ClientUntouched DEF Send, TypeOK
  <2>4. CASE Shutdown
    <3>1. ServerTypeOK'
      BY <2>4 DEF Shutdown, TypeOK, ServerTypeOK
    <3> QED BY <2>4, <3>1, ClientUntouched DEF Shutdown, TypeOK
  <2>5. CASE Silence
    <3>1. ServerTypeOK'
      BY <2>5 DEF Silence, TypeOK, ServerTypeOK
    <3> QED BY <2>5, <3>1, ClientUntouched DEF Silence, TypeOK
  <2>6. CASE Begin
    <3>0. odd' \in BOOLEAN /\ phase' \in Phases
      BY <2>6, Zenon DEF Begin, Phases
    <3>1. ClientTypeOK'
      BY <2>6, <3>0 DEF Begin, TypeOK, ClientTypeOK, readVars
    <3> QED BY <2>6, <3>1, ServerUntouched DEF Begin, TypeOK
  <2>7. ASSUME NEW why \in Phases \ {"read"}, Fail(why) PROVE TypeOK'
    <3>1. ClientTypeOK'
      BY <2>7 DEF Fail, TypeOK, ClientTypeOK, drainVars, readVars
    <3> QED BY <2>7, <3>1, ServerUntouched DEF Fail, TypeOK
  <2>8. CASE DrainTimesOut \/ DrainEof \/ ReadEof \/ ReadTimesOut \/ ReadTooSlow
    BY <2>7, <2>8 DEF DrainTimesOut, DrainEof, ReadEof, ReadTimesOut, ReadTooSlow, Phases
  <2>9. CASE DrainRecv
    <3>1. ServerTypeOK'
      BY <2>9, SizesAssumption DEF DrainRecv, TypeOK, ServerTypeOK
    <3>2. odd' \in BOOLEAN
      BY <2>9 DEF DrainRecv
    <3>3. ClientTypeOK'
      BY <2>9, <3>2 DEF DrainRecv, TypeOK, ClientTypeOK, readVars
    <3> QED BY <2>9, <3>1, <3>3 DEF DrainRecv, TypeOK
  <2>10. CASE DrainEnds
    <3>0. phase' \in Phases /\ recent' = {}
      BY <2>10 DEF DrainEnds, Phases
    <3>1. ClientTypeOK'
      BY <2>10, <3>0, SizesAssumption DEF DrainEnds, TypeOK, ClientTypeOK, drainVars
    <3> QED BY <2>10, <3>1, ServerUntouched DEF DrainEnds, TypeOK
  <2>11. CASE ReadRecv
    <3>0. /\ Arriving \in 1..Len(wire) /\ received + Arriving \in 1..2 * Samples
          /\ wire' \in Seq(Nat) /\ Len(wire') = Len(wire) - Arriving
      BY <2>11, ReadTakes
    <3> HIDE DEF Arriving
    <3>1. ServerTypeOK'
      BY <2>11, <3>0, SizesAssumption DEF ReadRecv, TypeOK, ServerTypeOK
    <3>2. phase' \in Phases /\ capture' \in [backlogged : BOOLEAN, caughtUp : BOOLEAN]
      <4>1. Judged(recent', start', now) \in [backlogged : BOOLEAN, caughtUp : BOOLEAN]
        BY DEF Judged, ArrivedInRealTime
      <4> QED BY <2>11, <4>1 DEF ReadRecv, TypeOK, ClientTypeOK, Phases
    <3>3. received' \in 0..2 * Samples /\ (phase' = "read" => received' < 2 * Samples)
      <4>1. received' \in 0..2 * Samples
        BY <2>11, <3>0, SizesAssumption DEF ReadRecv
      <4>2. phase' = "read" => received' # 2 * Samples
        BY <2>11 DEF ReadRecv
      <4> QED BY <4>1, <4>2, SizesAssumption
    <3>4. start' \in Int /\ recent' \subseteq [at : 0..now, bound : Int]
      <4>1. BoundOf(received') \in Int
        BY <3>3 DEF BoundOf, TypeOK
      <4> QED BY <2>11, <4>1 DEF ReadRecv, TypeOK, ClientTypeOK, Earliest, Smaller
    <3>5. first' \in Nat /\ last' \in Nat
      <4>1. wire \in Seq(Nat) /\ 1 \in 1..Len(wire)
        BY <3>0 DEF TypeOK, ServerTypeOK
      <4>2. wire[1] \in Nat /\ wire[Arriving] \in Nat
        BY <3>0, <4>1
      <4> QED BY <2>11, <4>2 DEF ReadRecv, TypeOK, ClientTypeOK
    <3>6. ClientTypeOK'
      BY <2>11, <3>2, <3>3, <3>4, <3>5 DEF ReadRecv, TypeOK, ClientTypeOK, drainVars
    <3> QED BY <2>11, <3>1, <3>6 DEF ReadRecv, TypeOK
  <2>12. CASE Tick
    <3>1. ServerTypeOK'
      BY <2>12, SizesAssumption DEF Tick, TypeOK, ServerTypeOK
    <3>2. ClientTypeOK'
      BY <2>12 DEF Tick, TypeOK, ClientTypeOK, drainVars, readVars
    <3> QED BY <2>12, <3>1, <3>2 DEF Tick, TypeOK
  <2>13. CASE UNCHANGED vars
    BY <2>13, ServerUntouched, ClientUntouched DEF TypeOK, vars, linkVars
  <2> QED BY <2>1, <2>2, <2>3, <2>4, <2>5, <2>6, <2>8, <2>9, <2>10, <2>11, <2>12, <2>13
         DEF Next, Server, Drain, Read
<1> QED BY <1>1, <1>2, PTL DEF Spec

-----------------------------------------------------------------------------
(* The time of a capture.                                                    *)

\* A capture ends in time for every length of its intervals: a tick in which nothing
\* could move leaves the clock before the deadline that the client waits for, and every
\* other tick is a stall (_discard_until_quiet, _recv_before).
THEOREM EndsInTime == Spec => []CaptureIsBounded
<1>1. Init => CaptureIsBounded
  BY DEF Init, CaptureIsBounded
<1>2. TypeOK /\ CaptureIsBounded /\ [Next]_vars => CaptureIsBounded'
  <2> SUFFICES ASSUME TypeOK, CaptureIsBounded, [Next]_vars PROVE CaptureIsBounded'
    OBVIOUS
  <2>1. /\ now \in Int /\ stalls \in Int /\ startedAt \in Int /\ readStart \in Int
        /\ MaxDrain \in Int /\ MaxRead \in Int /\ MaxDrain >= 0 /\ MaxRead >= 0
        /\ stalls >= 0
    BY TimesAssumption DEF TypeOK, ClientTypeOK
  <2>2. CASE UNCHANGED <<now, stalls, startedAt, readStart>>
             /\ (phase' = phase \/ phase' \notin {"drain", "read"})
    BY <2>2 DEF CaptureIsBounded
  <2>3. CASE Server
    BY <2>2, <2>3 DEF Server, Drop, Load, Send, Shutdown, Silence, drainVars, readVars
  <2>4. CASE Begin
    BY <2>1, <2>4 DEF Begin, CaptureIsBounded
  <2>5. CASE DrainTimesOut \/ DrainEof \/ ReadEof \/ ReadTimesOut \/ ReadTooSlow
    BY <2>2, <2>5 DEF DrainTimesOut, DrainEof, ReadEof, ReadTimesOut, ReadTooSlow,
                      Fail, drainVars, readVars
  <2>6. CASE DrainRecv \/ ReadRecv
    BY <2>2, <2>6 DEF DrainRecv, ReadRecv, drainVars, readVars
  <2>7. CASE DrainEnds
    BY <2>1, <2>7 DEF DrainEnds, CaptureIsBounded, DrainDeadline, drainVars
  <2>8. CASE Tick
    <3>1. UNCHANGED <<phase, startedAt, readStart>> /\ now' = now + 1
      BY <2>8 DEF Tick, drainVars, readVars
    <3>2. CASE Ready
      <4>1. stalls' = stalls + 1
        BY <2>8, <3>2 DEF Tick
      <4> QED BY <2>1, <3>1, <4>1 DEF CaptureIsBounded
    <3>3. CASE ~Ready
      <4>1. stalls' = stalls
        BY <2>8, <3>3 DEF Tick
      <4>2. phase = "drain" => now < startedAt + MaxDrain
        BY <2>1, <3>3 DEF Ready, ClientReady, DrainDeadline
      <4>3. phase = "read" => now < readStart + MaxRead
        BY <2>1, <3>3 DEF Ready, ClientReady, ReadDeadline
      <4> QED BY <2>1, <3>1, <4>1, <4>2, <4>3 DEF CaptureIsBounded
    <3> QED BY <3>2, <3>3
  <2>9. CASE UNCHANGED vars
    BY <2>2, <2>9 DEF vars, drainVars, readVars
  <2> QED BY <2>3, <2>4, <2>5, <2>6, <2>7, <2>8, <2>9 DEF Next, Drain, Read
<1> QED BY <1>1, <1>2, TypeCorrect, PTL DEF Spec

-----------------------------------------------------------------------------
(* The bytes of a capture.                                                   *)

bytesVars == <<wire, pending, sent, ended, odd, readStart, received, start, first, last>>

\* A step that touches neither the bytes nor what the capture counts keeps the
\* invariant, whether the phase stays or the capture fails.
LEMMA BytesUntouched ==
    ASSUME StreamInv, UNCHANGED bytesVars,
           phase' = phase \/ phase' \in {"notQuiet", "closed", "dead", "slow"}
    PROVE  StreamInv'
<1>1. InOrder'
  BY DEF StreamInv, InOrder, bytesVars, NextByte, Unsent
<1>2. phase' \in {"idle", "drain", "read", "captured"} => phase' = phase
  OBVIOUS
<1>3. InStep'
  <2>1. pending'.to % 2 = 0
    BY DEF StreamInv, InStep, bytesVars
  <2>2. CASE phase' \in {"idle", "drain", "read"}
    <3>1. Taken' = Taken /\ NextByte' = NextByte
      BY <1>2, <2>2 DEF Taken, bytesVars, NextByte, Unsent
    <3> QED BY <1>2, <2>1, <2>2, <3>1 DEF StreamInv, InStep, bytesVars
  <2> QED BY <2>1, <2>2 DEF InStep
<1>4. AfterLast' /\ Spanned' /\ Begun'
  BY <1>2 DEF StreamInv, AfterLast, Spanned, Begun, Reading, bytesVars, NextByte, Unsent
<1>5. PairsAreWhole' /\ NeverDatedTooEarly'
  BY <1>2 DEF StreamInv, PairsAreWhole, NeverDatedTooEarly, Reading, bytesVars
<1> QED BY <1>1, <1>3, <1>4, <1>5 DEF StreamInv

\* Whole samples added to whole samples are whole samples.
LEMMA EvenSum ==
    ASSUME NEW a \in Int, NEW b \in Int, NEW c \in Int, a % 2 = 0, b % 2 = 0, c = a + b
    PROVE  c % 2 = 0
  OBVIOUS

LEMMA EvenDifference ==
    ASSUME NEW a \in Int, NEW b \in Int, NEW c \in Int, a % 2 = 0, b % 2 = 0, c = a - b
    PROVE  c % 2 = 0
  OBVIOUS

\* The samples that the bytes of a capture span existed when it ended.
LEMMA BoundIsLate ==
    ASSUME NEW f \in Nat, NEW count \in Nat, NEW n \in Nat, f + count <= 2 * n
    PROVE  n - count \div 2 >= f \div 2
  OBVIOUS

\* A later bound keeps an estimate as late as it was.
LEMMA EarliestKeeps ==
    ASSUME NEW s \in Int, NEW b \in Int, NEW f \in Int, NEW n \in Int,
           s >= Smaller(f, n), b >= f
    PROVE  Smaller(s, b) >= Smaller(f, n)
  BY DEF Smaller

\* Of two numbers of samples the larger has the more bytes, by whole samples.
LEMMA BytesGrow ==
    ASSUME NEW m \in Nat, NEW n \in Nat, n >= m
    PROVE  /\ 2 * n \in Nat /\ 2 * n >= 2 * m /\ (2 * n - 2 * m) % 2 = 0
           /\ \A b \in Nat : b < 2 * m => b < 2 * n
<1>1. n - m \in Nat /\ 2 * n - 2 * m = 2 * (n - m)
  OBVIOUS
<1>2. (2 * (n - m)) % 2 = 0
  BY <1>1
<1> QED BY <1>1, <1>2

\* The numbers that the invariant is about are integers.
LEMMA Numbers ==
    ASSUME TypeOK
    PROVE  /\ wire \in Seq(Nat) /\ Len(wire) \in Nat /\ \A i \in 1..Len(wire) : wire[i] \in Nat
           /\ sent \in Nat /\ now \in Nat /\ sent <= now /\ NextByte \in Nat /\ Unsent \in Nat
           /\ received \in Nat /\ last \in Nat /\ first \in Nat /\ start \in Int
           /\ readStart \in Nat
<1>1. /\ wire \in Seq(Nat) /\ sent \in Nat /\ now \in Nat /\ sent <= now
      /\ pending \in [from : Nat, to : Nat] /\ pending.from <= pending.to
  BY DEF TypeOK, ServerTypeOK
<1>2. Len(wire) \in Nat /\ \A i \in 1..Len(wire) : wire[i] \in Nat
  BY <1>1
<1>3. NextByte \in Nat /\ Unsent \in Nat
  BY <1>1 DEF NextByte, Unsent
<1>4. /\ received \in Nat /\ last \in Nat /\ first \in Nat /\ start \in Int
      /\ readStart \in Nat
  BY <1>1, SizesAssumption DEF TypeOK, ClientTypeOK
<1> QED BY <1>1, <1>2, <1>3, <1>4

\* A step of the server after which the next byte is later by whole samples, and the
\* wire is the same, keeps the invariant.
LEMMA ServerSkips ==
    ASSUME TypeOK, TypeOK', StreamInv, ~ended,
           UNCHANGED <<wire, odd, readStart, received, start, first, last, phase>>,
           sent' >= sent, pending'.to % 2 = 0, ended' => Unsent' = 0,
           ended' \/ (NextByte' >= NextByte /\ (NextByte' - NextByte) % 2 = 0)
    PROVE  StreamInv'
<1>0. /\ Len(wire) \in Nat /\ \A i \in 1..Len(wire) : wire[i] \in Nat
      /\ sent \in Nat /\ NextByte \in Nat
      /\ received \in Nat /\ last \in Nat /\ first \in Nat
  BY Numbers
<1>1. sent' \in Nat /\ NextByte' \in Nat
  <2>1. now' \in Nat /\ sent' \in 0..now'
    BY DEF TypeOK, ServerTypeOK
  <2>2. pending' \in [from : Nat, to : Nat]
    BY DEF TypeOK, ServerTypeOK
  <2>3. pending'.from \in Nat
    BY <2>2
  <2>4. sent' \in Nat
    BY <2>1
  <2>5. 2 * sent' \in Nat
    BY <1>0, <2>4, BytesGrow, Zenon
  <2> QED BY <2>3, <2>4, <2>5 DEF NextByte
<1>2. Taken' = Taken /\ Taken \in Nat
  BY <1>0 DEF Taken
<1> HIDE DEF NextByte, Unsent, Taken
<1>3. InOrder'
  <2>1. \A i \in 1..Len(wire) : wire[i] < 2 * sent'
    BY <1>0, <1>1 DEF StreamInv, InOrder
  <2>2. ASSUME ~ended', NEW i \in 1..Len(wire)
        PROVE  NextByte' >= wire[i] + (Len(wire) - i + 1)
    <3>1. NextByte >= wire[i] + (Len(wire) - i + 1) /\ wire[i] \in Nat /\ i \in Int
      BY <1>0 DEF StreamInv, InOrder
    <3>2. NextByte' >= NextByte
      BY <2>2
    <3> QED BY <1>0, <1>1, <3>1, <3>2
  <2> QED BY <2>1, <2>2 DEF StreamInv, InOrder
<1>4. InStep'
  <2>1. CASE phase \in {"idle", "drain", "read"} /\ ~ended'
    <3>1. (NextByte - Len(wire) - Taken) % 2 = 0
      BY <2>1 DEF StreamInv, InStep
    <3>2. (NextByte' - Len(wire) - Taken) % 2 = 0
      <4>1. (NextByte' - NextByte) % 2 = 0
        BY <2>1
      <4>2. /\ NextByte' - NextByte \in Int /\ NextByte - Len(wire) - Taken \in Int
            /\ NextByte' - Len(wire) - Taken \in Int
            /\ NextByte' - Len(wire) - Taken = (NextByte' - NextByte) + (NextByte - Len(wire) - Taken)
        BY <1>0, <1>1, <1>2
      <4> QED BY <3>1, <4>1, <4>2, EvenSum
    <3> QED BY <1>2, <2>1, <3>2 DEF StreamInv, InStep
  <2>2. CASE ~(phase \in {"idle", "drain", "read"} /\ ~ended')
    BY <1>2, <2>2 DEF StreamInv, InStep
  <2> QED BY <2>1, <2>2
<1>5. AfterLast'
  <2>1. CASE phase = "read" /\ received > 0
    <3>1. last < 2 * sent'
      <4>1. last < 2 * sent
        BY <2>1 DEF StreamInv, AfterLast
      <4> QED BY <1>0, <1>1, <4>1, BytesGrow, Zenon
    <3>2. ~ended' => NextByte' >= last + Len(wire) + 1
      <4>1. NextByte >= last + Len(wire) + 1
        BY <2>1 DEF StreamInv, AfterLast
      <4>2. ~ended' => NextByte' >= NextByte
        OBVIOUS
      <4> QED BY <1>0, <1>1, <4>1, <4>2
    <3> QED BY <2>1, <3>1, <3>2 DEF StreamInv, AfterLast
  <2> QED BY <2>1 DEF AfterLast
<1>6. Spanned' /\ Begun'
  BY DEF StreamInv, Spanned, Begun, Reading
<1>7. PairsAreWhole' /\ NeverDatedTooEarly'
  BY DEF StreamInv, PairsAreWhole, NeverDatedTooEarly, Reading
<1> QED BY <1>3, <1>4, <1>5, <1>6, <1>7 DEF StreamInv

\* What is sent continues the sequence on the wire.
LEMMA SendContinues ==
    ASSUME TypeOK, TypeOK', StreamInv, Send
    PROVE  StreamInv'
<1>0. /\ Len(wire) \in Nat /\ \A i \in 1..Len(wire) : wire[i] \in Nat
      /\ sent \in Nat /\ NextByte \in Nat /\ Unsent \in Nat
      /\ received \in Nat /\ last \in Nat /\ first \in Nat
  BY Numbers
<1>1. /\ Room \in Nat \ {0} /\ Room <= Unsent /\ Len(wire') = Len(wire) + Room
      /\ \A i \in 1..Len(wire') :
             wire'[i] = IF i <= Len(wire) THEN wire[i] ELSE pending.from + (i - Len(wire)) - 1
      /\ pending' \in [from : Nat, to : Nat]
      /\ pending'.from = pending.from + Room /\ pending'.to = pending.to
  BY SendAppends
<1>2. /\ UNCHANGED <<sent, ended, odd, readStart, received, start, first, last, phase>>
  BY DEF Send, drainVars, readVars
<1>3. /\ pending \in [from : Nat, to : Nat] /\ pending.to <= 2 * sent
      /\ Unsent = pending.to - pending.from
  BY DEF TypeOK, ServerTypeOK, Unsent
<1>4. Unsent > 0 /\ NextByte = pending.from /\ ~ended
  BY <1>0, <1>1 DEF NextByte, StreamInv, InOrder
<1>5. Unsent' = Unsent - Room
  BY <1>1, <1>3 DEF Unsent
<1> HIDE DEF Room, Unsent
<1>6. NextByte' \in Nat /\ NextByte' >= NextByte + Room /\ (NextByte' - NextByte - Room) % 2 = 0
  <2>1. CASE Unsent' > 0
    BY <1>0, <1>1, <1>4, <2>1 DEF NextByte
  <2>2. CASE ~(Unsent' > 0)
    <3>1. NextByte' = 2 * sent /\ NextByte + Room = pending.to
      BY <1>0, <1>1, <1>2, <1>3, <1>4, <1>5, <2>2 DEF NextByte
    <3>2. pending.to % 2 = 0 /\ (2 * sent) % 2 = 0
      BY <1>0 DEF StreamInv, InStep
    <3> QED BY <1>0, <1>1, <1>3, <3>1, <3>2
  <2> QED BY <2>1, <2>2
<1>7. Taken' = Taken /\ Taken \in Nat
  BY <1>0, <1>2 DEF Taken
<1> HIDE DEF NextByte, Taken
<1>8. InOrder'
  <2>1. ASSUME NEW i \in 1..Len(wire'), NEW j \in 1..Len(wire'), i <= j
        PROVE  wire'[j] >= wire'[i] + (j - i)
    <3>1. CASE j <= Len(wire)
      <4>1. wire[j] >= wire[i] + (j - i) /\ i \in 1..Len(wire) /\ j \in 1..Len(wire)
        BY <1>0, <1>1, <2>1, <3>1 DEF StreamInv, InOrder
      <4> QED BY <1>1, <3>1, <2>1, <4>1
    <3>2. CASE i <= Len(wire) /\ j > Len(wire)
      <4>1. pending.from >= wire[i] + (Len(wire) - i + 1) /\ wire[i] \in Nat
        BY <1>0, <1>4, <3>2 DEF StreamInv, InOrder
      <4>2. wire'[i] = wire[i] /\ wire'[j] = pending.from + (j - Len(wire)) - 1
        BY <1>0, <1>1, <3>2
      <4> QED BY <1>0, <1>3, <4>1, <4>2
    <3>3. CASE i > Len(wire)
      BY <1>0, <1>1, <1>3, <2>1, <3>3
    <3> QED BY <1>0, <1>1, <3>1, <3>2, <3>3
  <2>2. ASSUME NEW i \in 1..Len(wire') PROVE wire'[i] < 2 * sent'
    <3>1. CASE i <= Len(wire)
      <4>1. i \in 1..Len(wire) /\ wire[i] < 2 * sent
        BY <1>0, <1>1, <3>1 DEF StreamInv, InOrder
      <4> QED BY <1>1, <1>2, <3>1, <4>1
    <3>2. CASE i > Len(wire)
      BY <1>0, <1>1, <1>2, <1>3, <3>2
    <3> QED BY <1>0, <1>1, <3>1, <3>2
  <2>3. ASSUME NEW i \in 1..Len(wire')
        PROVE  NextByte' >= wire'[i] + (Len(wire') - i + 1)
    <3>1. CASE i <= Len(wire)
      <4>1. NextByte >= wire[i] + (Len(wire) - i + 1) /\ wire[i] \in Nat /\ wire'[i] = wire[i]
        BY <1>0, <1>1, <1>4, <3>1 DEF StreamInv, InOrder
      <4> QED BY <1>0, <1>1, <1>6, <4>1
    <3>2. CASE i > Len(wire)
      <4>1. wire'[i] = NextByte + (i - Len(wire)) - 1
        BY <1>1, <1>4, <3>2, <1>0
      <4> QED BY <1>0, <1>1, <1>6, <4>1
    <3> QED BY <1>0, <1>1, <3>1, <3>2
  <2> QED BY <1>2, <1>4, <2>1, <2>2, <2>3 DEF InOrder
<1>9. InStep'
  <2>1. pending'.to % 2 = 0
    BY <1>1 DEF StreamInv, InStep
  <2>2. CASE phase \in {"idle", "drain", "read"}
    <3>1. (NextByte - Len(wire) - Taken) % 2 = 0
      BY <1>4, <2>2 DEF StreamInv, InStep
    <3>2. ASSUME NEW i \in 1..Len(wire') PROVE (wire'[i] - (i - 1) - Taken) % 2 = 0
      <4>1. CASE i <= Len(wire)
        BY <1>0, <1>1, <2>2, <4>1 DEF StreamInv, InStep
      <4>2. CASE i > Len(wire)
        <5>1. wire'[i] - (i - 1) - Taken = NextByte - Len(wire) - Taken
          BY <1>0, <1>1, <1>4, <1>7, <4>2
        <5> QED BY <3>1, <5>1
      <4> QED BY <1>0, <1>1, <4>1, <4>2
    <3>3. (NextByte' - Len(wire') - Taken) % 2 = 0
      <4>1. Len(wire') = Len(wire) + Room
        BY <1>1
      <4>2. (NextByte' - (Len(wire) + Room) - Taken) % 2 = 0
        <5>1. (NextByte' - NextByte - Room) % 2 = 0 /\ NextByte' - NextByte - Room \in Int
          <6>1. Room \in Int /\ NextByte' \in Int /\ NextByte \in Int
            BY <1>0, <1>1, <1>6
          <6>2. NextByte' - NextByte - Room \in Int
            BY <6>1
          <6>3. (NextByte' - NextByte - Room) % 2 = 0
            BY <1>6
          <6> QED BY <6>2, <6>3
        <5>2. NextByte - Len(wire) - Taken \in Int
          BY <1>0, <1>7
        <5>3. /\ NextByte' - (Len(wire) + Room) - Taken \in Int
              /\ NextByte' - (Len(wire) + Room) - Taken
                 = (NextByte' - NextByte - Room) + (NextByte - Len(wire) - Taken)
          BY <1>0, <1>1, <1>6, <1>7
        <5> QED BY <3>1, <5>1, <5>2, <5>3, EvenSum
      <4> QED BY <4>1, <4>2
    <3> QED BY <1>2, <1>7, <2>1, <2>2, <3>2, <3>3 DEF InStep
  <2> QED BY <1>2, <2>1, <2>2 DEF InStep
<1>10. AfterLast'
  <2>1. CASE phase = "read" /\ received > 0
    <3>1. /\ last < 2 * sent /\ \A i \in 1..Len(wire) : wire[i] >= last + i
          /\ NextByte >= last + Len(wire) + 1
      BY <1>4, <2>1 DEF StreamInv, AfterLast
    <3>2. ASSUME NEW i \in 1..Len(wire') PROVE wire'[i] >= last + i
      <4>1. CASE i <= Len(wire)
        BY <1>0, <1>1, <3>1, <4>1
      <4>2. CASE i > Len(wire)
        <5>1. wire'[i] = NextByte + (i - Len(wire)) - 1
          BY <1>1, <1>4, <4>2, <1>0
        <5> QED BY <1>0, <1>1, <3>1, <5>1
      <4> QED BY <1>0, <1>1, <4>1, <4>2
    <3>3. NextByte' >= last + Len(wire') + 1
      BY <1>0, <1>1, <1>6, <3>1
    <3> QED BY <1>2, <2>1, <3>1, <3>2, <3>3 DEF AfterLast
  <2> QED BY <1>2, <2>1 DEF AfterLast
<1>11. Spanned' /\ Begun' /\ PairsAreWhole' /\ NeverDatedTooEarly'
  BY <1>2 DEF StreamInv, Spanned, Begun, PairsAreWhole, NeverDatedTooEarly, Reading
<1> QED BY <1>8, <1>9, <1>10, <1>11 DEF StreamInv

\* The drain takes the whole wire, and knows whether it took whole samples.
LEMMA DrainContinues ==
    ASSUME TypeOK, TypeOK', StreamInv, DrainRecv
    PROVE  StreamInv'
<1>0. Len(wire) \in Nat /\ NextByte \in Nat
  BY Numbers
<1>1. /\ phase = "drain" /\ phase' = "drain" /\ wire' = <<>> /\ Len(wire') = 0
      /\ UNCHANGED <<sent, pending, ended, readStart, received, start, first, last>>
      /\ odd' = (odd # (Len(wire) % 2 = 1))
  BY DEF DrainRecv, readVars
<1>2. NextByte' = NextByte
  BY <1>1 DEF NextByte, Unsent
<1>3. InOrder'
  BY <1>1 DEF StreamInv, InOrder, Unsent
<1>4. InStep'
  <2>1. ended \/ (NextByte - Len(wire) - Taken) % 2 = 0
    BY <1>1 DEF StreamInv, InStep
  <2>2. (Len(wire) + Taken - Taken') % 2 = 0 /\ Taken \in Int /\ Taken' \in Int
    <3>1. Taken = (IF odd THEN 1 ELSE 0) /\ Taken' = (IF odd' THEN 1 ELSE 0)
      BY <1>1 DEF Taken
    <3>2. odd \in BOOLEAN
      BY DEF TypeOK, ClientTypeOK
    <3>3. CASE Len(wire) % 2 = 1
      <4>1. odd' <=> ~odd
        BY <1>1, <3>2, <3>3, Zenon
      <4>2. Taken \in {0, 1} /\ Taken' = 1 - Taken
        BY <3>1, <4>1
      <4> QED BY <1>0, <3>3, <4>2
    <3>4. CASE Len(wire) % 2 # 1
      <4>1. odd' <=> odd
        BY <1>1, <3>2, <3>4, Zenon
      <4>2. Taken \in {0, 1} /\ Taken' = Taken
        BY <3>1, <4>1
      <4> QED BY <1>0, <3>4, <4>2
    <3> QED BY <3>3, <3>4
  <2> HIDE DEF Taken, NextByte
  <2>3. ended \/ (NextByte' - Len(wire') - Taken') % 2 = 0
    <3>1. CASE ended
      BY <3>1
    <3>2. CASE ~ended
      <4>1. /\ NextByte - Len(wire) - Taken \in Int /\ Len(wire) + Taken - Taken' \in Int
            /\ NextByte - 0 - Taken' \in Int
            /\ NextByte - 0 - Taken' = (NextByte - Len(wire) - Taken) + (Len(wire) + Taken - Taken')
        BY <1>0, <2>2
      <4>2. (NextByte - 0 - Taken') % 2 = 0
        <5>1. (NextByte - Len(wire) - Taken) % 2 = 0
          BY <2>1, <3>2
        <5>2. (Len(wire) + Taken - Taken') % 2 = 0
          BY <2>2
        <5> QED BY <4>1, <5>1, <5>2, EvenSum
      <4> QED BY <1>1, <1>2, <4>2
    <3> QED BY <3>1, <3>2
  <2> QED BY <1>1, <2>3 DEF StreamInv, InStep
<1>5. AfterLast' /\ Spanned' /\ Begun' /\ PairsAreWhole' /\ NeverDatedTooEarly'
  BY <1>1 DEF AfterLast, Spanned, Begun, PairsAreWhole, NeverDatedTooEarly, Reading
<1> QED BY <1>3, <1>4, <1>5 DEF StreamInv

\* The next part of a capture follows what it has, in order and in step.
LEMMA ReadContinues ==
    ASSUME TypeOK, TypeOK', StreamInv, ReadRecv
    PROVE  StreamInv'
<1> DEFINE k == Arriving
<1>0. /\ wire \in Seq(Nat) /\ Len(wire) \in Nat /\ \A i \in 1..Len(wire) : wire[i] \in Nat
      /\ sent \in Nat /\ now \in Nat /\ sent <= now /\ NextByte \in Nat
      /\ received \in Nat /\ last \in Nat /\ first \in Nat /\ start \in Int
      /\ readStart \in Nat
  BY Numbers
<1>1. /\ k \in 1..Len(wire) /\ Len(wire') = Len(wire) - k
      /\ \A i \in 1..Len(wire') : wire'[i] = wire[k + i]
  BY ReadTakes
<1>2. /\ phase = "read" /\ phase' \in {"read", "captured"}
      /\ received' = received + k
      /\ first' = IF received = 0 THEN wire[1] ELSE first
      /\ last' = wire[k]
      /\ start' = Earliest(start, BoundOf(received'))
      /\ UNCHANGED <<now, sent, pending, ended, odd, readStart>>
  BY DEF ReadRecv, drainVars
<1>3. k \in Nat /\ k > 0 /\ wire[1] \in Nat /\ wire[k] \in Nat /\ wire[k] < 2 * sent
  BY <1>0, <1>1 DEF StreamInv, InOrder
<1>4. NextByte' = NextByte /\ Unsent' = Unsent
  BY <1>2 DEF NextByte, Unsent
<1>5. Taken = received /\ received' \in Nat /\ received' > 0
  BY <1>0, <1>2, <1>3 DEF Taken
<1> HIDE DEF k, NextByte, Unsent
<1>6. wire[k] >= wire[1] + (k - 1)
  <2>1. 1 \in 1..Len(wire) /\ k \in 1..Len(wire) /\ 1 <= k
    BY <1>0, <1>1, <1>3
  <2> QED BY <2>1 DEF StreamInv, InOrder
<1>7. received > 0 => wire[k] >= last + k
  BY <1>1, <1>2 DEF StreamInv, AfterLast
<1>8. InOrder'
  <2>1. ASSUME NEW i \in 1..Len(wire'), NEW j \in 1..Len(wire'), i <= j
        PROVE  wire'[j] >= wire'[i] + (j - i)
    <3>1. /\ k + i \in 1..Len(wire) /\ k + j \in 1..Len(wire) /\ k + i <= k + j
          /\ (k + j) - (k + i) = j - i
      BY <1>0, <1>1, <1>3, <2>1
    <3>2. wire[k + j] >= wire[k + i] + ((k + j) - (k + i))
      BY <3>1 DEF StreamInv, InOrder
    <3> QED BY <1>1, <3>1, <3>2
  <2>2. ASSUME NEW i \in 1..Len(wire')
        PROVE  /\ wire'[i] < 2 * sent
               /\ ~ended => NextByte >= wire'[i] + (Len(wire') - i + 1)
    <3>1. k + i \in 1..Len(wire) /\ Len(wire) - (k + i) = Len(wire') - i
      BY <1>0, <1>1, <1>3
    <3>2. wire[k + i] < 2 * sent
      BY <3>1 DEF StreamInv, InOrder
    <3>3. ~ended => NextByte >= wire[k + i] + (Len(wire) - (k + i) + 1)
      BY <3>1 DEF StreamInv, InOrder
    <3> QED BY <1>1, <3>1, <3>2, <3>3
  <2> QED BY <1>2, <1>4, <2>1, <2>2 DEF StreamInv, InOrder
<1>9. ASSUME NEW i \in 1..Len(wire)
      PROVE  (wire[i] - (i - 1) - received) % 2 = 0
  BY <1>2, <1>5 DEF StreamInv, InStep
<1>10. InStep'
  <2>1. CASE phase' = "captured"
    BY <1>2, <2>1 DEF StreamInv, InStep
  <2>2. CASE phase' = "read"
    <3>1. Taken' = received + k
      BY <1>2, <2>2 DEF Taken
    <3>2. ASSUME NEW i \in 1..Len(wire')
          PROVE  (wire'[i] - (i - 1) - (received + k)) % 2 = 0
      <4>1. k + i \in 1..Len(wire) /\ wire[k + i] \in Nat
        BY <1>0, <1>1, <1>3
      <4>2. ASSUME NEW j \in 1..Len(wire), j = k + i
            PROVE  /\ (wire[j] - (j - 1) - received) % 2 = 0
                   /\ wire[j] - (j - 1) - received = wire[j] - (i - 1) - (received + k)
        <5>1. (wire[j] - (j - 1) - received) % 2 = 0
          BY <1>9
        <5>2. wire[j] \in Nat /\ j \in Int /\ i \in Int
          BY <1>0
        <5> QED BY <1>0, <1>3, <4>2, <5>1, <5>2
      <4>3. (wire[k + i] - (i - 1) - (received + k)) % 2 = 0
        BY <4>1, <4>2
      <4> QED BY <1>1, <4>3
    <3>3. ~ended => (NextByte - Len(wire') - (received + k)) % 2 = 0
      <4>1. ~ended => (NextByte - Len(wire) - received) % 2 = 0
        BY <1>2, <1>5 DEF StreamInv, InStep
      <4>2. NextByte - Len(wire) - received = NextByte - Len(wire') - (received + k)
        BY <1>0, <1>1, <1>3
      <4> QED BY <4>1, <4>2
    <3> QED BY <1>2, <1>4, <2>2, <3>1, <3>2, <3>3 DEF StreamInv, InStep
  <2> QED BY <1>2, <2>1, <2>2
<1>11. AfterLast'
  <2>1. ASSUME NEW i \in 1..Len(wire') PROVE wire'[i] >= last' + i
    <3>1. k + i \in 1..Len(wire) /\ k <= k + i /\ (k + i) - k = i
      BY <1>0, <1>1, <1>3
    <3>2. wire[k + i] >= wire[k] + ((k + i) - k)
      BY <1>1, <3>1 DEF StreamInv, InOrder
    <3> QED BY <1>1, <1>2, <3>1, <3>2
  <2>2. ~ended => NextByte >= last' + Len(wire') + 1
    <3>1. ~ended => NextByte >= wire[k] + (Len(wire) - k + 1)
      BY <1>1 DEF StreamInv, InOrder
    <3>2. wire[k] + (Len(wire) - k + 1) = last' + Len(wire') + 1
      BY <1>0, <1>1, <1>2, <1>3
    <3> QED BY <3>1, <3>2
  <2> QED BY <1>2, <1>3, <1>4, <2>1, <2>2 DEF AfterLast
<1>12. first' \in Nat /\ first' <= last' /\ last' - first' + 1 >= received'
  <2>1. CASE received = 0
    BY <1>0, <1>2, <1>3, <1>6, <2>1
  <2>2. CASE received > 0
    <3>1. first <= last /\ last - first + 1 >= received
      BY <1>2, <2>2 DEF StreamInv, Spanned, Reading
    <3> QED BY <1>0, <1>2, <1>3, <1>7, <2>2, <3>1
  <2> QED BY <1>0, <2>1, <2>2
<1>13. Begun'
  BY <1>5 DEF Begun
<1>14. first' % 2 = 0
  <2>1. CASE received = 0
    <3>0. 1 \in 1..Len(wire)
      BY <1>0, <1>1, <1>3
    <3>1. (wire[1] - (1 - 1) - received) % 2 = 0
      BY <1>9, <3>0, Zenon
    <3>2. wire[1] - (1 - 1) - received = wire[1]
      BY <1>3, <2>1
    <3> QED BY <1>2, <2>1, <3>1, <3>2
  <2>2. CASE received > 0
    BY <1>2, <2>2 DEF StreamInv, PairsAreWhole, Reading
  <2> QED BY <1>0, <2>1, <2>2
<1>15. (last' - first' + 1 - received') % 2 = 0
  <2>1. (wire[k] - (k - 1) - received) % 2 = 0
    BY <1>1, <1>9
  <2>2. wire[k] - (k - 1) - received \in Int /\ first' \in Int
    BY <1>0, <1>3, <1>12
  <2>3. last' - first' + 1 - received' = (wire[k] - (k - 1) - received) - first'
    BY <1>0, <1>2, <1>3, <1>12
  <2>4. last' - first' + 1 - received' \in Int
    BY <2>2, <2>3
  <2> QED BY <1>14, <2>1, <2>2, <2>3, <2>4, EvenDifference
<1>16. start' >= Smaller(first' \div 2, readStart)
  <2>1. start' = Smaller(start, now - received' \div 2) /\ received' \div 2 \in Int
    BY <1>2, <1>5 DEF Earliest, BoundOf
  <2>2. now - received' \div 2 >= first' \div 2
    <3>1. first' + received' <= 2 * now
      BY <1>0, <1>2, <1>3, <1>5, <1>12
    <3> QED BY <1>0, <1>5, <1>12, <3>1, BoundIsLate
  <2>3. start >= Smaller(first' \div 2, readStart)
    <3>1. CASE received = 0
      <4>1. start = readStart
        BY <1>2, <3>1 DEF StreamInv, Begun
      <4>2. first' \div 2 \in Int
        BY <1>12
      <4> QED BY <1>0, <4>1, <4>2 DEF Smaller
    <3>2. CASE received > 0
      BY <1>2, <3>2 DEF StreamInv, NeverDatedTooEarly, Reading
    <3> QED BY <1>0, <3>1, <3>2
  <2>4. first' \div 2 \in Int /\ now - received' \div 2 \in Int
    BY <1>0, <1>12, <2>1
  <2> QED BY <1>0, <2>1, <2>2, <2>3, <2>4, EarliestKeeps
<1>17. Spanned' /\ PairsAreWhole'
  BY <1>12, <1>14, <1>15 DEF Spanned, PairsAreWhole
<1>18. NeverDatedTooEarly'
  BY <1>2, <1>16 DEF NeverDatedTooEarly, Smaller
<1> QED BY <1>8, <1>10, <1>11, <1>13, <1>17, <1>18 DEF StreamInv

\* The drain begins and ends between two samples.
LEMMA BoundariesAreWhole ==
    ASSUME TypeOK, TypeOK', StreamInv, Begin \/ DrainEnds
    PROVE  StreamInv'
<1>0. /\ wire' = wire /\ pending' = pending /\ sent' = sent /\ ended' = ended
      /\ phase' \in {"drain", "read"} /\ phase \in {"idle", "drain"}
  BY DEF Begin, DrainEnds, linkVars
<1>1. NextByte' = NextByte /\ InOrder'
  BY <1>0 DEF StreamInv, InOrder, NextByte, Unsent
<1>2. Taken = 0 /\ Taken' = 0
  <2>1. CASE Begin
    BY <2>1 DEF Begin, Taken, readVars
  <2>2. CASE DrainEnds
    BY <2>2 DEF DrainEnds, Boundary, Taken
  <2> QED BY <2>1, <2>2
<1>3. InStep'
  BY <1>0, <1>1, <1>2 DEF StreamInv, InStep
<1>4. phase' = "read" => received' = 0 /\ start' = readStart'
  BY DEF Begin, DrainEnds
<1>5. AfterLast' /\ Spanned' /\ Begun' /\ PairsAreWhole' /\ NeverDatedTooEarly'
  BY <1>0, <1>4 DEF AfterLast, Spanned, Begun, PairsAreWhole, NeverDatedTooEarly, Reading
<1> QED BY <1>1, <1>3, <1>5 DEF StreamInv

\* What the receiver leaves out or takes up, it does by whole samples.
LEMMA ServerContinues ==
    ASSUME TypeOK, TypeOK', StreamInv, Drop \/ Load \/ Shutdown
    PROVE  StreamInv'
<1>1. /\ sent \in Nat /\ NextByte \in Nat /\ Unsent \in Nat
      /\ pending \in [from : Nat, to : Nat] /\ pending.to % 2 = 0
  BY Numbers DEF TypeOK, ServerTypeOK, StreamInv, InStep
<1>2. ~ended /\ UNCHANGED <<wire, odd, readStart, received, start, first, last, phase>>
  BY DEF Drop, Overfull, Load, Loadable, Shutdown, drainVars, readVars
<1>3. CASE Drop
  <2>1. sent' \in Nat /\ sent' >= sent /\ pending' = pending /\ ended' = ended
    BY <1>1, <1>3, DropsForward DEF Drop
  <2>2. NextByte' >= NextByte /\ (NextByte' - NextByte) % 2 = 0
    <3>1. CASE Unsent > 0
      BY <1>1, <2>1, <3>1 DEF NextByte, Unsent
    <3>2. CASE ~(Unsent > 0)
      <4>1. NextByte = 2 * sent /\ NextByte' = 2 * sent'
        BY <2>1, <3>2 DEF NextByte, Unsent
      <4>2. 2 * sent' >= 2 * sent /\ (2 * sent' - 2 * sent) % 2 = 0
        BY <1>1, <2>1, BytesGrow, Zenon
      <4> QED BY <4>1, <4>2
    <3> QED BY <3>1, <3>2
  <2> QED BY <1>1, <1>2, <2>1, <2>2, ServerSkips
<1>4. CASE Load
  <2>0. Unsent = 0 /\ NextByte = 2 * sent
    BY <1>4 DEF Load, Loadable, NextByte
  <2>1. CASE AtFileEnd /\ ~looped
    <3>1. ended' /\ sent' = sent /\ pending' = pending
      BY <1>4, <2>1 DEF Load
    <3>2. Unsent' = 0
      BY <2>0, <3>1 DEF Unsent
    <3> QED BY <1>1, <1>2, <3>1, <3>2, ServerSkips
  <2>2. CASE ~(AtFileEnd /\ ~looped)
    <3> DEFINE count == Smaller(Transfer, FileSamples - Reopened)
    <3>1. count \in Nat \ {0}
      BY <1>4, <2>2, LoadsWhatExists DEF Load
    <3>2. /\ pending' = [from |-> 2 * sent, to |-> 2 * (sent + count)]
          /\ sent' = sent + count /\ ended' = ended
      BY <1>4, <2>2 DEF Load
    <3> HIDE DEF count
    <3>3. pending'.from = 2 * sent /\ pending'.to = 2 * (sent + count)
      BY <3>2
    <3>4. Unsent' > 0 /\ pending'.to % 2 = 0
      BY <1>1, <3>1, <3>3 DEF Unsent
    <3>5. NextByte' = NextByte
      BY <2>0, <3>3, <3>4 DEF NextByte
    <3>6. sent' >= sent /\ NextByte' >= NextByte /\ (NextByte' - NextByte) % 2 = 0
      BY <1>1, <3>1, <3>2, <3>5
    <3> QED BY <1>2, <3>2, <3>4, <3>6, ServerSkips
  <2> QED BY <2>1, <2>2
<1>5. CASE Shutdown
  <2>1. ended' /\ sent' = sent /\ pending' = [from |-> 0, to |-> 0]
    BY <1>5 DEF Shutdown
  <2>2. Unsent' = 0 /\ pending'.to % 2 = 0 /\ sent' >= sent
    BY <1>1, <2>1 DEF Unsent
  <2> QED BY <1>2, <2>1, <2>2, ServerSkips
<1> QED BY <1>3, <1>4, <1>5

\* The bytes that a capture reads are always those that the invariant says.
THEOREM StreamCorrect == Spec => []StreamInv
<1>1. Init => StreamInv
  <2> SUFFICES ASSUME Init PROVE StreamInv
    OBVIOUS
  <2>1. /\ wire = <<>> /\ Len(wire) = 0 /\ sent = 0 /\ Unsent = 0 /\ pending.to = 0
        /\ phase = "idle" /\ received = 0
    BY DEF Init, Unsent
  <2>2. NextByte = 0 /\ Taken = 0
    BY <2>1 DEF NextByte, Taken
  <2>3. InOrder /\ InStep
    BY <2>1, <2>2 DEF InOrder, InStep
  <2> QED BY <2>1, <2>3 DEF StreamInv, AfterLast, Spanned, Begun, PairsAreWhole,
                            NeverDatedTooEarly, Reading
<1>2. TypeOK /\ TypeOK' /\ StreamInv /\ [Next]_vars => StreamInv'
  <2> SUFFICES ASSUME TypeOK, TypeOK', StreamInv, [Next]_vars PROVE StreamInv'
    OBVIOUS
  <2>1. CASE Drop \/ Load \/ Shutdown
    BY <2>1, ServerContinues
  <2>2. CASE Send
    BY <2>2, SendContinues
  <2>3. CASE Silence \/ Tick \/ UNCHANGED vars
    BY <2>3, BytesUntouched DEF Silence, Tick, vars, linkVars, drainVars, readVars, bytesVars
  <2>4. CASE DrainTimesOut \/ DrainEof \/ ReadEof \/ ReadTimesOut \/ ReadTooSlow
    BY <2>4, BytesUntouched DEF DrainTimesOut, DrainEof, ReadEof, ReadTimesOut, ReadTooSlow,
       Fail, linkVars, drainVars, readVars, bytesVars
  <2>5. CASE Begin \/ DrainEnds
    BY <2>5, BoundariesAreWhole
  <2>6. CASE DrainRecv
    BY <2>6, DrainContinues
  <2>7. CASE ReadRecv
    BY <2>7, ReadContinues
  <2> QED BY <2>1, <2>2, <2>3, <2>4, <2>5, <2>6, <2>7 DEF Next, Server, Drain, Read
<1> QED BY <1>1, <1>2, TypeCorrect, PTL DEF Spec

\* A capture holds whole I/Q pairs in step, for every way in which the reads of the drain
\* and the drops of the receiver split them (_discard_until_quiet).
THEOREM WholePairs == Spec => []PairsAreWhole
<1>1. StreamInv => PairsAreWhole
  BY DEF StreamInv
<1> QED BY <1>1, StreamCorrect, PTL

\* No capture is dated before its first sample and its read, for every pattern of
\* arrivals and every loss (_read_capture).
THEOREM DatedNoEarlier == Spec => []NeverDatedTooEarly
<1>1. StreamInv => NeverDatedTooEarly
  BY DEF StreamInv
<1> QED BY <1>1, StreamCorrect, PTL

\* What the arrivals tell of a capture: a read of a sample that is not older than a transfer
\* and the jitter dates the capture to a transfer, whatever waited before it, if nothing was
\* lost until then; and no later step of the capture undoes it.
AFreshReadDates ==
    /\ ReadRecv /\ Lossless' /\ now - last' \div 2 <= Transfer + Jitter => DatedToATransfer'
    /\ Reading /\ DatedToATransfer /\ Reading' => DatedToATransfer'

\* The bound that a read gives is as late as the sample that it ends with is old.
LEMMA DatedByTheNewest ==
    ASSUME NEW f \in Nat, NEW l \in Nat, NEW n \in Nat, NEW t \in Nat,
           f % 2 = 0, l - f + 1 = n
    PROVE  t - n \div 2 <= f \div 2 + (t - l \div 2)
  OBVIOUS

\* The earlier of two dates is as early as both.
LEMMA EarliestIsEarly ==
    ASSUME NEW s \in Int, NEW b \in Int
    PROVE  Smaller(s, b) <= s /\ Smaller(s, b) <= b
  BY DEF Smaller

\* However a capture's samples were delayed, it is dated late by no more than the freshest
\* of its reads: what makes it late is only that none of its reads ever caught up with the
\* receiver (_read_capture). Whether its arrivals show that one did is CaughtUpIsDated.
THEOREM FreshReadsDate == Spec => [][AFreshReadDates]_vars
<1>1. TypeOK /\ TypeOK' /\ StreamInv' /\ [Next]_vars => [AFreshReadDates]_vars
  <2> SUFFICES ASSUME TypeOK, TypeOK', StreamInv', Next PROVE AFreshReadDates
    OBVIOUS
  <2>0. /\ now \in Nat /\ Transfer \in Nat /\ Jitter \in Nat /\ start \in Int /\ start' \in Int
        /\ first \in Nat /\ first' \in Nat /\ last' \in Nat /\ received \in Nat /\ received' \in Nat
    BY SizesAssumption, TimesAssumption DEF TypeOK, ClientTypeOK
  <2>1. ASSUME ReadRecv PROVE start' <= start /\ start' <= now - received' \div 2
    <3>1. now - received' \div 2 \in Int
      BY <2>0
    <3>2. start' = Smaller(start, now - received' \div 2)
      BY <2>1 DEF ReadRecv, Earliest, BoundOf
    <3> QED BY <2>0, <3>1, <3>2, EarliestIsEarly
  <2>2. ASSUME ReadRecv, Lossless', now - last' \div 2 <= Transfer + Jitter
        PROVE  DatedToATransfer'
    <3>1. phase' \in {"read", "captured"} /\ received' > 0
      <4>1. phase = "read" /\ phase' \in {"read", "captured"} /\ wire # <<>>
            /\ received' = received + Arriving
        BY <2>2 DEF ReadRecv
      <4>2. Arriving \in Nat \ {0}
        <5>1. Len(wire) \in Nat \ {0} /\ 2 * Samples - received \in Nat \ {0}
          <6>1. wire \in Seq(Nat) /\ wire # <<>>
            BY <4>1, Numbers
          <6>2. received < 2 * Samples /\ Samples \in Nat
            BY <4>1, SizesAssumption DEF TypeOK, ClientTypeOK
          <6> QED BY <2>0, <6>1, <6>2
        <5> QED BY <5>1 DEF Arriving, Smaller
      <4> QED BY <2>0, <4>1, <4>2
    <3>2. first' % 2 = 0 /\ last' - first' + 1 = received'
      BY <2>2, <3>1 DEF StreamInv, PairsAreWhole, Reading, Lossless
    <3>3. now - received' \div 2 <= first' \div 2 + (now - last' \div 2)
      BY <2>0, <3>2, DatedByTheNewest
    <3>4. start' <= now - received' \div 2
      BY <2>1, <2>2
    <3>5. first' \div 2 \in Int /\ last' \div 2 \in Int /\ received' \div 2 \in Int
      BY <2>0
    <3>6. now - received' \div 2 \in Int /\ now - last' \div 2 \in Int
      BY <2>0, <3>5
    <3>7. start' <= first' \div 2 + Transfer + Jitter
      <4> DEFINE bound == now - received' \div 2
                 from == first' \div 2
                 age == now - last' \div 2
      <4>1. bound \in Int /\ from \in Int /\ age \in Int
        BY <3>5, <3>6
      <4>2. start' <= bound /\ bound <= from + age /\ age <= Transfer + Jitter
        BY <2>2, <3>3, <3>4
      <4> HIDE DEF bound, from, age
      <4>3. start' <= from + Transfer + Jitter
        BY <2>0, <4>1, <4>2
      <4> QED BY <4>3 DEF from
    <3> QED BY <3>7 DEF DatedToATransfer
  <2>3. ASSUME Reading, DatedToATransfer, Reading' PROVE DatedToATransfer'
    <3>1. first' = first /\ start' <= start
      <4>1. CASE ReadRecv
        BY <2>1, <2>3, <4>1 DEF ReadRecv, Reading
      <4>2. CASE ~ReadRecv
        <5>1. ~Begin /\ ~DrainEnds
          BY <2>3 DEF Begin, DrainEnds, Reading
        <5> QED BY <2>0, <4>2, <5>1 DEF Next, Server, Drain, Read, Drop, Load, Send, Shutdown,
              Silence, DrainTimesOut, DrainEof, DrainRecv, ReadEof, ReadTimesOut, ReadTooSlow, Fail,
              Tick, readVars
      <4> QED BY <4>1, <4>2
    <3>2. first \div 2 \in Int
      BY <2>0
    <3> QED BY <2>0, <2>3, <3>1, <3>2 DEF DatedToATransfer
  <2> QED BY <2>2, <2>3 DEF AFreshReadDates
<1> QED BY <1>1, StreamCorrect, TypeCorrect, PTL DEF Spec

-----------------------------------------------------------------------------
(* The connections themselves.  No safety property of ReceiverConnect is     *)
(* inductive by itself: the argument needs to know who holds a socket at     *)
(* each control point of a thread (Ownership), that what _stop collected     *)
(* under _slots_lock is everything that can still block (Collected), and     *)
(* that an interrupted client whose socket can still be read has it shut     *)
(* down, or just about to be (Interrupted).                                  *)

\* Who holds a receiver's socket, from the moment it is open to its close.
Ownership ==
    \A r \in Receivers :
        /\ thread[r] \in ConnectPoints => ~slotClient[r]
        /\ connecting[r] <=>
              thread[r] \in {"create", "own", "header", "adopt", "info", "drop", "hand"}
        /\ thread[r] = "header" => handshake[r]
        /\ sock[r] => slotClient[r] \/ thread[r] \in {"info", "hand", "orphan"}
        /\ thread[r] \in {"info", "orphan"} => sock[r]
        /\ thread[r] \in {"create", "own", "header", "adopt", "info", "drop"} => ~info[r]
        /\ thread[r] = "hand" => (sock[r] <=> info[r])
        /\ r \in live => sock[r] \/ thread[r] \in {"own", "header", "adopt", "drop"}
        /\ slotClient[r] => info[r]
        /\ slotClient[r] /\ ~sock[r] /\ main \in LoopPoints => r \in failed

\* What the control point of the main thread says about the stop.
Stopping ==
    /\ main \in LoopPoints => ~stopping
    /\ main \in {"wake", "shutdown", "join", "disconnect", "over"} => stopping
    /\ main # "shutdown" => toShut = {}
    /\ main \notin {"wake", "shutdown"} => toInterrupt = {}
    /\ main = "over" => Up = {}
    /\ main \in {"report", "between"} => \A r \in Receivers : thread[r] = Ended
    /\ main = "between" => failed = {}
    /\ main = "spawn" => \A r \in toStart : thread[r] = Ended
    /\ main \in StopPoints => stopsLeft \in 1..2

\* After the stop took _slots_lock, every client that a slot holds or connects
\* has been interrupted or is about to be.
Collected ==
    stopping =>
        \A r \in Receivers :
            slotClient[r] \/ connecting[r] => r \in toInterrupt \/ interrupted[r]

\* An interrupted client with an open socket that a thread can wait on.
Interrupted ==
    \A r \in Receivers :
        interrupted[r] =>
            /\ stopping
            /\ r \in live /\ (slotClient[r] \/ thread[r] = "header") => r \in shut \cup toShut

ConnectionInv == ConnectTypeOK /\ Ownership /\ Stopping /\ Collected /\ Interrupted

-----------------------------------------------------------------------------

\* The initial state: no thread runs and nothing is connected.
LEMMA InitConnection == ConnectInit => ConnectionInv
  <1> SUFFICES ASSUME ConnectInit PROVE ConnectionInv
    OBVIOUS
  <1> USE DEF ConnectInit, Nobody, Up, ConnectPoints, ReadPoints, Ended, LoopPoints,
              StopPoints
  <1>1. ConnectTypeOK
    <2>1. thread \in [Receivers -> ConnectPoints \cup ReadPoints \cup {Ended}]
      OBVIOUS
    <2>2. Nobody \in [Receivers -> BOOLEAN]
      BY Zenon
    <2>3. /\ slotClient \in [Receivers -> BOOLEAN]
          /\ connecting \in [Receivers -> BOOLEAN]
          /\ sock \in [Receivers -> BOOLEAN]
          /\ handshake \in [Receivers -> BOOLEAN]
          /\ interrupted \in [Receivers -> BOOLEAN]
          /\ info \in [Receivers -> BOOLEAN]
      BY <2>2, Zenon
    <2>4. stopsLeft \in 0..2
      OBVIOUS
    <2>5. /\ toStart \in SUBSET Receivers
          /\ failed \in SUBSET Receivers
          /\ toInterrupt \in SUBSET Receivers
          /\ toShut \in SUBSET Receivers
          /\ live \in SUBSET Receivers
          /\ shut \in SUBSET Receivers
      OBVIOUS
    <2>6. main \in LoopPoints \cup StopPoints \cup {"over"} /\ stopping \in BOOLEAN
      BY Zenon
    <2>7. QED
      BY <2>1, <2>3, <2>4, <2>5, <2>6, Zenon DEF ConnectTypeOK
  <1>2. Ownership
    BY DEF Ownership
  <1>3. Stopping
    BY DEF Stopping
  <1>4. Collected /\ Interrupted
    BY DEF Collected, Interrupted
  <1>5. QED
    BY <1>1, <1>2, <1>3, <1>4 DEF ConnectionInv

\* Every step keeps the invariant: one case per action of the code.
LEMMA NextConnection == ConnectionInv /\ [ConnectNext]_connectVars => ConnectionInv'
  <1> SUFFICES ASSUME ConnectionInv, [ConnectNext]_connectVars PROVE ConnectionInv'
    OBVIOUS
  <1> USE DEF ConnectionInv, ConnectTypeOK, Ownership, Stopping, Collected, Interrupted, Up,
              LoopPoints, StopPoints, ConnectPoints, ReadPoints, Ended, connectVars,
              mainVars, stopVars, slotVars, clientVars, osVars, Goto, Fails, Closed,
              Disconnected
  <1>1. CASE BeginPhase
    BY <1>1 DEF BeginPhase
  <1>2. CASE AllStarted
    BY <1>2 DEF AllStarted
  <1>3. CASE AllFinished
    BY <1>3 DEF AllFinished
  <1>4. CASE AllReported
    BY <1>4 DEF AllReported
  <1>5. CASE StopCollect
    BY <1>5 DEF StopCollect, InSlotsOrConnecting
  <1>6. CASE StopShutdown
    BY <1>6 DEF StopShutdown
  <1>7. CASE AllInterrupted
    BY <1>7 DEF AllInterrupted
  <1>8. CASE StopJoin
    BY <1>8 DEF StopJoin
  <1>9. CASE StopReturns
    BY <1>9 DEF StopReturns, AfterStop
  <1>10. ASSUME NEW stops \in 1..2, LeaveLoop(stops) PROVE ConnectionInv'
    BY <1>10 DEF LeaveLoop
  <1>11. ASSUME NEW r \in Receivers, StartThread(r) PROVE ConnectionInv'
    <2>1. ConnectTypeOK'
      BY <1>11 DEF StartThread
    <2>2. Ownership'
      <3>1. CASE slotClient[r]
        BY <1>11, <3>1 DEF StartThread
      <3>2. CASE ~slotClient[r]
        BY <1>11, <3>2 DEF StartThread
      <3>3. QED
        BY <3>1, <3>2
    <2>3. Stopping'
      BY <1>11 DEF StartThread
    <2>4. Collected'
      BY <1>11 DEF StartThread
    <2>5. Interrupted'
      BY <1>11 DEF StartThread
    <2>6. QED
      BY <2>1, <2>2, <2>3, <2>4, <2>5
  <1>12. ASSUME NEW r \in Receivers, Report(r) PROVE ConnectionInv'
    BY <1>12 DEF Report
  <1>13. ASSUME NEW r \in Receivers, StopInterrupt(r) PROVE ConnectionInv'
    BY <1>13 DEF StopInterrupt
  <1>14. ASSUME NEW r \in Receivers, StopDisconnect(r) PROVE ConnectionInv'
    BY <1>14 DEF StopDisconnect
  <1>15. ASSUME NEW r \in Receivers, ConnectBegin(r) PROVE ConnectionInv'
    <2>1. ConnectTypeOK'
      BY <1>15 DEF ConnectBegin
    <2>2. Ownership'
      <3>1. CASE stopping
        BY <1>15, <3>1 DEF ConnectBegin
      <3>2. CASE ~stopping
        BY <1>15, <3>2 DEF ConnectBegin
      <3>3. QED
        BY <3>1, <3>2
    <2>3. Stopping'
      BY <1>15 DEF ConnectBegin
    <2>4. Collected'
      BY <1>15 DEF ConnectBegin
    <2>5. Interrupted'
      BY <1>15 DEF ConnectBegin
    <2>6. QED
      BY <2>1, <2>2, <2>3, <2>4, <2>5
  <1>16. ASSUME NEW r \in Receivers, CreateConnection(r) PROVE ConnectionInv'
    BY <1>16 DEF CreateConnection
  <1>17. ASSUME NEW r \in Receivers, OwnHandshake(r) PROVE ConnectionInv'
    BY <1>17 DEF OwnHandshake
  <1>18. ASSUME NEW r \in Receivers, ReadHeader(r) PROVE ConnectionInv'
    BY <1>18 DEF ReadHeader
  <1>19. ASSUME NEW r \in Receivers, AdoptSocket(r) PROVE ConnectionInv'
    BY <1>19 DEF AdoptSocket
  <1>20. ASSUME NEW r \in Receivers, SetInfo(r) PROVE ConnectionInv'
    BY <1>20 DEF SetInfo
  <1>21. ASSUME NEW r \in Receivers, DropSocket(r) PROVE ConnectionInv'
    BY <1>21 DEF DropSocket
  <1>22. ASSUME NEW r \in Receivers, HandOver(r) PROVE ConnectionInv'
    BY <1>22 DEF HandOver, Kept, Orphan
  <1>23. ASSUME NEW r \in Receivers, CloseOrphan(r) PROVE ConnectionInv'
    BY <1>23 DEF CloseOrphan
  <1>24. ASSUME NEW r \in Receivers, TakeClient(r) PROVE ConnectionInv'
    BY <1>24 DEF TakeClient
  <1>25. ASSUME NEW r \in Receivers, FinishReading(r) PROVE ConnectionInv'
    BY <1>25 DEF FinishReading
  <1>26. ASSUME NEW r \in Receivers, FailReading(r) PROVE ConnectionInv'
    <2>1. ConnectTypeOK'
      BY <1>26 DEF FailReading
    <2>2. Ownership'
      BY <1>26 DEF FailReading
    <2>3. Stopping'
      BY <1>26 DEF FailReading
    <2>4. Collected'
      BY <1>26 DEF FailReading
    <2>5. Interrupted'
      BY <1>26 DEF FailReading
    <2>6. QED
      BY <2>1, <2>2, <2>3, <2>4, <2>5
  <1>27. CASE UNCHANGED connectVars
    BY <1>27
  <1>28. QED
    BY <1>1, <1>2, <1>3, <1>4, <1>5, <1>6, <1>7, <1>8, <1>9, <1>10, <1>11, <1>12, <1>13,
       <1>14, <1>15, <1>16, <1>17, <1>18, <1>19, <1>20, <1>21, <1>22, <1>23, <1>24, <1>25,
       <1>26, <1>27
       DEF ConnectNext, LoopStep, StopStep, ThreadStep

\* The inductive invariant holds throughout every behaviour.
THEOREM ConnectionsHold == ConnectSpec => []ConnectionInv
  <1>1. QED
    BY InitConnection, NextConnection, PTL DEF ConnectSpec

\* The control points and fields of the connections keep their types, for any
\* set of receivers (_ReceiverSlot, RtlTcpClient).
THEOREM ConnectionTypeCorrect == ConnectSpec => []ConnectTypeOK
  <1>1. ConnectionInv => ConnectTypeOK
    BY DEF ConnectionInv
  <1>2. QED
    BY <1>1, ConnectionsHold, PTL

\* connect, _connect, _disconnect and capture_fresh together never lose an open
\* connection: each has an owner that will close it.
THEOREM NothingAbandoned == ConnectSpec => []NoAbandonedSocket
  <1>1. ConnectionInv => NoAbandonedSocket
    BY DEF ConnectionInv, ConnectTypeOK, Ownership, NoAbandonedSocket
  <1>2. QED
    BY <1>1, ConnectionsHold, PTL

\* When run() has returned and its threads have ended, all receivers are closed.
THEOREM AllClosedInTheEnd == ConnectSpec => []ClosedInTheEnd
  <1>1. ConnectionInv => ClosedInTheEnd
    BY DEF ConnectionInv, ConnectTypeOK, Ownership, Stopping, ClosedInTheEnd,
           Up, Ended
  <1>2. QED
    BY <1>1, ConnectionsHold, PTL

\* interrupt() reaches every read that blocks: none of them outlasts the stop
\* on a socket that is still open for reading.
THEOREM ReadersAreWoken == ConnectSpec => []BlockedReadersAreWoken
  <1>1. ASSUME ConnectionInv PROVE BlockedReadersAreWoken
    <2>1. SUFFICES ASSUME main \in {"join", "disconnect", "over"},
                          NEW r \in Receivers,
                          thread[r] \in {"header", "recv"}, r \in live
                   PROVE  r \in shut
      BY DEF BlockedReadersAreWoken
    <2>2. stopping /\ toShut = {} /\ toInterrupt = {}
      BY <1>1, <2>1 DEF ConnectionInv, Stopping
    <2>3. slotClient[r] \/ thread[r] = "header"
      BY <1>1, <2>1 DEF ConnectionInv, Ownership
    <2>4. slotClient[r] \/ connecting[r]
      BY <1>1, <2>3 DEF ConnectionInv, Ownership
    <2>5. interrupted[r]
      BY <1>1, <2>2, <2>4 DEF ConnectionInv, Collected
    <2>6. QED
      BY <1>1, <2>1, <2>2, <2>3, <2>5 DEF ConnectionInv, Interrupted
  <1>2. QED
    BY <1>1, ConnectionsHold, PTL

\* A client's socket, and the one of a handshake, is open in the operating system.
Connected ==
    \A r \in Receivers :
        sock[r] \/ thread[r] \in {"own", "header", "adopt"} => r \in live

\* Whoever closes a socket of a client makes the client forget it.
LEMMA NextConnected ==
  ASSUME ConnectionInv, Connected, [ConnectNext]_connectVars
  PROVE  Connected'
  <1> USE DEF ConnectionInv, ConnectTypeOK, Connected, Goto, connectVars, mainVars, stopVars,
              slotVars, clientVars, osVars
  <1>1. ASSUME NEW r \in Receivers, Report(r) \/ StopDisconnect(r) PROVE Connected'
    BY <1>1 DEF Report, StopDisconnect, Disconnected, Ownership, ConnectPoints
  <1>2. ASSUME NEW r \in Receivers, StartThread(r) PROVE Connected'
    BY <1>2 DEF StartThread
  <1>3. ASSUME NEW r \in Receivers, ConnectBegin(r) \/ CreateConnection(r) PROVE Connected'
    BY <1>3 DEF ConnectBegin, CreateConnection, Ended
  <1>4. ASSUME NEW r \in Receivers, OwnHandshake(r) \/ ReadHeader(r) \/ AdoptSocket(r) PROVE Connected'
    BY <1>4 DEF OwnHandshake, ReadHeader, AdoptSocket
  <1>5. ASSUME NEW r \in Receivers, SetInfo(r) \/ HandOver(r) PROVE Connected'
    BY <1>5 DEF SetInfo, HandOver, Ended
  <1>6. ASSUME NEW r \in Receivers, DropSocket(r) PROVE Connected'
    BY <1>6 DEF DropSocket, Ownership, ConnectPoints
  <1>7. ASSUME NEW r \in Receivers, CloseOrphan(r) \/ FailReading(r) PROVE Connected'
    BY <1>7 DEF CloseOrphan, FailReading, Closed, Ended
  <1>8. ASSUME NEW r \in Receivers, TakeClient(r) \/ FinishReading(r) PROVE Connected'
    BY <1>8 DEF TakeClient, FinishReading, Ended
  <1>9. CASE UNCHANGED <<sock, live, thread>>
    BY <1>9
  <1>10. QED
    BY <1>1, <1>2, <1>3, <1>4, <1>5, <1>6, <1>7, <1>8, <1>9
       DEF ConnectNext, LoopStep, StopStep, ThreadStep, BeginPhase, AllStarted, AllFinished,
           AllReported, LeaveLoop, StopCollect, StopInterrupt, StopShutdown, AllInterrupted,
           StopJoin, StopReturns

\* No phase begins with a dead client: a slot has one only after the whole handshake, and
\* in the loop its connection is open or its failure is about to be reported.
THEOREM HandedOverUsable == ConnectSpec => []HandedIsUsable
  <1>1. ConnectInit => Connected
    BY DEF ConnectInit, Nobody, Connected, Ended
  <1>2. ConnectionInv /\ Connected => HandedIsUsable
    BY DEF ConnectionInv, ConnectTypeOK, Ownership, Stopping, Connected, HandedIsUsable,
           LoopPoints
  <1>3. QED
    BY <1>1, <1>2, NextConnected, ConnectionsHold, PTL DEF ConnectSpec

=============================================================================
